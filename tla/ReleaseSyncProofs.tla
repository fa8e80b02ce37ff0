-------------------------- MODULE ReleaseSyncProofs --------------------------
(***************************************************************************)
(* Proofs about ReleaseSync.  The invariants are those the runs check; what *)
(* makes them inductive is in AssetsInv (what a task has fetched at which   *)
(* step), LinkInv (what was ever linked agrees on both sides), PushedInv     *)
(* (what has a directory on the server is in a channel, or about to be) and *)
(* UsableInv (where a local tree is usable, and when it need not be).       *)
(***************************************************************************)
EXTENDS ReleaseSync, TLAPS

Complete == {"raw", "full"}

LocalWhole(r) == \A a \in Assets : local[r].files[a] \in Complete

-----------------------------------------------------------------------------
(* What writes and transfers do to a tree.                                 *)

LEMMA WriteFile ==
  ASSUME local \in [Releases -> Trees],
         NEW r \in Releases, NEW a \in Assets, NEW st \in States, SetFile(r, a, st)
  PROVE  /\ local' \in [Releases -> Trees]
         /\ \A s \in Releases \ {r} : local'[s] = local[s]
         /\ local'[r].files[a] = st
         /\ \A b \in Assets \ {a} : local'[r].files[b] = local[r].files[b]
         /\ local'[r].compat = local[r].compat
<1>1. local[r] \in Trees
  OBVIOUS
<1>2. DEFINE t == [local[r] EXCEPT !.files = [local[r].files EXCEPT ![a] = st]]
<1>3. local' = [local EXCEPT ![r] = t]
  BY DEF SetFile
<1>4. /\ t \in Trees /\ t.files[a] = st
      /\ \A b \in Assets \ {a} : t.files[b] = local[r].files[b]
      /\ t.compat = local[r].compat
  BY <1>1 DEF Trees
<1> HIDE DEF t
<1> QED  BY <1>3, <1>4

LEMMA Transfer ==
  ASSUME NEW src \in Trees, NEW dst \in Trees
  PROVE  /\ Transferred(src, dst) \in Trees
         /\ \A a \in Assets :
              Transferred(src, dst).files[a] =
                IF a \in Present(src) THEN src.files[a] ELSE dst.files[a]
         /\ Transferred(src, dst).compat = dst.compat \cup src.compat
<1>1. Transferred(src, dst).compat = dst.compat \cup src.compat
  BY DEF Transferred
<1>2. /\ Transferred(src, dst) \in Trees
      /\ \A a \in Assets :
           Transferred(src, dst).files[a] =
             IF a \in Present(src) THEN src.files[a] ELSE dst.files[a]
  BY DEF Transferred, Trees, Present
<1> QED  BY <1>1, <1>2

LEMMA CutTransfer ==
  ASSUME NEW r \in Releases, NEW src \in Trees, NEW dst \in Trees,
         NEW t \in CutTransfers(r, src, dst)
  PROVE  /\ t.tree \in Trees /\ t.sent \subseteq Present(src) \ same[r]
         /\ \A a \in t.sent : t.tree.files[a] = src.files[a]
         /\ \A a \in same[r] \cap Assets : t.tree.files[a] = dst.files[a]
         /\ \A a \in Assets : t.tree.files[a] \in {src.files[a], "part", dst.files[a]}
         /\ dst.compat \subseteq t.tree.compat
<1> DEFINE sendable == Present(src) \ same[r]
<1>1. PICK S \in SUBSET sendable, P \in SUBSET sendable,
           C \in {D \in SUBSET (dst.compat \cup src.compat) : dst.compat \subseteq D} :
        t = [sent |-> S,
             tree |-> [files |-> [a \in Assets |->
                                    IF a \in S THEN src.files[a]
                                    ELSE IF a \in P THEN "part" ELSE dst.files[a]],
                       compat |-> C]]
  BY DEF CutTransfers
<1>2. sendable \subseteq Assets
  BY DEF Present
<1>3. C \subseteq Onefile
  BY DEF Trees
<1>4. t.tree \in Trees
  BY <1>1, <1>2, <1>3 DEF Trees, States
<1> QED  BY <1>1, <1>2, <1>4

(* Types, and what a task has fetched when it is at which step.  A file that  *)
(* agrees on both sides is never written to: the one a task is at does not.   *)

AssetsOf(r) ==
  /\ pc[r] \in {"assets", "chmod", "compat"} =>
       \A a \in Assets \ todo[r] : local[r].files[a] \in Complete
  /\ pc[r] = "download" =>
       \A a \in Assets \ (todo[r] \cup cur[r]) : local[r].files[a] \in Complete
  /\ pc[r] \in {"push", "pushLink", "mark"} => LocalWhole(r)
  /\ pc[r] \in {"download", "chmod", "compat"} => cur[r] \cap same[r] = {}
  /\ pc[r] = "compat" => cur[r] \subseteq Onefile
  /\ \A a, b \in cur[r] : a = b

AssetsInv == \A r \in Releases : AssetsOf(r)

LEMMA TypeAndAssetsInit == ASSUME Init PROVE TypeOK /\ AssetsInv
<1>1. EmptyTree \in Trees
  BY DEF EmptyTree, Trees, States
<1> QED
  BY <1>1, SetsAssumption, ListingAssumption
  DEF Init, TypeOK, AssetsInv, AssetsOf, Channels, Fragile

\* The steps that do not write a file.
LEMMA TypeAndAssetsOfPlainSteps ==
  ASSUME TypeOK, AssetsInv, NEW r \in Releases,
         \/ ParseFails(r) \/ CheckMarker(r) \/ PullMark(r) \/ PullLink(r)
         \/ PullNothing(r) \/ Mkdir(r) \/ DownloadFail(r)
         \/ ChannelLink(r) \/ ChannelLinkExists(r) \/ PushLink(r)
         \/ MarkReleaseSynced(r) \/ Promote(r) \/ Publish(r)
         \/ \E a \in Assets : SkipAsset(r, a) \/ CompatExists(r, a)
  PROVE  TypeOK' /\ AssetsInv'
<1> USE SetsAssumption DEF github, staging, server, tasks, counters, bounds,
        Channels, Fragile, Steps
<1>1. CASE ParseFails(r)
  BY <1>1 DEF TypeOK, AssetsInv, AssetsOf, LocalWhole, ParseFails, Raise, End, Goto
<1>2. CASE CheckMarker(r)
  BY <1>2 DEF TypeOK, AssetsInv, AssetsOf, LocalWhole, CheckMarker, End, Goto
<1>3. CASE PullMark(r)
  BY <1>3 DEF TypeOK, AssetsInv, AssetsOf, LocalWhole, PullMark, Goto
<1>4. CASE PullLink(r)
  BY <1>4 DEF TypeOK, AssetsInv, AssetsOf, LocalWhole, PullLink, End, Goto
<1>5. CASE PullNothing(r)
  BY <1>5 DEF TypeOK, AssetsInv, AssetsOf, LocalWhole, PullNothing, Goto
<1>6. CASE Mkdir(r)
  BY <1>6 DEF TypeOK, AssetsInv, AssetsOf, LocalWhole, Mkdir, Goto
<1>7. CASE DownloadFail(r)
  BY <1>7 DEF TypeOK, AssetsInv, AssetsOf, LocalWhole, DownloadFail, Raise, End, Goto
<1>8. CASE ChannelLink(r)
  BY <1>8 DEF TypeOK, AssetsInv, AssetsOf, LocalWhole, ChannelLink, AssetsEnsured, Goto
<1>9. CASE ChannelLinkExists(r)
  BY <1>9 DEF TypeOK, AssetsInv, AssetsOf, LocalWhole, ChannelLinkExists,
              AssetsEnsured, Raise, End, Goto
<1>10. CASE PushLink(r)
  BY <1>10 DEF TypeOK, AssetsInv, AssetsOf, LocalWhole, PushLink, Goto
<1>11. CASE MarkReleaseSynced(r)
  BY <1>11 DEF TypeOK, AssetsInv, AssetsOf, LocalWhole, MarkReleaseSynced, End, Goto
<1>12. CASE Promote(r)
  BY <1>12 DEF TypeOK, AssetsInv, AssetsOf, LocalWhole, Promote
<1>13. CASE Publish(r)
  BY <1>13 DEF TypeOK, AssetsInv, AssetsOf, LocalWhole, Publish
<1>14. CASE \E a \in Assets : SkipAsset(r, a)
  BY <1>14 DEF TypeOK, AssetsInv, AssetsOf, LocalWhole, SkipAsset, Complete
<1>15. CASE \E a \in Assets : CompatExists(r, a)
  BY <1>15 DEF TypeOK, AssetsInv, AssetsOf, LocalWhole, CompatExists, Raise, End, Goto
<1> QED
  BY <1>1, <1>2, <1>3, <1>4, <1>5, <1>6, <1>7, <1>8, <1>9, <1>10, <1>11, <1>12,
     <1>13, <1>14, <1>15

\* What a step of r that writes file a leaves, when the file does not agree
\* on both sides afterwards.
Writes(r, a) ==
  /\ local' \in [Releases -> Trees]
  /\ \A s \in Releases \ {r} : local'[s] = local[s]
  /\ \A b \in Assets \ {a} : local'[r].files[b] = local[r].files[b]
  /\ same' \in [Releases -> SUBSET Assets]
  /\ \A s \in Releases : same'[s] \subseteq same[s]
  /\ a \notin same'[r]
  /\ pc' \in [Releases -> Steps \cup {"done"}]
  /\ todo' \in [Releases -> SUBSET Assets] /\ cur' \in [Releases -> SUBSET Assets]
  /\ \A s \in Releases \ {r} : pc'[s] = pc[s] /\ todo'[s] = todo[s] /\ cur'[s] = cur[s]
  /\ pc[r] # "done"
  /\ UNCHANGED <<github, tagsDir, link, marker, server, active, stopping, channel, bounds>>

LEMMA TypeOfWrites ==
  ASSUME TypeOK, NEW r \in Releases, NEW a \in Assets, Writes(r, a)
  PROVE  TypeOK'
<1> USE DEF github, server, bounds, counters
<1>1. \A s \in Releases : \A b \in same'[s] : local'[s].files[b] = remote'[s].files[b]
  <2>1. /\ \A s \in Releases : same[s] \subseteq Assets
        /\ \A s \in Releases : \A b \in same[s] : local[s].files[b] = remote[s].files[b]
    BY DEF TypeOK
  <2>2. /\ \A s \in Releases \ {r} : local'[s] = local[s]
        /\ \A b \in Assets \ {a} : local'[r].files[b] = local[r].files[b]
        /\ \A s \in Releases : same'[s] \subseteq same[s]
        /\ a \notin same'[r] /\ remote' = remote
    BY DEF Writes
  <2> QED  BY <2>1, <2>2
<1>2. \A s \in Releases : ~active' => pc'[s] = "done"
  BY DEF TypeOK, Writes
<1> QED
  BY <1>1, <1>2 DEF TypeOK, Writes

LEMMA TypeAndAssetsOfRemoveAsset ==
  ASSUME TypeOK, AssetsInv, NEW r \in Releases, NEW a \in Assets, RemoveAsset(r, a)
  PROVE  TypeOK' /\ AssetsInv'
<1> DEFINE st == "none"
<1>1. SetFile(r, a, st) /\ st \in States /\ local \in [Releases -> Trees]
  BY DEF RemoveAsset, States, TypeOK
<1>2. /\ local' \in [Releases -> Trees]
      /\ \A s \in Releases \ {r} : local'[s] = local[s]
      /\ local'[r].files[a] = st
      /\ \A b \in Assets \ {a} : local'[r].files[b] = local[r].files[b]
  <2> HIDE DEF st
  <2> QED  BY <1>1, WriteFile
<1> HIDE DEF st
<1>3. Writes(r, a)
  <2>1. /\ same' \in [Releases -> SUBSET Assets]
        /\ \A s \in Releases : same'[s] \subseteq same[s]
        /\ a \notin same'[r]
    BY DEF TypeOK, RemoveAsset
  <2>2. /\ pc' \in [Releases -> Steps \cup {"done"}] /\ pc[r] # "done"
        /\ \A s \in Releases \ {r} : pc'[s] = pc[s]
    BY DEF TypeOK, RemoveAsset, Goto, Steps
  <2>3. /\ todo' \in [Releases -> SUBSET Assets] /\ cur' \in [Releases -> SUBSET Assets]
        /\ \A s \in Releases \ {r} : todo'[s] = todo[s] /\ cur'[s] = cur[s]
    BY DEF TypeOK, RemoveAsset
  <2>4. UNCHANGED <<github, tagsDir, link, marker, server, active, stopping, channel, bounds>>
    BY DEF RemoveAsset
  <2> QED
    BY <1>2, <2>1, <2>2, <2>3, <2>4 DEF Writes
<1>4. ASSUME NEW s \in Releases PROVE AssetsOf(s)'
  <2>1. CASE s = r
    BY <1>1, <1>2, <2>1 DEF TypeOK, AssetsInv, AssetsOf, LocalWhole, RemoveAsset, Goto, Complete
  <2>2. CASE s # r
    BY <1>3, <2>2 DEF AssetsInv, AssetsOf, LocalWhole, Writes, RemoveAsset
  <2> QED  BY <2>1, <2>2
<1> QED
  BY <1>3, <1>4, TypeOfWrites DEF AssetsInv

LEMMA TypeAndAssetsOfDownload ==
  ASSUME TypeOK, AssetsInv, NEW r \in Releases, NEW a \in Assets, Download(r, a)
  PROVE  TypeOK' /\ AssetsInv'
<1> DEFINE st == IF a \in Onefile THEN "raw" ELSE "full"
<1>1. SetFile(r, a, st) /\ st \in States /\ local \in [Releases -> Trees]
  BY DEF Download, States, TypeOK
<1>2. /\ local' \in [Releases -> Trees]
      /\ \A s \in Releases \ {r} : local'[s] = local[s]
      /\ local'[r].files[a] = st
      /\ \A b \in Assets \ {a} : local'[r].files[b] = local[r].files[b]
  <2> HIDE DEF st
  <2> QED  BY <1>1, WriteFile
<1>3. st \in Complete
  BY DEF Complete
<1> HIDE DEF st
<1>4. Writes(r, a)
  BY <1>2 DEF Writes, TypeOK, Download, AssetsInv, AssetsOf, Goto, Steps
<1>5. ASSUME NEW s \in Releases PROVE AssetsOf(s)'
  <2>1. CASE s = r
    BY <1>1, <1>2, <2>1, <1>3 DEF TypeOK, AssetsInv, AssetsOf, LocalWhole, Download, Goto, Complete
  <2>2. CASE s # r
    BY <1>4, <2>2 DEF AssetsInv, AssetsOf, LocalWhole, Writes, Download
  <2> QED  BY <2>1, <2>2
<1> QED
  BY <1>4, <1>5, TypeOfWrites DEF AssetsInv

LEMMA TypeAndAssetsOfChmod ==
  ASSUME TypeOK, AssetsInv, NEW r \in Releases, NEW a \in Assets, Chmod(r, a)
  PROVE  TypeOK' /\ AssetsInv'
<1> DEFINE st == "full"
<1>1. SetFile(r, a, st) /\ st \in States /\ local \in [Releases -> Trees]
  BY DEF Chmod, States, TypeOK
<1>2. /\ local' \in [Releases -> Trees]
      /\ \A s \in Releases \ {r} : local'[s] = local[s]
      /\ local'[r].files[a] = st
      /\ \A b \in Assets \ {a} : local'[r].files[b] = local[r].files[b]
  <2> HIDE DEF st
  <2> QED  BY <1>1, WriteFile
<1>3. st \in Complete
  BY DEF Complete
<1> HIDE DEF st
<1>4. Writes(r, a)
  BY <1>2 DEF Writes, TypeOK, Chmod, AssetsInv, AssetsOf, Goto, Steps
<1>5. ASSUME NEW s \in Releases PROVE AssetsOf(s)'
  <2>1. CASE s = r
    BY <1>1, <1>2, <2>1, <1>3 DEF TypeOK, AssetsInv, AssetsOf, LocalWhole, Chmod, Goto, Complete
  <2>2. CASE s # r
    BY <1>4, <2>2 DEF AssetsInv, AssetsOf, LocalWhole, Writes, Chmod
  <2> QED  BY <2>1, <2>2
<1> QED
  BY <1>4, <1>5, TypeOfWrites DEF AssetsInv

LEMMA TypeAndAssetsOfCompatLink ==
  ASSUME TypeOK, AssetsInv, NEW r \in Releases, NEW a \in Assets, CompatLink(r, a)
  PROVE  TypeOK' /\ AssetsInv'
<1>1. local[r] \in Trees /\ a \in Onefile
  BY DEF TypeOK, CompatLink, AssetsInv, AssetsOf
<1>2. /\ local' \in [Releases -> Trees]
      /\ \A s \in Releases \ {r} : local'[s] = local[s]
      /\ local'[r].files = local[r].files
  BY <1>1 DEF TypeOK, CompatLink, Trees
<1>3. Writes(r, a)
  BY <1>2 DEF Writes, TypeOK, CompatLink, AssetsInv, AssetsOf, Goto, Steps
<1>4. ASSUME NEW s \in Releases PROVE AssetsOf(s)'
  <2>1. CASE s = r
    BY <1>1, <1>2, <2>1 DEF TypeOK, AssetsInv, AssetsOf, LocalWhole, CompatLink, Goto, Complete
  <2>2. CASE s # r
    BY <1>3, <2>2 DEF AssetsInv, AssetsOf, LocalWhole, Writes, CompatLink
  <2> QED  BY <2>1, <2>2
<1> QED
  BY <1>3, <1>4, TypeOfWrites DEF AssetsInv

\* What a transfer between the two trees of r leaves, whole or cut: the new
\* files of same agree, and those of before are not touched.
Transfers(r) ==
  /\ local' \in [Releases -> Trees] /\ remote' \in [Releases -> Trees]
  /\ same' \in [Releases -> SUBSET Assets]
  /\ \A s \in Releases \ {r} :
       local'[s] = local[s] /\ remote'[s] = remote[s] /\ same'[s] = same[s]
  /\ same[r] \subseteq same'[r]
  /\ \A a \in same'[r] \ same[r] : local'[r].files[a] = remote'[r].files[a]
  /\ \A a \in same[r] : /\ local'[r].files[a] = local[r].files[a]
                        /\ remote'[r].files[a] = remote[r].files[a]

LEMMA AgreeAfterTransfers ==
  ASSUME TypeOK, NEW r \in Releases, Transfers(r)
  PROVE  \A s \in Releases : \A a \in same'[s] : local'[s].files[a] = remote'[s].files[a]
<1>1. /\ same \in [Releases -> SUBSET Assets]
      /\ \A s \in Releases : \A a \in same[s] : local[s].files[a] = remote[s].files[a]
  BY DEF TypeOK
<1> QED
  BY <1>1 DEF Transfers

LEMMA PullTransfers ==
  ASSUME TypeOK, NEW r \in Releases,
         local' = [local EXCEPT ![r] = Transferred(remote[r], @)],
         same' = [same EXCEPT ![r] = @ \cup Present(remote[r])],
         remote' = remote
  PROVE  Transfers(r)
<1>1. local[r] \in Trees /\ remote[r] \in Trees /\ local \in [Releases -> Trees]
      /\ remote \in [Releases -> Trees] /\ same \in [Releases -> SUBSET Assets]
      /\ \A a \in same[r] : local[r].files[a] = remote[r].files[a]
  BY DEF TypeOK
<1> DEFINE t == Transferred(remote[r], local[r])
<1>2. t \in Trees /\ \A a \in Assets :
        t.files[a] = IF a \in Present(remote[r]) THEN remote[r].files[a] ELSE local[r].files[a]
  BY <1>1, Transfer
<1>3. local' = [local EXCEPT ![r] = t] /\ Present(remote[r]) \subseteq Assets
  BY DEF Present
<1> HIDE DEF t
<1> QED
  BY <1>1, <1>2, <1>3 DEF Transfers

LEMMA PushTransfers ==
  ASSUME TypeOK, NEW r \in Releases,
         remote' = [remote EXCEPT ![r] = Transferred(local[r], @)],
         same' = [same EXCEPT ![r] = @ \cup Present(local[r])],
         local' = local
  PROVE  /\ Transfers(r)
         /\ \A a \in Present(local[r]) : remote'[r].files[a] = local[r].files[a]
<1>1. local[r] \in Trees /\ remote[r] \in Trees /\ local \in [Releases -> Trees]
      /\ remote \in [Releases -> Trees] /\ same \in [Releases -> SUBSET Assets]
      /\ \A a \in same[r] : local[r].files[a] = remote[r].files[a]
  BY DEF TypeOK
<1> DEFINE t == Transferred(local[r], remote[r])
<1>2. t \in Trees /\ \A a \in Assets :
        t.files[a] = IF a \in Present(local[r]) THEN local[r].files[a] ELSE remote[r].files[a]
  BY <1>1, Transfer
<1>3. remote' = [remote EXCEPT ![r] = t] /\ Present(local[r]) \subseteq Assets
  BY DEF Present
<1> HIDE DEF t
<1> QED
  BY <1>1, <1>2, <1>3 DEF Transfers

LEMMA PullCutTransfers ==
  ASSUME TypeOK, NEW r \in Releases, CutLocal(r), remote' = remote
  PROVE  Transfers(r)
<1>1. local[r] \in Trees /\ remote[r] \in Trees /\ local \in [Releases -> Trees]
      /\ remote \in [Releases -> Trees] /\ same \in [Releases -> SUBSET Assets]
  BY DEF TypeOK
<1>2. PICK t \in CutTransfers(r, remote[r], local[r]) :
        /\ local' = [local EXCEPT ![r] = t.tree]
        /\ same' = [same EXCEPT ![r] = @ \cup t.sent]
  BY DEF CutLocal
<1>3. /\ t.tree \in Trees /\ t.sent \subseteq Assets
      /\ \A a \in t.sent : t.tree.files[a] = remote[r].files[a]
      /\ \A a \in same[r] \cap Assets : t.tree.files[a] = local[r].files[a]
  BY <1>1, CutTransfer DEF Present
<1> QED
  BY <1>1, <1>2, <1>3 DEF Transfers

LEMMA PushCutTransfers ==
  ASSUME TypeOK, NEW r \in Releases, CutRemote(r)
  PROVE  Transfers(r) /\ local' = local
<1>1. local[r] \in Trees /\ remote[r] \in Trees /\ local \in [Releases -> Trees]
      /\ remote \in [Releases -> Trees] /\ same \in [Releases -> SUBSET Assets]
  BY DEF TypeOK
<1>2. local' = local
  BY DEF CutRemote
<1>3. CASE UNCHANGED <<same, remote>>
  BY <1>1, <1>2, <1>3 DEF Transfers
<1>4. CASE \E t \in CutTransfers(r, local[r], remote[r]) :
             /\ remote' = [remote EXCEPT ![r] = t.tree]
             /\ same' = [same EXCEPT ![r] = @ \cup t.sent]
  <2>1. PICK t \in CutTransfers(r, local[r], remote[r]) :
          /\ remote' = [remote EXCEPT ![r] = t.tree]
          /\ same' = [same EXCEPT ![r] = @ \cup t.sent]
    BY <1>4
  <2>2. /\ t.tree \in Trees /\ t.sent \subseteq Assets
        /\ \A a \in t.sent : t.tree.files[a] = local[r].files[a]
        /\ \A a \in same[r] \cap Assets : t.tree.files[a] = remote[r].files[a]
    BY <1>1, CutTransfer DEF Present
  <2> QED
    BY <1>1, <1>2, <2>1, <2>2 DEF Transfers
<1> QED
  BY <1>2, <1>3, <1>4 DEF CutRemote

LEMMA TypeAndAssetsOfTransfers ==
  ASSUME TypeOK, AssetsInv, NEW r \in Releases,
         Pull(r) \/ PullCut(r) \/ PushDir(r) \/ PushFail(r)
  PROVE  TypeOK' /\ AssetsInv'
<1> USE DEF github, server, counters, bounds
<1>1. Transfers(r) /\ (PushDir(r) => local' = local)
  <2>1. CASE Pull(r)
    BY <2>1, PullTransfers DEF Pull, PushDir
  <2>2. CASE PullCut(r)
    BY <2>2, PullCutTransfers DEF PullCut, PushDir
  <2>3. CASE PushDir(r)
    BY <2>3, PushTransfers DEF PushDir
  <2>4. CASE PushFail(r)
    BY <2>4, PushCutTransfers DEF PushFail
  <2> QED  BY <2>1, <2>2, <2>3, <2>4
<1>2. \A s \in Releases : \A a \in same'[s] : local'[s].files[a] = remote'[s].files[a]
  BY <1>1, AgreeAfterTransfers
<1>3. CASE Pull(r)
  <2>1. TypeOK'
    BY <1>1, <1>2, <1>3 DEF TypeOK, Pull, Goto, Steps, Transfers
  <2> QED
    BY <1>1, <1>3, <2>1 DEF TypeOK, AssetsInv, AssetsOf, LocalWhole, Pull, Goto, Transfers
<1>4. CASE PullCut(r)
  <2>1. TypeOK'
    BY <1>1, <1>2, <1>4 DEF TypeOK, PullCut, CutLocal, Goto, Steps, Transfers
  <2> QED
    BY <1>1, <1>4, <2>1 DEF TypeOK, AssetsInv, AssetsOf, LocalWhole, PullCut, Goto, Transfers
<1>5. CASE PushDir(r)
  <2>1. TypeOK'
    BY <1>1, <1>2, <1>5 DEF TypeOK, PushDir, Goto, Steps, Transfers
  <2> QED
    BY <1>1, <1>5, <2>1 DEF TypeOK, AssetsInv, AssetsOf, LocalWhole, PushDir, Goto, Transfers
<1>6. CASE PushFail(r)
  <2>1. pc[r] \in Steps /\ pc[r] # "done" /\ remoteDir' \in SUBSET Releases
    BY <1>6 DEF PushFail, CutRemote, Steps, TypeOK
  <2>2. TypeOK'
    BY <1>1, <1>2, <1>6, <2>1
    DEF TypeOK, PushFail, CutRemote, Raise, End, Goto, Steps, Transfers
  <2> QED
    BY <1>1, <1>6, <2>2
    DEF TypeOK, AssetsInv, AssetsOf, LocalWhole, PushFail, Raise, End, Goto, Transfers
<1> QED
  BY <1>3, <1>4, <1>5, <1>6

LEMMA TypeAndAssetsOfCancel ==
  ASSUME TypeOK, AssetsInv, NEW r \in Releases, Cancel(r)
  PROVE  TypeOK' /\ AssetsInv'
<1> USE DEF github, staging, server, counters
<1>1. /\ local' \in [Releases -> Trees] /\ remote' \in [Releases -> Trees]
      /\ same' \in [Releases -> SUBSET Assets] /\ remoteDir' \in SUBSET Releases
      /\ \A s \in Releases \ {r} : local'[s] = local[s] /\ same'[s] = same[s]
      /\ \A s \in Releases : \A a \in same'[s] : local'[s].files[a] = remote'[s].files[a]
      /\ UNCHANGED <<tagsDir, link, marker, remoteLink>>
  <2>1. CASE UNCHANGED <<staging, server, counters>>
    BY <2>1 DEF TypeOK
  <2>2. CASE /\ pc[r] = "download"
             /\ \E a \in cur[r] : SetFile(r, a, "part")
             /\ UNCHANGED <<same, tagsDir, link, marker, server, counters>>
    <3>1. PICK a \in cur[r] : SetFile(r, a, "part")
      BY <2>2
    <3>2. a \in Assets /\ a \notin same[r] /\ "part" \in States
      BY <2>2 DEF AssetsInv, AssetsOf, TypeOK, States
    <3>3. /\ local' \in [Releases -> Trees]
          /\ \A s \in Releases \ {r} : local'[s] = local[s]
          /\ \A b \in Assets \ {a} : local'[r].files[b] = local[r].files[b]
      BY <3>1, <3>2, WriteFile DEF TypeOK
    <3>4. /\ \A s \in Releases : same[s] \subseteq Assets
          /\ \A s \in Releases : \A b \in same[s] : local[s].files[b] = remote[s].files[b]
          /\ same' = same /\ remote' = remote
      BY <2>2 DEF TypeOK
    <3>5. \A s \in Releases : \A b \in same'[s] : local'[s].files[b] = remote'[s].files[b]
      BY <3>2, <3>3, <3>4
    <3> QED
      BY <2>2, <3>3, <3>5 DEF TypeOK
  <2>3. CASE CutLocal(r) /\ UNCHANGED <<server, counters>>
    <3>1. Transfers(r)
      BY <2>3, PullCutTransfers
    <3>2. UNCHANGED <<tagsDir, link, marker>> /\ remoteDir' \in SUBSET Releases
      BY <2>3 DEF CutLocal, TypeOK
    <3> QED
      BY <2>3, <3>1, <3>2, AgreeAfterTransfers DEF Transfers
  <2>4. CASE CutRemote(r)
    <3>1. Transfers(r)
      BY <2>4, PushCutTransfers
    <3>2. UNCHANGED <<tagsDir, link, marker, remoteLink>> /\ remoteDir' \in SUBSET Releases
      BY <2>4 DEF CutRemote, TypeOK
    <3> QED
      BY <3>1, <3>2, AgreeAfterTransfers DEF Transfers
  <2> QED
    BY <2>1, <2>2, <2>3, <2>4 DEF Cancel
<1>2. End(r) /\ interrupted' \in SUBSET Steps
      /\ UNCHANGED <<github, active, stopping>>
  BY DEF Cancel, TypeOK, Fragile, Steps
<1>3. TypeOK'
  BY <1>1, <1>2 DEF TypeOK, End, Goto, Steps
<1>4. AssetsInv'
  BY <1>1, <1>2 DEF TypeOK, AssetsInv, AssetsOf, LocalWhole, End, Goto
<1> QED
  BY <1>3, <1>4

LEMMA TypeAndAssetsOfRuns ==
  ASSUME TypeOK, AssetsInv, StartRun \/ Finish \/ Stop \/ Wipe \/ UNCHANGED vars
  PROVE  TypeOK' /\ AssetsInv'
<1> USE DEF github, staging, server, tasks, counters, bounds
<1>1. CASE StartRun
  BY <1>1 DEF TypeOK, AssetsInv, AssetsOf, LocalWhole, StartRun, Listed, Steps
<1>2. CASE Finish
  BY <1>2 DEF TypeOK, AssetsInv, AssetsOf, LocalWhole, Finish
<1>3. CASE Stop
  BY <1>3 DEF TypeOK, AssetsInv, AssetsOf, LocalWhole, Stop
<1>4. CASE Wipe
  <2>1. EmptyTree \in Trees
    BY DEF EmptyTree, Trees, States
  <2> QED
    BY <1>4, <2>1 DEF TypeOK, AssetsInv, AssetsOf, LocalWhole, Wipe
<1>5. CASE UNCHANGED vars
  BY <1>5 DEF TypeOK, AssetsInv, AssetsOf, LocalWhole, vars
<1> QED
  BY <1>1, <1>2, <1>3, <1>4, <1>5

LEMMA TypeAndAssetsStep ==
  ASSUME TypeOK, AssetsInv, [Next]_vars
  PROVE  TypeOK' /\ AssetsInv'
BY TypeAndAssetsOfPlainSteps, TypeAndAssetsOfRemoveAsset, TypeAndAssetsOfDownload,
   TypeAndAssetsOfChmod, TypeAndAssetsOfCompatLink, TypeAndAssetsOfTransfers,
   TypeAndAssetsOfCancel, TypeAndAssetsOfRuns
DEF Next, TaskStep, Fault

\* Every variable keeps its type; in particular files that rsync takes to be
\* equal are equal, though tasks write files between transfers.
THEOREM SyncTypeCorrect == Spec => []TypeOK
<1>1. Init => TypeOK /\ AssetsInv
  BY TypeAndAssetsInit
<1>2. TypeOK /\ AssetsInv /\ [Next]_vars => TypeOK' /\ AssetsInv'
  BY TypeAndAssetsStep
<1> QED
  BY <1>1, <1>2, PTL DEF Spec

-----------------------------------------------------------------------------
(* A channel points to whole releases.  While the staging directory is kept, *)
(* all files of a release that was ever linked agree on both sides, so that  *)
(* nothing is ever sent again; after a loss of it everything is, and only a  *)
(* push that is cut can do harm.                                             *)

PushedAgrees == \A r \in Releases : pc[r] = "pushLink" => same[r] = Assets

LinkedAgrees ==
  wipes = 0 => \A c \in Channels, r \in Releases :
                 <<c, r>> \in remoteLink => same[r] = Assets

LinkInv == wipes \in Nat /\ PushedAgrees /\ LinkedAgrees /\ LinkedIsWhole

LEMMA LinkInit == ASSUME Init PROVE LinkInv
BY DEF Init, LinkInv, PushedAgrees, LinkedAgrees, LinkedIsWhole

LEMMA LinkOfPlainSteps ==
  ASSUME TypeOK, AssetsInv, LinkInv, NEW r \in Releases,
         \/ ParseFails(r) \/ CheckMarker(r) \/ PullMark(r) \/ PullLink(r)
         \/ PullNothing(r) \/ Mkdir(r) \/ DownloadFail(r)
         \/ ChannelLink(r) \/ ChannelLinkExists(r)
         \/ MarkReleaseSynced(r) \/ Promote(r) \/ Publish(r)
         \/ \E a \in Assets : \/ SkipAsset(r, a) \/ CompatExists(r, a)
                             \/ Download(r, a) \/ Chmod(r, a) \/ CompatLink(r, a)
  PROVE  LinkInv'
<1> USE DEF github, staging, server, tasks, counters, bounds
<1>1. /\ UNCHANGED <<same, remote, remoteLink, wipes, interrupted>>
      /\ \A s \in Releases : pc'[s] = "pushLink" => pc[s] = "pushLink"
  BY DEF TypeOK, ParseFails, CheckMarker, PullMark, PullLink, PullNothing, Mkdir,
         DownloadFail, ChannelLink, ChannelLinkExists, MarkReleaseSynced, Promote,
         Publish, SkipAsset, CompatExists, Download, Chmod, CompatLink, Raise, End, Goto
<1> QED
  BY <1>1 DEF LinkInv, PushedAgrees, LinkedAgrees, LinkedIsWhole, Whole, Undisturbed

LEMMA LinkOfRemoveAsset ==
  ASSUME TypeOK, AssetsInv, LinkInv, NEW r \in Releases, NEW a \in Assets, RemoveAsset(r, a)
  PROVE  LinkInv'
<1> USE DEF github, server, counters, bounds
<1>1. /\ same \in [Releases -> SUBSET Assets]
      /\ \A b \in same[r] : local[r].files[b] = remote[r].files[b]
      /\ local[r].files[a] \in {"none", "part"}
  BY DEF TypeOK, RemoveAsset
<1>2. /\ same' = [same EXCEPT ![r] = @ \ {a}]
      /\ UNCHANGED <<remote, remoteLink, wipes, interrupted>>
      /\ \A s \in Releases : pc'[s] = "pushLink" => pc[s] = "pushLink" /\ s # r
  BY DEF TypeOK, RemoveAsset, Goto
<1>3. wipes = 0 => \A c \in Channels : <<c, r>> \notin remoteLink
  BY <1>1 DEF LinkInv, LinkedAgrees, LinkedIsWhole, Whole
<1>4. PushedAgrees'
  BY <1>1, <1>2 DEF LinkInv, PushedAgrees
<1>5. LinkedAgrees'
  BY <1>1, <1>2, <1>3 DEF LinkInv, LinkedAgrees
<1>6. LinkedIsWhole'
  BY <1>2 DEF LinkInv, LinkedIsWhole, Whole, Undisturbed
<1> QED
  BY <1>2, <1>4, <1>5, <1>6 DEF LinkInv

LEMMA LinkOfPushLink ==
  ASSUME TypeOK, AssetsInv, LinkInv, NEW r \in Releases, PushLink(r)
  PROVE  LinkInv'
<1> USE DEF github, staging, counters, bounds
<1>1. same[r] = Assets /\ LocalWhole(r)
  BY DEF PushLink, AssetsInv, AssetsOf, LinkInv, PushedAgrees
<1>2. Whole(r)
  BY <1>1 DEF TypeOK, LocalWhole, Whole, Complete
<1>3. /\ remoteLink' = remoteLink \cup {<<channel[r], r>>}
      /\ UNCHANGED <<same, remote, wipes, interrupted>>
      /\ \A s \in Releases : pc'[s] = "pushLink" => pc[s] = "pushLink"
  BY DEF TypeOK, PushLink, Goto
<1> QED
  BY <1>1, <1>2, <1>3
  DEF LinkInv, PushedAgrees, LinkedAgrees, LinkedIsWhole, Whole, Undisturbed

LEMMA LinkOfPushDir ==
  ASSUME TypeOK, AssetsInv, LinkInv, NEW r \in Releases, PushDir(r)
  PROVE  LinkInv'
<1> USE DEF github, counters, bounds
<1>1. /\ Transfers(r)
      /\ \A a \in Present(local[r]) : remote'[r].files[a] = local[r].files[a]
  BY PushTransfers DEF PushDir
<1>2. Present(local[r]) = Assets /\ LocalWhole(r)
  BY DEF PushDir, AssetsInv, AssetsOf, LocalWhole, Complete, Present
<1>3. same'[r] = Assets
  BY <1>2 DEF PushDir, TypeOK
<1>4. /\ UNCHANGED <<remoteLink, wipes, interrupted>>
      /\ \A s \in Releases \ {r} : pc'[s] = pc[s] /\ same'[s] = same[s] /\ remote'[s] = remote[s]
  BY <1>1 DEF PushDir, Goto, TypeOK, Transfers
<1>5. Whole(r)'
  BY <1>1, <1>2 DEF Whole, LocalWhole, Complete
<1>6. PushedAgrees' /\ LinkedAgrees'
  BY <1>3, <1>4 DEF LinkInv, PushedAgrees, LinkedAgrees
<1>7. LinkedIsWhole'
  BY <1>4, <1>5 DEF LinkInv, LinkedIsWhole, Whole, Undisturbed
<1> QED
  BY <1>4, <1>6, <1>7 DEF LinkInv

\* A transfer that is cut while the task of r was at step pc[r].
LEMMA LinkOfCuts ==
  ASSUME TypeOK, LinkInv, NEW r \in Releases, Transfers(r),
         remote' = remote \/ "push" \in interrupted',
         interrupted \subseteq interrupted',
         UNCHANGED <<remoteLink, wipes>>,
         \A s \in Releases : pc'[s] = "pushLink" => pc[s] = "pushLink"
  PROVE  LinkInv'
<1>1. same \in [Releases -> SUBSET Assets] /\ same' \in [Releases -> SUBSET Assets]
      /\ \A s \in Releases : same[s] \subseteq same'[s]
  BY DEF TypeOK, Transfers
<1>2. PushedAgrees' /\ LinkedAgrees'
  <2>1. \A s \in Releases : same[s] = Assets => same'[s] = Assets
    BY <1>1
  <2>2. PushedAgrees'
    BY <2>1 DEF LinkInv, PushedAgrees
  <2>3. LinkedAgrees'
    BY <2>1 DEF LinkInv, LinkedAgrees
  <2> QED
    BY <2>2, <2>3
<1>3. ASSUME wipes' = 0 \/ Undisturbed({"push"})', NEW c \in Channels, NEW s \in Releases,
             <<c, s>> \in remoteLink'
      PROVE  Whole(s)'
  <2>1. Whole(s)
    BY <1>3 DEF LinkInv, LinkedIsWhole, Undisturbed
  <2>2. CASE remote' = remote
    BY <2>1, <2>2 DEF Whole
  <2>3. CASE "push" \in interrupted'
    <3>1. wipes = 0
      BY <1>3, <2>3 DEF Undisturbed
    <3>2. same[s] = Assets
      BY <1>3, <3>1 DEF LinkInv, LinkedAgrees
    <3> QED
      BY <2>1, <3>2 DEF Whole, Transfers
  <2> QED  BY <2>2, <2>3
<1>4. LinkedIsWhole'
  BY <1>3 DEF LinkedIsWhole
<1> QED
  BY <1>2, <1>4 DEF LinkInv

LEMMA LinkOfTransfers ==
  ASSUME TypeOK, AssetsInv, LinkInv, NEW r \in Releases,
         Pull(r) \/ PullCut(r) \/ PushFail(r)
  PROVE  LinkInv'
<1> USE DEF github, server, counters, bounds
<1>1. CASE Pull(r)
  <2>1. Transfers(r)
    BY <1>1, PullTransfers DEF Pull
  <2> QED
    BY <1>1, <2>1, LinkOfCuts DEF Pull, Goto, TypeOK
<1>2. CASE PullCut(r)
  <2>1. Transfers(r)
    BY <1>2, PullCutTransfers DEF PullCut
  <2> QED
    BY <1>2, <2>1, LinkOfCuts DEF PullCut, Goto, TypeOK
<1>3. CASE PushFail(r)
  <2>1. Transfers(r)
    BY <1>3, PushCutTransfers DEF PushFail
  <2>2. remote' = remote \/ "push" \in interrupted'
    BY <1>3 DEF PushFail, CutRemote
  <2>3. UNCHANGED <<remoteLink, wipes>>
    BY <1>3 DEF PushFail, CutRemote
  <2> QED
    BY <1>3, <2>1, <2>2, <2>3, LinkOfCuts DEF PushFail, Raise, End, Goto, TypeOK
<1> QED
  BY <1>1, <1>2, <1>3

LEMMA LinkOfCancel ==
  ASSUME TypeOK, AssetsInv, LinkInv, NEW r \in Releases, Cancel(r)
  PROVE  LinkInv'
<1> USE DEF github, staging, server, counters
<1>1. interrupted \subseteq interrupted' /\ (pc[r] = "push" => "push" \in interrupted')
      /\ \A s \in Releases : pc'[s] = "pushLink" => pc[s] = "pushLink"
  BY DEF Cancel, End, Goto, TypeOK, Fragile
<1>2. CASE UNCHANGED <<same, server, counters>>
  BY <1>1, <1>2 DEF LinkInv, PushedAgrees, LinkedAgrees, LinkedIsWhole, Whole, Undisturbed
<1>3. CASE CutLocal(r) /\ UNCHANGED <<server, counters>>
  <2>1. Transfers(r)
    BY <1>3, PullCutTransfers
  <2> QED
    BY <1>1, <1>3, <2>1, LinkOfCuts
<1>4. CASE CutRemote(r)
  <2>1. Transfers(r)
    BY <1>4, PushCutTransfers
  <2>2. remote' = remote \/ pc[r] = "push"
    BY <1>4 DEF CutRemote
  <2>3. UNCHANGED <<remoteLink, wipes>>
    BY <1>4 DEF CutRemote
  <2> QED
    BY <1>1, <2>1, <2>2, <2>3, LinkOfCuts
<1> QED
  BY <1>2, <1>3, <1>4 DEF Cancel

LEMMA LinkOfRuns ==
  ASSUME TypeOK, LinkInv, StartRun \/ Finish \/ Stop \/ Wipe \/ UNCHANGED vars
  PROVE  LinkInv'
<1> USE DEF github, staging, server, tasks, counters, bounds
<1>1. CASE Wipe
  <2>1. wipes' \in Nat /\ wipes' # 0
    BY <1>1 DEF Wipe, LinkInv
  <2>2. UNCHANGED <<remote, remoteLink, interrupted, pc>> /\ \A s \in Releases : pc[s] = "done"
    BY <1>1 DEF Wipe, TypeOK
  <2> QED
    BY <2>1, <2>2 DEF LinkInv, PushedAgrees, LinkedAgrees, LinkedIsWhole, Whole, Undisturbed
<1>2. CASE StartRun \/ Finish \/ Stop \/ UNCHANGED vars
  <2>1. /\ UNCHANGED <<same, remote, remoteLink, wipes, interrupted>>
        /\ \A s \in Releases : pc'[s] = "pushLink" => pc[s] = "pushLink"
    BY <1>2 DEF StartRun, Finish, Stop, vars
  <2> QED
    BY <2>1 DEF LinkInv, PushedAgrees, LinkedAgrees, LinkedIsWhole, Whole, Undisturbed
<1> QED
  BY <1>1, <1>2

\* A channel never points to a release with files missing or cut off on the
\* server, for any releases and files, and whatever stops, fails or is cut,
\* unless the staging directory was lost and a push of a directory cut.
THEOREM LinkedIsWholeHolds == Spec => []LinkedIsWhole
<1>1. Init => TypeOK /\ AssetsInv /\ LinkInv
  BY TypeAndAssetsInit, LinkInit
<1>2. TypeOK /\ AssetsInv /\ LinkInv /\ [Next]_vars => TypeOK' /\ AssetsInv' /\ LinkInv'
  BY TypeAndAssetsStep, LinkOfPlainSteps, LinkOfRemoveAsset, LinkOfPushLink,
     LinkOfPushDir, LinkOfTransfers, LinkOfCancel, LinkOfRuns
  DEF Next, TaskStep, Fault
<1>3. LinkInv => LinkedIsWhole
  BY DEF LinkInv
<1> QED
  BY <1>1, <1>2, <1>3, PTL DEF Spec

-----------------------------------------------------------------------------
(* A marker stands for a published release.  A pull that succeeds shows that *)
(* the server has the directory; that a channel has it too is sure as long   *)
(* as no task ended between its two pushes.                                  *)

InChannel(r) == \E c \in Channels : <<c, r>> \in remoteLink

PushedInv ==
  /\ Undisturbed({"push", "pushLink"}) =>
       \A r \in remoteDir : pc[r] = "pushLink" \/ InChannel(r)
  /\ marker \subseteq remoteDir
  /\ \A r \in marker : pc[r] \in {"done", "check", "pullLink"}
  /\ \A r \in Releases : pc[r] \in {"pullMark", "pushLink", "mark"} => r \in remoteDir

LEMMA PushedInit == ASSUME Init PROVE PushedInv
BY DEF Init, PushedInv

\* The steps that leave the server and the markers alone.
LEMMA PushedOfLocalSteps ==
  ASSUME TypeOK, PushedInv, NEW r \in Releases,
         \/ ParseFails(r) \/ CheckMarker(r) \/ PullLink(r) \/ PullNothing(r) \/ Mkdir(r)
         \/ DownloadFail(r) \/ ChannelLink(r) \/ ChannelLinkExists(r)
         \/ Promote(r) \/ Publish(r) \/ Pull(r) \/ PullCut(r)
         \/ \E a \in Assets : \/ SkipAsset(r, a) \/ CompatExists(r, a) \/ RemoveAsset(r, a)
                             \/ Download(r, a) \/ Chmod(r, a) \/ CompatLink(r, a)
  PROVE  PushedInv'
<1> USE DEF github, staging, server, tasks, counters, bounds
<1>1. /\ UNCHANGED <<remoteDir, remoteLink, marker>> /\ interrupted \subseteq interrupted'
      /\ \A s \in Releases \ {r} : pc'[s] = pc[s]
  BY DEF TypeOK, ParseFails, CheckMarker, PullLink, PullNothing, Mkdir, DownloadFail,
         ChannelLink, ChannelLinkExists, Promote, Publish, Pull, PullCut, CutLocal, SkipAsset,
         CompatExists, RemoveAsset, Download, Chmod, CompatLink, Raise, End, Goto
<1>2. /\ pc'[r] \in {"pullMark", "pushLink", "mark"} => r \in remoteDir
      /\ r \in marker => pc'[r] \in {"done", "check", "pullLink"}
      /\ pc[r] = "pushLink" => pc'[r] = "pushLink"
  BY DEF TypeOK, PushedInv, ParseFails, CheckMarker, PullLink, PullNothing, Mkdir,
         DownloadFail, ChannelLink, ChannelLinkExists, Promote, Publish, Pull, PullCut,
         SkipAsset, CompatExists, RemoveAsset, Download, Chmod, CompatLink, AssetsEnsured,
         Raise, End, Goto
<1>3. remoteDir \subseteq Releases /\ marker \subseteq Releases
  BY DEF TypeOK
<1> QED
  BY <1>1, <1>2, <1>3 DEF PushedInv, Undisturbed, InChannel

LEMMA PushedOfPushes ==
  ASSUME TypeOK, PushedInv, NEW r \in Releases,
         PullMark(r) \/ PushDir(r) \/ PushLink(r) \/ MarkReleaseSynced(r)
  PROVE  PushedInv'
<1> USE DEF github, staging, server, tasks, counters, bounds
<1>1. CASE PullMark(r)
  BY <1>1 DEF TypeOK, PushedInv, Undisturbed, InChannel, PullMark, Goto
<1>2. CASE PushDir(r)
  BY <1>2 DEF TypeOK, PushedInv, Undisturbed, InChannel, PushDir, Goto
<1>3. CASE PushLink(r)
  <2>1. channel[r] \in Channels
    BY DEF TypeOK
  <2> QED
    BY <1>3, <2>1 DEF TypeOK, PushedInv, Undisturbed, InChannel, PushLink, Goto
<1>4. CASE MarkReleaseSynced(r)
  <2>1. /\ marker' = marker \cup {r} /\ pc[r] = "mark" /\ pc' = [pc EXCEPT ![r] = "done"]
        /\ UNCHANGED <<remoteDir, remoteLink, interrupted>>
    BY <1>4 DEF MarkReleaseSynced, End, Goto
  <2> QED
    BY <2>1 DEF TypeOK, PushedInv, Undisturbed, InChannel
<1> QED
  BY <1>1, <1>2, <1>3, <1>4

\* A task that fails in a push, or is stopped.
LEMMA PushedOfEnds ==
  ASSUME TypeOK, PushedInv, NEW r \in Releases, PushFail(r) \/ Cancel(r)
  PROVE  PushedInv'
<1> USE DEF github, staging, server, tasks, counters, bounds
<1>1. /\ pc' = [pc EXCEPT ![r] = "done"]
      /\ interrupted \subseteq interrupted'
      /\ UNCHANGED <<marker, remoteLink>>
  BY DEF PushFail, Cancel, CutRemote, CutLocal, Raise, End, Goto
<1>2. CASE pc[r] \in {"push", "pushLink"}
  <2>1. ~Undisturbed({"push", "pushLink"})'
    BY <1>2 DEF PushFail, Cancel, Fragile, Undisturbed
  <2>2. remoteDir \subseteq remoteDir'
    BY DEF PushFail, Cancel, CutRemote, CutLocal
  <2> QED
    BY <1>1, <2>1, <2>2 DEF TypeOK, PushedInv
<1>3. CASE pc[r] \notin {"push", "pushLink"}
  <2>1. remoteDir' = remoteDir
    BY <1>3 DEF PushFail, Cancel, CutRemote, CutLocal
  <2> QED
    BY <1>1, <1>3, <2>1 DEF TypeOK, PushedInv, Undisturbed, InChannel
<1> QED
  BY <1>2, <1>3

LEMMA PushedOfRuns ==
  ASSUME TypeOK, PushedInv, StartRun \/ Finish \/ Stop \/ Wipe \/ UNCHANGED vars
  PROVE  PushedInv'
<1> USE DEF github, staging, server, tasks, counters, bounds
<1>1. CASE StartRun
  <2>1. UNCHANGED <<remoteDir, remoteLink, marker, interrupted>>
    BY <1>1 DEF StartRun
  <2>2. \A s \in Releases : pc[s] = "done" /\ pc'[s] \in {"done", "check"}
    BY <1>1 DEF StartRun, TypeOK
  <2>3. remoteDir \subseteq Releases /\ marker \subseteq Releases
    BY DEF TypeOK
  <2> QED
    BY <2>1, <2>2, <2>3 DEF PushedInv, Undisturbed, InChannel
<1>2. CASE Finish \/ Stop \/ UNCHANGED vars
  BY <1>2 DEF TypeOK, PushedInv, Undisturbed, InChannel, Finish, Stop, vars
<1>3. CASE Wipe
  BY <1>3 DEF TypeOK, PushedInv, Undisturbed, InChannel, Wipe
<1> QED
  BY <1>1, <1>2, <1>3

\* The marker is only there for a release that is whole on the server and in
\* a channel, for any releases and files, and whatever else is stopped, fails
\* or is lost, unless a push was cut or a task stopped between the two.
THEOREM MarkedIsPublishedHolds == Spec => []MarkedIsPublished
<1> DEFINE IInv == TypeOK /\ AssetsInv /\ LinkInv /\ PushedInv
<1>1. Init => IInv
  BY TypeAndAssetsInit, LinkInit, PushedInit
<1>2. IInv /\ [Next]_vars => IInv'
  <2>1. TypeOK /\ AssetsInv /\ [Next]_vars => TypeOK' /\ AssetsInv'
    BY TypeAndAssetsStep
  <2>2. TypeOK /\ AssetsInv /\ LinkInv /\ [Next]_vars => LinkInv'
    BY LinkOfPlainSteps, LinkOfRemoveAsset, LinkOfPushLink, LinkOfPushDir,
       LinkOfTransfers, LinkOfCancel, LinkOfRuns
    DEF Next, TaskStep, Fault
  <2>3. TypeOK /\ PushedInv /\ [Next]_vars => PushedInv'
    BY PushedOfLocalSteps, PushedOfPushes, PushedOfEnds, PushedOfRuns
    DEF Next, TaskStep, Fault
  <2> QED  BY <2>1, <2>2, <2>3
<1>3. IInv => MarkedIsPublished
  <2> SUFFICES ASSUME IInv, Undisturbed({"push", "pushLink"}), NEW r \in marker
               PROVE  Published(r)
    BY DEF MarkedIsPublished
  <2>1. r \in Releases /\ InChannel(r)
    BY DEF TypeOK, PushedInv
  <2>2. Undisturbed({"push"})
    BY DEF Undisturbed
  <2> QED
    BY <2>1, <2>2 DEF LinkInv, LinkedIsWhole, InChannel, Published
<1> QED
  BY <1>1, <1>2, <1>3, PTL DEF Spec

-----------------------------------------------------------------------------
(* What a channel points to can be used.  What a task fetches itself is      *)
(* usable; what came from the server need not be, but a task only goes on to *)
(* fetch and push when the server has no directory, or staging was lost.     *)

Steady == Undisturbed({"pull", "chmod", "compat"})

\* The onefile assets of a local tree, but those in S, are usable when whole.
LocalUsable(r, S) ==
  \A a \in Onefile \ S : /\ local[r].files[a] # "raw"
                         /\ local[r].files[a] = "full" => a \in Named(local[r])

RemoteUsable(r) == \A a \in Onefile : remote[r].files[a] # "raw" /\ a \in Named(remote[r])

BeforeFetch == {"done", "check", "pull", "pullMark", "pullLink"}

FetchedUsable(r) ==
  \/ r \in remoteDir /\ tagsDir /\ pc[r] \in BeforeFetch
  \/ pc[r] \notin {"chmod", "compat"} /\ LocalUsable(r, {})
  \/ pc[r] = "chmod" /\ LocalUsable(r, cur[r])
  \/ /\ pc[r] = "compat" /\ LocalUsable(r, cur[r])
     /\ \A a \in cur[r] : local[r].files[a] = "full"

UsableInv ==
  Steady => \A r \in Releases :
    /\ FetchedUsable(r)
    /\ pc[r] = "pushLink" \/ InChannel(r) => RemoteUsable(r)

LEMMA UsableInit == ASSUME Init PROVE UsableInv
BY SetsAssumption DEF Init, EmptyTree, UsableInv, FetchedUsable, LocalUsable, InChannel

\* A step of r leaves the others as they are.
UsableOf(r) ==
  FetchedUsable(r) /\ (pc[r] = "pushLink" \/ InChannel(r) => RemoteUsable(r))

OnlyTouches(r) ==
  /\ interrupted \subseteq interrupted' /\ (tagsDir => tagsDir')
  /\ \A s \in Releases \ {r} :
       /\ local'[s] = local[s] /\ remote'[s] = remote[s]
       /\ pc'[s] = pc[s] /\ cur'[s] = cur[s]
       /\ s \in remoteDir => s \in remoteDir'
       /\ \A c \in Channels : <<c, s>> \in remoteLink' => <<c, s>> \in remoteLink

LEMMA UsableOfOthers ==
  ASSUME UsableInv, NEW r \in Releases, OnlyTouches(r), Steady' => UsableOf(r)'
  PROVE  UsableInv'
<1> SUFFICES ASSUME Steady', NEW s \in Releases, s # r PROVE UsableOf(s)'
  BY DEF UsableInv, UsableOf
<1>1. Steady
  BY DEF OnlyTouches, Steady, Undisturbed
<1>2. FetchedUsable(s) /\ (pc[s] = "pushLink" \/ InChannel(s) => RemoteUsable(s))
  BY <1>1 DEF UsableInv
<1>3. /\ local'[s] = local[s] /\ remote'[s] = remote[s]
      /\ pc'[s] = pc[s] /\ cur'[s] = cur[s] /\ (tagsDir => tagsDir')
      /\ s \in remoteDir => s \in remoteDir'
  BY DEF OnlyTouches
<1>4. InChannel(s)' => InChannel(s)
  BY DEF OnlyTouches, InChannel
<1>5. FetchedUsable(s)'
  BY <1>2, <1>3 DEF FetchedUsable, LocalUsable
<1>6. RemoteUsable(s)' <=> RemoteUsable(s)
  BY <1>3 DEF RemoteUsable
<1> QED
  BY <1>2, <1>3, <1>4, <1>5, <1>6 DEF UsableOf

\* A step of r that leaves the trees alone, from a place where the local tree
\* is usable or has come from the server to another of that kind.
LEMMA UsableKept ==
  ASSUME UsableInv, NEW r \in Releases, OnlyTouches(r),
         UNCHANGED <<local, remote, remoteDir, remoteLink>>,
         pc[r] # "chmod", pc'[r] \notin {"chmod", "compat", "pushLink"},
         pc[r] = "compat" => \A a \in cur[r] : a \in Named(local[r]),
         \/ pc'[r] \in BeforeFetch \/ pc[r] \notin BeforeFetch
         \/ ~(r \in remoteDir /\ tagsDir)
  PROVE  UsableInv'
<1> SUFFICES ASSUME Steady PROVE UsableOf(r)'
  BY UsableOfOthers DEF OnlyTouches, Steady, Undisturbed
<1>1. FetchedUsable(r) /\ (InChannel(r) => RemoteUsable(r))
  BY DEF UsableInv
<1>2. (InChannel(r)' <=> InChannel(r)) /\ (RemoteUsable(r)' <=> RemoteUsable(r))
  BY DEF InChannel, RemoteUsable
<1>3. LocalUsable(r, {})' <=> LocalUsable(r, {})
  BY DEF LocalUsable
<1>4. tagsDir => tagsDir'
  BY DEF OnlyTouches
<1>5. CASE pc[r] = "compat"
  <2>1. LocalUsable(r, cur[r]) /\ \A a \in cur[r] : local[r].files[a] = "full"
    BY <1>1, <1>5 DEF FetchedUsable, BeforeFetch
  <2>2. LocalUsable(r, {})
    BY <1>5, <2>1 DEF LocalUsable
  <2> QED
    BY <1>1, <1>2, <1>3, <2>2 DEF UsableOf, FetchedUsable
<1>6. CASE pc[r] # "compat"
  <2>1. LocalUsable(r, {}) \/ (r \in remoteDir /\ tagsDir /\ pc[r] \in BeforeFetch)
    BY <1>1, <1>6 DEF FetchedUsable
  <2>2. FetchedUsable(r)'
    BY <1>3, <1>4, <2>1 DEF FetchedUsable
  <2> QED
    BY <1>1, <1>2, <2>2 DEF UsableOf
<1> QED
  BY <1>5, <1>6

LEMMA UsableOfPlainSteps ==
  ASSUME TypeOK, AssetsInv, UsableInv, NEW r \in Releases,
         \/ ParseFails(r) \/ CheckMarker(r) \/ PullMark(r) \/ PullLink(r)
         \/ PullNothing(r) \/ Mkdir(r) \/ DownloadFail(r)
         \/ ChannelLink(r) \/ ChannelLinkExists(r) \/ MarkReleaseSynced(r)
         \/ \E a \in Assets : SkipAsset(r, a) \/ CompatExists(r, a)
  PROVE  UsableInv'
<1> USE DEF github, staging, server, tasks, counters, bounds
<1>1. OnlyTouches(r) /\ UNCHANGED <<local, remote, remoteDir, remoteLink>>
  BY DEF TypeOK, OnlyTouches, ParseFails, CheckMarker, PullMark, PullLink, PullNothing, Mkdir,
         DownloadFail, ChannelLink, ChannelLinkExists, MarkReleaseSynced,
         SkipAsset, CompatExists, Raise, End, Goto
<1>2. pc[r] # "chmod" /\ pc'[r] \notin {"chmod", "compat", "pushLink"}
  BY DEF TypeOK, ParseFails, CheckMarker, PullMark, PullLink, PullNothing, Mkdir,
         DownloadFail, ChannelLink, ChannelLinkExists, MarkReleaseSynced, AssetsEnsured,
         SkipAsset, CompatExists, Raise, End, Goto
<1>3. \/ pc'[r] \in BeforeFetch \/ pc[r] \notin BeforeFetch
      \/ ~(r \in remoteDir /\ tagsDir)
  BY DEF TypeOK, BeforeFetch, ParseFails, CheckMarker, PullMark, PullLink, PullNothing,
         Mkdir, DownloadFail, ChannelLink, ChannelLinkExists, MarkReleaseSynced, AssetsEnsured,
         SkipAsset, CompatExists, Raise, End, Goto
<1>4. pc[r] = "compat" => \A a \in cur[r] : a \in Named(local[r])
  BY DEF AssetsInv, AssetsOf, ParseFails, CheckMarker, PullMark, PullLink, PullNothing,
         Mkdir, DownloadFail, ChannelLink, ChannelLinkExists, MarkReleaseSynced, AssetsEnsured,
         SkipAsset, CompatExists
<1> QED
  BY <1>1, <1>2, <1>3, <1>4, UsableKept

LEMMA UsableOfRuns ==
  ASSUME TypeOK, UsableInv,
         \/ StartRun \/ Finish \/ Stop \/ Wipe \/ UNCHANGED vars
         \/ \E r \in Releases : Promote(r) \/ Publish(r)
  PROVE  UsableInv'
<1> USE DEF github, staging, server, tasks, counters, bounds
<1> SUFFICES ASSUME Steady', NEW s \in Releases PROVE UsableOf(s)'
  BY DEF UsableInv, UsableOf
<1>1. UNCHANGED <<remote, remoteDir, remoteLink, interrupted>>
  BY DEF StartRun, Finish, Stop, Wipe, vars, Promote, Publish
<1>2. FetchedUsable(s) /\ (pc[s] = "pushLink" \/ InChannel(s) => RemoteUsable(s))
  BY <1>1 DEF UsableInv, Steady, Undisturbed
<1>3. (InChannel(s)' <=> InChannel(s)) /\ (RemoteUsable(s)' <=> RemoteUsable(s))
  BY <1>1 DEF InChannel, RemoteUsable
<1>4. CASE UNCHANGED <<local, pc, cur, tagsDir>>
  <2>1. FetchedUsable(s)'
    BY <1>1, <1>2, <1>4 DEF FetchedUsable, LocalUsable
  <2> QED
    BY <1>2, <1>3, <1>4, <2>1 DEF UsableOf
<1>5. CASE StartRun
  <2>1. pc[s] = "done" /\ pc'[s] \in {"check", "done"} /\ UNCHANGED <<local, tagsDir>>
    BY <1>5 DEF StartRun, TypeOK
  <2>2. FetchedUsable(s)'
    BY <1>1, <1>2, <2>1 DEF FetchedUsable, LocalUsable, BeforeFetch
  <2> QED
    BY <1>2, <1>3, <2>1, <2>2 DEF UsableOf
<1>6. CASE Wipe
  <2>1. pc'[s] = "done" /\ pc[s] = "done"
    BY <1>6 DEF Wipe, TypeOK
  <2>2. local'[s] = EmptyTree
    BY <1>6 DEF Wipe
  <2>3. LocalUsable(s, {})'
    BY <2>2, SetsAssumption DEF LocalUsable, EmptyTree
  <2>4. FetchedUsable(s)'
    BY <2>1, <2>3 DEF FetchedUsable
  <2> QED
    BY <1>2, <1>3, <2>1, <2>4 DEF UsableOf
<1> QED
  BY <1>4, <1>5, <1>6 DEF Finish, Stop, vars, Promote, Publish

\* Steps of r that only write to its local tree.
LEMMA UsableOfWrites ==
  ASSUME UsableInv, NEW r \in Releases, OnlyTouches(r),
         UNCHANGED <<remote, remoteDir, remoteLink>>, pc'[r] # "pushLink",
         Steady /\ FetchedUsable(r) => FetchedUsable(r)'
  PROVE  UsableInv'
<1> SUFFICES ASSUME Steady PROVE UsableOf(r)'
  BY UsableOfOthers DEF OnlyTouches, Steady, Undisturbed
<1>1. FetchedUsable(r) /\ (InChannel(r) => RemoteUsable(r))
  BY DEF UsableInv
<1>2. (InChannel(r)' <=> InChannel(r)) /\ (RemoteUsable(r)' <=> RemoteUsable(r))
  BY DEF InChannel, RemoteUsable
<1> QED
  BY <1>1, <1>2 DEF UsableOf

LEMMA UsableOfRemoveAsset ==
  ASSUME TypeOK, UsableInv, NEW r \in Releases, NEW a \in Assets, RemoveAsset(r, a)
  PROVE  UsableInv'
<1> USE DEF github, staging, server, tasks, counters, bounds
<1> DEFINE st == "none"
<1>1. SetFile(r, a, st) /\ st \in States /\ local \in [Releases -> Trees]
  BY DEF RemoveAsset, States, TypeOK
<1>2. /\ \A s \in Releases \ {r} : local'[s] = local[s]
      /\ local'[r].files[a] = st
      /\ \A b \in Assets \ {a} : local'[r].files[b] = local[r].files[b]
      /\ local'[r].compat = local[r].compat
  <2> HIDE DEF st
  <2> QED  BY <1>1, WriteFile
<1>3. OnlyTouches(r)
  BY <1>2 DEF TypeOK, OnlyTouches, RemoveAsset, Goto
<1>4. pc[r] = "assets" /\ pc'[r] = "download"
  BY DEF TypeOK, RemoveAsset, Goto
<1>5. ASSUME FetchedUsable(r) PROVE FetchedUsable(r)'
  <2>1. LocalUsable(r, {})
    BY <1>4, <1>5 DEF FetchedUsable, BeforeFetch
  <2>2. LocalUsable(r, {})'
    BY <1>2, <2>1, SetsAssumption DEF LocalUsable, Named
  <2> QED
    BY <1>4, <2>2 DEF FetchedUsable
<1> QED
  BY <1>3, <1>4, <1>5, UsableOfWrites DEF RemoveAsset

\* What a download writes need not be usable yet, but is made so by the next
\* two steps.
LEMMA UsableOfDownload ==
  ASSUME TypeOK, AssetsInv, UsableInv, NEW r \in Releases, NEW a \in Assets, Download(r, a)
  PROVE  UsableInv'
<1> USE DEF github, staging, server, tasks, counters, bounds
<1> DEFINE st == IF a \in Onefile THEN "raw" ELSE "full"
<1>1. SetFile(r, a, st) /\ st \in States /\ local \in [Releases -> Trees]
  BY DEF Download, States, TypeOK
<1>2. /\ \A s \in Releases \ {r} : local'[s] = local[s]
      /\ \A b \in Assets \ {a} : local'[r].files[b] = local[r].files[b]
      /\ local'[r].compat = local[r].compat
  <2> HIDE DEF st
  <2> QED  BY <1>1, WriteFile
<1> HIDE DEF st
<1>3. OnlyTouches(r)
  BY <1>2 DEF TypeOK, OnlyTouches, Download, Goto
<1>4. pc[r] = "download" /\ pc'[r] = "chmod" /\ cur'[r] = cur[r] /\ a \in cur[r]
  BY DEF TypeOK, Download, Goto
<1>5. ASSUME FetchedUsable(r) PROVE FetchedUsable(r)'
  <2>1. LocalUsable(r, {})
    BY <1>4, <1>5 DEF FetchedUsable, BeforeFetch
  <2>2. LocalUsable(r, cur[r])'
    BY <1>2, <1>4, <2>1, SetsAssumption DEF LocalUsable, Named
  <2> QED
    BY <1>4, <2>2 DEF FetchedUsable
<1> QED
  BY <1>3, <1>4, <1>5, UsableOfWrites DEF Download

LEMMA UsableOfChmod ==
  ASSUME TypeOK, AssetsInv, UsableInv, NEW r \in Releases, NEW a \in Assets, Chmod(r, a)
  PROVE  UsableInv'
<1> USE DEF github, staging, server, tasks, counters, bounds
<1> DEFINE st == "full"
<1>1. SetFile(r, a, st) /\ st \in States /\ local \in [Releases -> Trees]
  BY DEF Chmod, States, TypeOK
<1>2. /\ \A s \in Releases \ {r} : local'[s] = local[s]
      /\ local'[r].files[a] = st
      /\ \A b \in Assets \ {a} : local'[r].files[b] = local[r].files[b]
      /\ local'[r].compat = local[r].compat
  <2> HIDE DEF st
  <2> QED  BY <1>1, WriteFile
<1>3. OnlyTouches(r)
  BY <1>2 DEF TypeOK, OnlyTouches, Chmod, Goto
<1>4. pc[r] = "chmod" /\ pc'[r] = (IF a \in Onefile THEN "compat" ELSE "assets")
      /\ cur'[r] = cur[r] /\ cur[r] = {a}
  BY DEF TypeOK, Chmod, Goto, AssetsInv, AssetsOf
<1>5. ASSUME FetchedUsable(r) PROVE FetchedUsable(r)'
  <2>1. LocalUsable(r, cur[r])
    BY <1>4, <1>5 DEF FetchedUsable, BeforeFetch
  <2>2. LocalUsable(r, cur[r])' /\ \A b \in cur'[r] : local'[r].files[b] = "full"
    BY <1>2, <1>4, <2>1, SetsAssumption DEF LocalUsable, Named
  <2>3. a \notin Onefile => LocalUsable(r, {})'
    BY <1>4, <2>2 DEF LocalUsable
  <2> QED
    BY <1>4, <2>2, <2>3 DEF FetchedUsable
<1>6. pc'[r] # "pushLink"
  BY <1>4
<1> QED
  BY <1>3, <1>5, <1>6, UsableOfWrites DEF Chmod

LEMMA UsableOfCompatLink ==
  ASSUME TypeOK, AssetsInv, UsableInv, NEW r \in Releases, NEW a \in Assets, CompatLink(r, a)
  PROVE  UsableInv'
<1> USE DEF github, staging, server, tasks, counters, bounds
<1>1. local[r] \in Trees
  BY DEF TypeOK
<1>2. /\ \A s \in Releases \ {r} : local'[s] = local[s]
      /\ local'[r].files = local[r].files
      /\ local'[r].compat = local[r].compat \cup {a}
  BY <1>1 DEF TypeOK, CompatLink, Trees
<1>3. OnlyTouches(r)
  BY <1>2 DEF TypeOK, OnlyTouches, CompatLink, Goto
<1>4. pc[r] = "compat" /\ pc'[r] = "assets" /\ cur[r] = {a}
  BY DEF TypeOK, CompatLink, Goto, AssetsInv, AssetsOf
<1>5. ASSUME FetchedUsable(r) PROVE FetchedUsable(r)'
  <2>1. LocalUsable(r, cur[r]) /\ local[r].files[a] = "full"
    BY <1>4, <1>5 DEF FetchedUsable, BeforeFetch
  <2>2. LocalUsable(r, {})'
    BY <1>2, <1>4, <2>1 DEF LocalUsable, Named
  <2> QED
    BY <1>4, <2>2 DEF FetchedUsable
<1> QED
  BY <1>3, <1>4, <1>5, UsableOfWrites DEF CompatLink

\* A pull that succeeds leaves what the server has; a task that made one does
\* not fetch anything itself.  One that rsync cannot finish is history.
LEMMA UsableOfPulls ==
  ASSUME TypeOK, UsableInv, NEW r \in Releases, Pull(r) \/ PullCut(r)
  PROVE  UsableInv'
<1> USE DEF github, staging, server, tasks, counters, bounds
<1>1. CASE Pull(r)
  <2>1. OnlyTouches(r)
    BY <1>1 DEF TypeOK, OnlyTouches, Pull, Goto
  <2>2. pc[r] = "pull" /\ pc'[r] = "pullMark" /\ r \in remoteDir' /\ tagsDir'
    BY <1>1 DEF TypeOK, Pull, Goto
  <2>3. FetchedUsable(r)'
    BY <2>2 DEF FetchedUsable, BeforeFetch
  <2> QED
    BY <1>1, <2>1, <2>2, <2>3, UsableOfWrites DEF Pull
<1>2. CASE PullCut(r)
  BY <1>2 DEF PullCut, UsableInv, Steady, Undisturbed
<1> QED
  BY <1>1, <1>2

\* A push puts the files and symlinks of a whole, usable tree on the server.
LEMMA UsableOfPushDir ==
  ASSUME TypeOK, AssetsInv, UsableInv, NEW r \in Releases, PushDir(r)
  PROVE  UsableInv'
<1> USE DEF github, staging, server, tasks, counters, bounds
<1> SUFFICES ASSUME Steady' PROVE UsableOf(r)'
  <2>1. OnlyTouches(r)
    BY DEF TypeOK, OnlyTouches, PushDir, Goto
  <2> QED  BY <2>1, UsableOfOthers
<1>1. FetchedUsable(r)
  BY DEF PushDir, UsableInv, Steady, Undisturbed
<1>2. pc[r] = "push" /\ pc'[r] = "pushLink" /\ LocalWhole(r)
  BY DEF TypeOK, PushDir, Goto, AssetsInv, AssetsOf
<1>3. LocalUsable(r, {})
  BY <1>1, <1>2 DEF FetchedUsable, BeforeFetch
<1>4. FetchedUsable(r)'
  BY <1>2, <1>3 DEF FetchedUsable, LocalUsable, PushDir
<1>5. local[r] \in Trees /\ remote[r] \in Trees
  BY DEF TypeOK
<1>6. remote'[r] = Transferred(local[r], remote[r])
  BY DEF TypeOK, PushDir
<1>7. \A a \in Assets : a \in Present(local[r])
  BY <1>2 DEF LocalWhole, Complete, Present
<1>8. \A a \in Onefile : /\ remote'[r].files[a] = local[r].files[a]
                         /\ local[r].files[a] = "full" /\ a \in Named(local[r])
  BY <1>2, <1>3, <1>5, <1>6, <1>7, Transfer, SetsAssumption DEF LocalUsable, LocalWhole, Complete
<1>9. RemoteUsable(r)'
  BY <1>5, <1>6, <1>8, Transfer DEF RemoteUsable, Named
<1> QED
  BY <1>4, <1>9 DEF UsableOf

LEMMA UsableOfPushLink ==
  ASSUME TypeOK, AssetsInv, UsableInv, NEW r \in Releases, PushLink(r)
  PROVE  UsableInv'
<1> USE DEF github, staging, server, tasks, counters, bounds
<1> SUFFICES ASSUME Steady' PROVE UsableOf(r)'
  <2>1. OnlyTouches(r)
    BY DEF TypeOK, OnlyTouches, PushLink, Goto
  <2> QED  BY <2>1, UsableOfOthers
<1>1. FetchedUsable(r) /\ RemoteUsable(r)
  BY DEF PushLink, UsableInv, Steady, Undisturbed
<1>2. pc[r] = "pushLink" /\ pc'[r] = "mark"
  BY DEF TypeOK, PushLink, Goto
<1>3. LocalUsable(r, {})
  BY <1>1, <1>2 DEF FetchedUsable, BeforeFetch
<1>4. FetchedUsable(r)' /\ RemoteUsable(r)'
  BY <1>1, <1>2, <1>3 DEF FetchedUsable, LocalUsable, RemoteUsable, PushLink
<1> QED
  BY <1>4 DEF UsableOf

\* A push that is cut sends usable files and symlinks, or leaves a part of a
\* file: what was usable on the server stays so.
LEMMA UsableOfCuts ==
  ASSUME TypeOK, AssetsInv, UsableInv, NEW r \in Releases, CutRemote(r), End(r),
         interrupted \subseteq interrupted'
  PROVE  UsableInv'
<1> SUFFICES ASSUME Steady' PROVE UsableOf(r)'
  <2>1. OnlyTouches(r)
    BY DEF TypeOK, OnlyTouches, CutRemote, End, Goto
  <2> QED  BY <2>1, UsableOfOthers
<1>1. Steady
  BY DEF Steady, Undisturbed
<1>2. FetchedUsable(r) /\ (pc[r] = "pushLink" \/ InChannel(r) => RemoteUsable(r))
  BY <1>1 DEF UsableInv
<1>3. pc[r] \in {"push", "pushLink"} /\ pc'[r] = "done" /\ local' = local
  BY DEF TypeOK, CutRemote, End, Goto
<1>4. LocalUsable(r, {}) /\ LocalUsable(r, {})'
  BY <1>2, <1>3 DEF FetchedUsable, BeforeFetch, LocalUsable
<1>5. FetchedUsable(r)'
  BY <1>3, <1>4 DEF FetchedUsable
<1>6. InChannel(r)' => InChannel(r)
  BY DEF InChannel, CutRemote
<1>7. RemoteUsable(r) => RemoteUsable(r)'
  <2>1. CASE UNCHANGED remote
    BY <2>1 DEF RemoteUsable
  <2>2. CASE \E t \in CutTransfers(r, local[r], remote[r]) : remote' = [remote EXCEPT ![r] = t.tree]
    <3>1. PICK t \in CutTransfers(r, local[r], remote[r]) : remote' = [remote EXCEPT ![r] = t.tree]
      BY <2>2
    <3>2. local[r] \in Trees /\ remote[r] \in Trees /\ remote'[r] = t.tree
      BY <3>1 DEF TypeOK
    <3>3. /\ \A a \in Assets : t.tree.files[a] \in {local[r].files[a], "part", remote[r].files[a]}
          /\ remote[r].compat \subseteq t.tree.compat
      BY <3>2, CutTransfer
    <3>4. \A a \in Onefile : a \in Assets /\ local[r].files[a] # "raw"
      BY <1>4, SetsAssumption DEF LocalUsable
    <3> QED
      BY <3>2, <3>3, <3>4 DEF RemoteUsable, Named
  <2> QED
    BY <2>1, <2>2 DEF CutRemote
<1> QED
  BY <1>2, <1>3, <1>5, <1>6, <1>7 DEF UsableOf

LEMMA UsableOfEnds ==
  ASSUME TypeOK, AssetsInv, UsableInv, NEW r \in Releases, PushFail(r) \/ Cancel(r)
  PROVE  UsableInv'
<1> USE DEF staging, server, counters
<1>1. CASE CutRemote(r)
  BY <1>1, UsableOfCuts DEF PushFail, Cancel, Raise
<1>2. CASE Cancel(r) /\ ~CutRemote(r)
  <2> SUFFICES ASSUME Steady' PROVE FetchedUsable(r) => FetchedUsable(r)'
    <3>1. End(r) /\ interrupted \subseteq interrupted'
      BY <1>2 DEF Cancel
    <3>2. OnlyTouches(r) /\ UNCHANGED <<remote, remoteDir, remoteLink>>
      BY <1>2, <3>1 DEF TypeOK, OnlyTouches, Cancel, CutLocal, SetFile, End, Goto
    <3>3. pc'[r] # "pushLink"
      BY <3>1 DEF TypeOK, End, Goto
    <3>4. UsableInv /\ (Steady /\ FetchedUsable(r) => FetchedUsable(r)') => UsableInv'
      BY <3>2, <3>3, UsableOfWrites
    <3> QED
      BY <3>4 DEF UsableInv
  <2>1. pc'[r] = "done" /\ pc[r] \notin {"chmod", "compat"}
    BY <1>2 DEF TypeOK, Cancel, End, Goto, Steady, Undisturbed, Fragile
  <2>2. CASE UNCHANGED <<staging, server>>
    BY <2>1, <2>2 DEF FetchedUsable, LocalUsable, BeforeFetch
  <2>3. CASE pc[r] = "download" /\ \E a \in cur[r] : SetFile(r, a, "part")
    <3>1. PICK a \in cur[r] : SetFile(r, a, "part")
      BY <2>3
    <3>2. a \in Assets /\ "part" \in States /\ local \in [Releases -> Trees]
      BY DEF TypeOK, States
    <3>3. /\ local'[r].files[a] = "part"
          /\ \A b \in Assets \ {a} : local'[r].files[b] = local[r].files[b]
          /\ local'[r].compat = local[r].compat
      BY <3>1, <3>2, WriteFile
    <3>4. FetchedUsable(r) => LocalUsable(r, {})
      BY <2>3 DEF FetchedUsable, BeforeFetch
    <3>5. LocalUsable(r, {}) => LocalUsable(r, {})'
      BY <3>3, SetsAssumption DEF LocalUsable, Named
    <3> QED
      BY <2>1, <3>4, <3>5 DEF FetchedUsable
  <2>4. CASE pc[r] = "pull" /\ r \in remoteDir /\ tagsDir /\ CutLocal(r) /\ UNCHANGED server
    BY <2>1, <2>4 DEF FetchedUsable, BeforeFetch, CutLocal
  <2> QED
    BY <1>2, <2>2, <2>3, <2>4 DEF Cancel
<1> QED
  BY <1>1, <1>2 DEF PushFail

\* What a channel points to is usable, for any number of releases and files,
\* and whatever stops, is cut or lost outside the steps named.
THEOREM LinkedIsUsableHolds == Spec => []LinkedIsUsable
<1>1. Init => TypeOK /\ AssetsInv /\ UsableInv
  BY TypeAndAssetsInit, UsableInit
<1>2. TypeOK /\ AssetsInv /\ UsableInv /\ [Next]_vars => TypeOK' /\ AssetsInv' /\ UsableInv'
  BY TypeAndAssetsStep, UsableOfPlainSteps, UsableOfRemoveAsset, UsableOfDownload,
     UsableOfChmod, UsableOfCompatLink, UsableOfPulls, UsableOfPushDir, UsableOfPushLink,
     UsableOfEnds, UsableOfRuns
  DEF Next, TaskStep, Fault
<1>3. UsableInv => LinkedIsUsable
  BY DEF UsableInv, Steady, LinkedIsUsable, InChannel, RemoteUsable
<1> QED
  BY <1>1, <1>2, <1>3, PTL DEF Spec
=============================================================================
