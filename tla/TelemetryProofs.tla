--------------------------- MODULE TelemetryProofs ---------------------------
(***************************************************************************)
(* Theorems about Telemetry for every set of uploads, reports, handlers    *)
(* and runs, every payload and every bound.                                *)
(***************************************************************************)
EXTENDS Telemetry, FiniteSetTheorems, TLAPS

\* Every variable keeps its type whatever the handlers, the runs and the
\* clients of the telemetry pipeline do.
THEOREM TypeCorrect == Spec => []TypeOK
<1>1. Init => TypeOK
  BY BoundsAssumption, NoneAssumption DEF Init, TypeOK, NoChoice
<1>2. TypeOK /\ [Next]_vars => TypeOK'
  <2> SUFFICES ASSUME TypeOK, [Next]_vars PROVE TypeOK'
    OBVIOUS
  <2> USE NoneAssumption, BoundsAssumption DEF TypeOK, tables, handlers, runs
  <2>1. ASSUME NEW h \in Handlers, NEW n \in Nonces, UploadBegin(h, n)
        PROVE  TypeOK'
    BY <2>1 DEF UploadBegin
  <2>2. ASSUME NEW h \in Handlers, UpsertInfo(h) PROVE TypeOK'
    BY <2>2 DEF UpsertInfo
  <2>3. ASSUME NEW h \in Handlers, RawInsert(h) PROVE TypeOK'
    BY <2>3 DEF RawInsert
  <2>4. ASSUME NEW h \in Handlers, UploadCommit(h) PROVE TypeOK'
    <3>1. hnonce[h] \in Nonces
      BY <2>4 DEF UploadCommit
    <3>2. QED
      BY <2>4, <3>1 DEF UploadCommit, ResetHandler, UpsertedInfos
  <2>5. ASSUME NEW h \in Handlers, UploadFail(h) PROVE TypeOK'
    BY <2>5 DEF UploadFail, ResetHandler
  <2>6. ASSUME NEW r \in Runs, Select(r) PROVE TypeOK'
    BY <2>6 DEF Select, Selectable
  <2>7. ASSUME NEW r \in Runs, InsertEvents(r) \/ InsertMachines(r) PROVE TypeOK'
    BY <2>7 DEF InsertEvents, InsertMachines
  <2>15. ASSUME NEW r \in Runs, NEW rep \in Reports, InsertInstallation(r, rep) PROVE TypeOK'
    BY <2>15 DEF InsertInstallation, InsertedRow, Candidates
  <2>8. ASSUME NEW r \in Runs, Rollback(r), fails' \in 0..MaxFails PROVE TypeOK'
    BY <2>8 DEF Rollback, NoChoice
  <2>9. ASSUME NEW r \in Runs, MarkProcessed(r) PROVE TypeOK'
    BY <2>9 DEF MarkProcessed
  <2>10. ASSUME NEW r \in Runs, CommitRun(r) PROVE TypeOK'
    BY <2>10 DEF CommitRun, UpdatedRows, NoChoice
  <2>11. CASE Tick
    BY <2>11 DEF Tick
  <2>12. CASE UNCHANGED vars
    BY <2>12 DEF vars
  <2>13. ASSUME NEW r \in Runs,
                ProcessRaise(r) \/ DeadlockVictim(r) \/ MarkRefused(r) \/ RunFail(r)
         PROVE  TypeOK'
    BY <2>8, <2>13 DEF ProcessRaise, DeadlockVictim, MarkRefused, RunFail
  <2>14. QED
    BY <2>1, <2>2, <2>3, <2>4, <2>5, <2>6, <2>7, <2>9, <2>10, <2>11, <2>12, <2>13,
       <2>15 DEF Next, UploadStep, RunStep
<1>3. QED
  BY <1>1, <1>2, PTL DEF Spec

-----------------------------------------------------------------------------
(* Counting.  A run is "fresh" while no row of its batch is processed; the *)
(* commit of another run can only spoil that where the database tells the  *)
(* runs apart later, or where there is no other run.                       *)

Fresh(r) == batch[r] \cap processed = {}

CountInv ==
  /\ \A r \in Runs : batch[r] \subseteq rawUploads
  /\ \A r \in Runs : rpc[r] = "marked" \/ ~SnapshotIsolation => Fresh(r)
  /\ \A r, q \in Runs : /\ r # q /\ rpc[r] = "marked" /\ rpc[q] = "marked"
                        => batch[r] \cap batch[q] = {}
  /\ CountedOnce

\* One step preserves CountInv: only a commit counts, and what it counts is
\* fresh for every run that is still under way.
LEMMA CountInvStep ==
  ASSUME ConflictsCaught, TypeOK, TypeOK', CountInv, [Next]_vars
  PROVE  CountInv'
<1> USE DEF CountInv, Fresh, TypeOK
<1>1. ASSUME NEW h \in Handlers, UploadCommit(h) PROVE CountInv'
  BY <1>1 DEF UploadCommit, ResetHandler, runs, CountedOnce
<1>2. ASSUME UNCHANGED <<rawUploads, processed, aggregatedEvents, riscvInfos, runs>>
      PROVE  CountInv'
  BY <1>2 DEF runs, CountedOnce
<1>3. ASSUME NEW r \in Runs, Select(r) PROVE CountInv'
  BY <1>3 DEF Select, Selectable, tables, CountedOnce
<1>4. ASSUME NEW r \in Runs,
             \/ InsertEvents(r) \/ InsertMachines(r)
             \/ \E rep \in Reports : InsertInstallation(r, rep)
      PROVE  CountInv'
  <2>1. /\ UNCHANGED <<rawUploads, processed, aggregatedEvents, riscvInfos, batch>>
        /\ \A q \in Runs : rpc'[q] = "marked" => rpc[q] = "marked"
    BY <1>4 DEF InsertEvents, InsertMachines, InsertInstallation, tables
  <2>2. CountedOnce'
    BY <2>1 DEF CountedOnce
  <2> QED
    BY <2>1, <2>2
<1>5. ASSUME NEW r \in Runs, Rollback(r) PROVE CountInv'
  BY <1>5 DEF Rollback, tables, CountedOnce
<1>6. ASSUME NEW r \in Runs, MarkProcessed(r) PROVE CountInv'
  <2>1. /\ rpc' = [rpc EXCEPT ![r] = "marked"]
        /\ UNCHANGED <<tables, batch>>
        /\ \A q \in Runs \ {r} : rpc[q] = "marked" => batch[q] \cap batch[r] = {}
    BY <1>6 DEF MarkProcessed, RowLocks
  <2>2. Fresh(r)
    BY <1>6 DEF MarkProcessed, Conflict
  <2>3. QED
    BY <2>1, <2>2 DEF tables, CountedOnce
<1>7. ASSUME NEW r \in Runs, CommitRun(r) PROVE CountInv'
  <2>1. /\ rpc[r] = "marked" /\ Fresh(r)
        /\ rpc' = [rpc EXCEPT ![r] = "idle"]
        /\ batch' = [batch EXCEPT ![r] = {}]
        /\ processed' = processed \cup batch[r]
        /\ rawUploads' = rawUploads
    BY <1>7 DEF CommitRun, UpdatedRows
  <2>2. CountedOnce'
    BY <1>7, <2>1 DEF CommitRun, UpdatedRows, CountedOnce
  <2>3. \A q \in Runs : rpc'[q] = "marked" \/ ~SnapshotIsolation => Fresh(q)'
    BY <2>1 DEF ConflictsCaught
  <2>4. QED
    BY <2>1, <2>2, <2>3
<1>8. QED
  <2>1. ASSUME NEW h \in Handlers,
               \/ \E n \in Nonces : UploadBegin(h, n)
               \/ UpsertInfo(h) \/ RawInsert(h) \/ UploadFail(h)
        PROVE  CountInv'
    BY <1>2, <2>1 DEF UploadBegin, UpsertInfo, RawInsert, UploadFail, tables
  <2>2. CASE Tick \/ UNCHANGED vars
    BY <1>2, <2>2 DEF Tick, vars, tables
  <2>3. ASSUME NEW r \in Runs,
               ProcessRaise(r) \/ DeadlockVictim(r) \/ MarkRefused(r) \/ RunFail(r)
        PROVE  CountInv'
    BY <1>5, <2>3 DEF ProcessRaise, DeadlockVictim, MarkRefused, RunFail
  <2>4. QED
    BY <1>1, <1>3, <1>4, <1>6, <1>7, <2>1, <2>2, <2>3 DEF Next, UploadStep, RunStep

\* Where overlapping runs are told apart, the statistics count every
\* processed upload exactly once and nothing else, however runs overlap,
\* fail and are retried (admin.py:49-80).
THEOREM CountedOnceHolds ==
  ASSUME ConflictsCaught
  PROVE  Spec => []CountedOnce
<1>1. Init => CountInv
  BY DEF Init, CountInv, CountedOnce, Fresh
<1>2. TypeOK /\ TypeOK' /\ CountInv /\ [Next]_vars => CountInv'
  BY CountInvStep
<1>3. CountInv => CountedOnce
  BY DEF CountInv
<1>4. QED
  BY <1>1, <1>2, <1>3, TypeCorrect, PTL DEF Spec

\* Under the same condition the pipeline implements the ledger: the only
\* steps a reader of the tables can see are the acceptance of one upload and
\* the counting of a batch of uploads that were not counted.
THEOREM ImplementsLedger ==
  ASSUME ConflictsCaught
  PROVE  Spec => LedgerSpec
<1>1. Init => Ledger!Init
  BY DEF Init, Ledger!Init
<1>2. TypeOK /\ CountInv /\ [Next]_vars => [Ledger!Next]_(Ledger!vars)
  <2> SUFFICES ASSUME TypeOK, CountInv, [Next]_vars
               PROVE  [Ledger!Next]_(Ledger!vars)
    OBVIOUS
  <2>1. ASSUME NEW h \in Handlers, UploadCommit(h)
        PROVE  [Ledger!Next]_(Ledger!vars)
    <3>1. hnonce[h] \in Nonces
      BY <2>1 DEF UploadCommit, TypeOK
    <3>2. /\ rawUploads' = rawUploads \cup {hnonce[h]}
          /\ UNCHANGED aggregatedEvents
      BY <2>1 DEF UploadCommit
    <3>3. CASE hnonce[h] \in rawUploads
      BY <3>2, <3>3 DEF Ledger!vars
    <3>4. CASE hnonce[h] \notin rawUploads
      BY <3>1, <3>2, <3>4 DEF Ledger!Next, Ledger!Accept
    <3>5. QED
      BY <3>3, <3>4
  <2>2. ASSUME NEW r \in Runs, CommitRun(r)
        PROVE  [Ledger!Next]_(Ledger!vars)
    <3>1. /\ UNCHANGED rawUploads
          /\ aggregatedEvents' = [n \in Nonces |->
               IF n \in batch[r] THEN aggregatedEvents[n] + 1 ELSE aggregatedEvents[n]]
          /\ batch[r] \subseteq rawUploads
          /\ \A n \in batch[r] : aggregatedEvents[n] = 0
      BY <2>2 DEF CommitRun, UpdatedRows, CountInv, Fresh, CountedOnce, TypeOK
    <3>2. CASE batch[r] = {}
      BY <3>1, <3>2 DEF Ledger!vars, TypeOK
    <3>3. CASE batch[r] # {}
      <4>1. aggregatedEvents' =
              [n \in Nonces |-> IF n \in batch[r] THEN 1 ELSE aggregatedEvents[n]]
        BY <3>1 DEF TypeOK
      <4>2. Ledger!Count(batch[r])
        BY <3>1, <3>3, <4>1 DEF Ledger!Count
      <4>3. QED
        BY <3>1, <4>2 DEF Ledger!Next
    <3>4. QED
      BY <3>2, <3>3
  <2>3. ASSUME UNCHANGED <<rawUploads, aggregatedEvents>>
        PROVE  [Ledger!Next]_(Ledger!vars)
    BY <2>3 DEF Ledger!vars
  <2>4. ASSUME NEW h \in Handlers,
               \/ \E n \in Nonces : UploadBegin(h, n)
               \/ UpsertInfo(h) \/ RawInsert(h) \/ UploadFail(h)
        PROVE  [Ledger!Next]_(Ledger!vars)
    BY <2>3, <2>4 DEF UploadBegin, UpsertInfo, RawInsert, UploadFail, tables
  <2>5. ASSUME NEW r \in Runs,
               \/ Select(r) \/ InsertEvents(r) \/ InsertMachines(r)
               \/ (\E rep \in Reports : InsertInstallation(r, rep))
               \/ ProcessRaise(r) \/ DeadlockVictim(r)
               \/ MarkProcessed(r) \/ MarkRefused(r) \/ RunFail(r)
        PROVE  [Ledger!Next]_(Ledger!vars)
    BY <2>3, <2>5 DEF Select, InsertEvents, InsertMachines, InsertInstallation, ProcessRaise,
       DeadlockVictim, MarkProcessed, MarkRefused, RunFail, Rollback, tables
  <2>6. CASE Tick \/ UNCHANGED vars
    BY <2>3, <2>6 DEF Tick, vars, tables
  <2>7. QED
    BY <2>1, <2>2, <2>4, <2>5, <2>6 DEF Next, UploadStep, RunStep
<1>3. Init => CountInv
  BY DEF Init, CountInv, CountedOnce, Fresh
<1>4. TypeOK /\ TypeOK' /\ CountInv /\ [Next]_vars => CountInv'
  BY CountInvStep
<1>5. QED
  BY <1>1, <1>2, <1>3, <1>4, TypeCorrect, PTL DEF Spec, LedgerSpec, Ledger!Spec

-----------------------------------------------------------------------------
(* Installation records.  A run holds the rows it has inserted, so that    *)
(* what it chose stays absent from the table until its own commit, and a   *)
(* row it found there stays as it is.                                      *)

InstallInv ==
  /\ \A r \in Runs : rpc[r] \in {"idle", "selected"} => chosen[r] = NoChoice
  /\ \A r \in Runs : \A rep \in Reports : chosen[r][rep] # None =>
       IF installInfos[rep] = None THEN chosen[r][rep] \in Candidates(batch[r], rep)
       ELSE chosen[r][rep] = installInfos[rep]
  /\ \A r, q \in Runs : r # q => Locked(r) \cap Locked(q) = {}
  /\ \A r \in Runs : rpc[r] \in {"inserted", "marked"} => Pending(r) = {}
  /\ InstallsRecorded

\* A report is among those of a set of uploads exactly when the set has a
\* candidate for it, and a candidate is an upload.
LEMMA ReportsAndCandidates ==
  ASSUME NEW S \in SUBSET Nonces, NEW rep
  PROVE  /\ rep \in ReportsIn(S) <=> Candidates(S, rep) # {}
         /\ \A n \in Candidates(S, rep) : n # None
BY NoneAssumption DEF ReportsIn, Candidates

\* One step preserves InstallInv.
LEMMA InstallInvStep ==
  ASSUME TypeOK, TypeOK', InstallInv, [Next]_vars
  PROVE  InstallInv'
<1>1. ASSUME UNCHANGED <<processed, installInfos, runs>>
      PROVE  InstallInv'
  BY <1>1 DEF InstallInv, runs, Locked, Pending, Candidates, ReportsIn, InstallsRecorded
<1>2. ASSUME NEW r \in Runs, Select(r) PROVE InstallInv'
  <2>1. \A q \in Runs : Locked(q)' = Locked(q)
    BY <1>2 DEF Select, Locked, tables
  <2>2. chosen[r] = NoChoice
    BY <1>2 DEF InstallInv, Select
  <2>3. /\ rpc' = [rpc EXCEPT ![r] = "selected"]
        /\ UNCHANGED <<processed, installInfos, chosen>>
        /\ \A q \in Runs \ {r} : batch'[q] = batch[q]
    BY <1>2 DEF Select, tables, TypeOK
  <2>4. \A q \in Runs \ {r} : Pending(q)' = Pending(q)
    BY <2>3 DEF Pending, ReportsIn
  <2>5. \A rep \in Reports : chosen'[r][rep] = None
    BY <2>2, <2>3 DEF NoChoice
  <2>6. InstallsRecorded'
    BY <2>3 DEF InstallInv, InstallsRecorded, Candidates
  <2>7. \A q \in Runs : rpc'[q] \in {"idle", "selected"} => chosen'[q] = NoChoice
    BY <2>2, <2>3 DEF InstallInv, TypeOK
  <2>8. \A q \in Runs : rpc'[q] \in {"inserted", "marked"} => Pending(q)' = {}
    BY <2>3, <2>4 DEF InstallInv, TypeOK
  <2>9. \A q \in Runs : \A rep \in Reports : chosen'[q][rep] # None =>
          IF installInfos'[rep] = None THEN chosen'[q][rep] \in Candidates(batch'[q], rep)
          ELSE chosen'[q][rep] = installInfos'[rep]
    BY <2>3, <2>5 DEF InstallInv
  <2> QED
    BY <2>1, <2>6, <2>7, <2>8, <2>9 DEF InstallInv, NoChoice, Candidates
<1>3. ASSUME NEW r \in Runs, NEW rep \in Reports, InsertInstallation(r, rep) PROVE InstallInv'
  <2>1. PICK n \in InsertedRow(r, rep) : chosen' = [chosen EXCEPT ![r][rep] = n]
    BY <1>3 DEF InsertInstallation
  <2>2. /\ rpc[r] = "installing"
        /\ UNCHANGED <<rpc, batch, installInfos, processed>>
        /\ \A q \in Runs \ {r} : rep \notin Locked(q)
    BY <1>3 DEF InsertInstallation, tables
  <2>3. /\ chosen'[r][rep] = n
        /\ \A q \in Runs, other \in Reports :
             q # r \/ other # rep => chosen'[q][other] = chosen[q][other]
        /\ \A q \in Runs \ {r} : chosen'[q] = chosen[q]
    BY <2>1 DEF TypeOK
  <2>4. IF installInfos[rep] = None THEN n \in Candidates(batch[r], rep)
        ELSE n = installInfos[rep]
    BY <2>1 DEF InsertedRow
  <2>5. \A q \in Runs \ {r} : Locked(q)' = Locked(q) /\ Pending(q)' = Pending(q)
    BY <2>2, <2>3 DEF Locked, Pending, ReportsIn
  <2>6. Locked(r)' \subseteq Locked(r) \cup {rep}
    BY <2>2, <2>3 DEF Locked
  <2>7. InstallsRecorded'
    BY <2>2 DEF InstallInv, InstallsRecorded, Candidates
  <2>8. \A q, p \in Runs : q # p => Locked(q)' \cap Locked(p)' = {}
    BY <2>2, <2>5, <2>6 DEF InstallInv
  <2>9. \A q \in Runs : rpc'[q] \in {"idle", "selected"} => chosen'[q] = NoChoice
    BY <2>2, <2>3 DEF InstallInv
  <2>10. \A q \in Runs : \A other \in Reports : chosen'[q][other] # None =>
           IF installInfos'[other] = None
           THEN chosen'[q][other] \in Candidates(batch'[q], other)
           ELSE chosen'[q][other] = installInfos'[other]
    BY <2>2, <2>3, <2>4 DEF InstallInv
  <2>11. \A q \in Runs : rpc'[q] \in {"inserted", "marked"} => Pending(q)' = {}
    BY <2>2, <2>5 DEF InstallInv
  <2>12. QED
    BY <2>7, <2>8, <2>9, <2>10, <2>11 DEF InstallInv, NoChoice, Candidates
<1>8. ASSUME NEW r \in Runs, InsertEvents(r) \/ InsertMachines(r) PROVE InstallInv'
  <2>1. /\ UNCHANGED <<batch, chosen, installInfos, processed>>
        /\ rpc[r] \in {"selected", "installing"}
        /\ rpc'[r] \in {"installing", "inserted"}
        /\ rpc'[r] = "inserted" => Pending(r) = {}
        /\ \A q \in Runs \ {r} : rpc'[q] = rpc[q]
    BY <1>8 DEF InsertEvents, InsertMachines, tables, TypeOK
  <2>2. \A q \in Runs : Locked(q)' = Locked(q) /\ Pending(q)' = Pending(q)
    BY <2>1 DEF Locked, Pending, ReportsIn
  <2>3. InstallsRecorded'
    BY <2>1 DEF InstallInv, InstallsRecorded, Candidates
  <2>4. \A q \in Runs : rpc'[q] \in {"idle", "selected"} => chosen'[q] = NoChoice
    BY <2>1 DEF InstallInv
  <2>5. \A q \in Runs : rpc'[q] \in {"inserted", "marked"} => Pending(q)' = {}
    BY <2>1, <2>2 DEF InstallInv
  <2>6. \A q \in Runs : \A rep \in Reports : chosen'[q][rep] # None =>
          IF installInfos'[rep] = None THEN chosen'[q][rep] \in Candidates(batch'[q], rep)
          ELSE chosen'[q][rep] = installInfos'[rep]
    BY <2>1 DEF InstallInv
  <2> QED
    BY <2>2, <2>3, <2>4, <2>5, <2>6 DEF InstallInv, NoChoice, Candidates
<1>4. ASSUME NEW r \in Runs, Rollback(r) PROVE InstallInv'
  <2>1. /\ rpc'[r] = "idle" /\ chosen'[r] = NoChoice
        /\ UNCHANGED <<processed, installInfos>>
        /\ \A q \in Runs \ {r} : /\ rpc'[q] = rpc[q] /\ chosen'[q] = chosen[q]
                                  /\ batch'[q] = batch[q]
    BY <1>4 DEF Rollback, tables, TypeOK
  <2>2. /\ Locked(r)' = {}
        /\ \A q \in Runs \ {r} : Locked(q)' = Locked(q) /\ Pending(q)' = Pending(q)
    BY <2>1 DEF Locked, Pending, ReportsIn, NoChoice
  <2>3. InstallsRecorded'
    BY <2>1 DEF InstallInv, InstallsRecorded, Candidates
  <2>4. \A rep \in Reports : chosen'[r][rep] = None
    BY <2>1 DEF NoChoice
  <2>5. \A q \in Runs : \A rep \in Reports : chosen'[q][rep] # None =>
          IF installInfos'[rep] = None THEN chosen'[q][rep] \in Candidates(batch'[q], rep)
          ELSE chosen'[q][rep] = installInfos'[rep]
    BY <2>1, <2>4 DEF InstallInv
  <2>6. \A q \in Runs : rpc'[q] \in {"idle", "selected"} => chosen'[q] = NoChoice
    BY <2>1 DEF InstallInv
  <2>7. \A q \in Runs : rpc'[q] \in {"inserted", "marked"} => Pending(q)' = {}
    BY <2>1, <2>2 DEF InstallInv
  <2>8. \A q, p \in Runs : q # p => Locked(q)' \cap Locked(p)' = {}
    BY <2>2 DEF InstallInv
  <2> QED
    BY <2>3, <2>5, <2>6, <2>7, <2>8 DEF InstallInv, NoChoice, Candidates
<1>5. ASSUME NEW r \in Runs, MarkProcessed(r) PROVE InstallInv'
  BY <1>5 DEF InstallInv, MarkProcessed, tables, TypeOK, Locked, Pending, InstallsRecorded,
     Candidates, ReportsIn
<1>6. ASSUME NEW r \in Runs, CommitRun(r) PROVE InstallInv'
  <2>1. /\ rpc[r] = "marked"
        /\ installInfos' = [rep \in Reports |->
             IF chosen[r][rep] # None THEN chosen[r][rep] ELSE installInfos[rep]]
        /\ processed' = processed \cup batch[r]
        /\ rpc' = [rpc EXCEPT ![r] = "idle"]
        /\ batch' = [batch EXCEPT ![r] = {}]
        /\ chosen' = [chosen EXCEPT ![r] = NoChoice]
    BY <1>6 DEF CommitRun, UpdatedRows
  <2>2. /\ batch[r] \in SUBSET Nonces /\ processed \in SUBSET Nonces
        /\ rpc'[r] = "idle" /\ chosen'[r] = NoChoice
        /\ \A q \in Runs \ {r} : /\ rpc'[q] = rpc[q] /\ chosen'[q] = chosen[q]
                                  /\ batch'[q] = batch[q]
    BY <2>1 DEF TypeOK
  <2>3. \A rep \in Reports :
          /\ installInfos[rep] # None => installInfos'[rep] = installInfos[rep]
          /\ installInfos[rep] = None =>
               /\ installInfos'[rep] = chosen[r][rep]
               /\ chosen[r][rep] # None => /\ chosen[r][rep] \in Candidates(batch[r], rep)
                                           /\ rep \in Locked(r)
    BY <2>1 DEF InstallInv, Locked
  <2>4. InstallsRecorded'
    <3> SUFFICES ASSUME NEW rep \in Reports
                 PROVE  IF Candidates(processed', rep) = {}
                        THEN installInfos'[rep] = None
                        ELSE installInfos'[rep] \in Candidates(processed', rep)
      BY DEF InstallsRecorded, Candidates
    <3>1. Candidates(processed', rep)
            = Candidates(processed, rep) \cup Candidates(batch[r], rep)
      BY <2>1 DEF Candidates
    <3>2. IF Candidates(processed, rep) = {} THEN installInfos[rep] = None
          ELSE installInfos[rep] \in Candidates(processed, rep)
      BY DEF InstallInv, InstallsRecorded
    <3>3. None \notin Candidates(processed, rep)
      BY <2>2, ReportsAndCandidates
    <3>4. CASE installInfos[rep] # None
      BY <2>3, <3>1, <3>2, <3>4
    <3>5. CASE installInfos[rep] = None /\ chosen[r][rep] # None
      BY <2>3, <3>1, <3>5
    <3>6. CASE installInfos[rep] = None /\ chosen[r][rep] = None
      <4>1. rep \notin ReportsIn(batch[r])
        BY <2>1, <3>6 DEF InstallInv, Pending
      <4>2. Candidates(batch[r], rep) = {}
        BY <2>2, <4>1, ReportsAndCandidates
      <4>3. Candidates(processed, rep) = {}
        BY <3>2, <3>3, <3>6
      <4> QED
        BY <2>3, <3>1, <3>6, <4>2, <4>3
    <3>7. QED
      BY <3>4, <3>5, <3>6
  <2>5. \A q \in Runs \ {r} : \A rep \in Reports : chosen'[q][rep] # None =>
          IF installInfos'[rep] = None THEN chosen'[q][rep] \in Candidates(batch'[q], rep)
          ELSE chosen'[q][rep] = installInfos'[rep]
    <3> SUFFICES ASSUME NEW q \in Runs \ {r}, NEW rep \in Reports, chosen[q][rep] # None
                 PROVE  IF installInfos'[rep] = None
                        THEN chosen[q][rep] \in Candidates(batch[q], rep)'
                        ELSE chosen[q][rep] = installInfos'[rep]
      BY <2>2 DEF Candidates
    <3>1. IF installInfos[rep] = None THEN chosen[q][rep] \in Candidates(batch[q], rep)
          ELSE chosen[q][rep] = installInfos[rep]
      BY DEF InstallInv
    <3>2. CASE installInfos[rep] # None
      BY <2>3, <3>1, <3>2
    <3>3. CASE installInfos[rep] = None
      <4>1. rep \in Locked(q)
        BY <3>3 DEF Locked
      <4>2. rep \notin Locked(r)
        BY <4>1 DEF InstallInv
      <4>3. installInfos'[rep] = None
        BY <2>3, <3>3, <4>2
      <4> QED
        BY <2>2, <3>1, <3>3, <4>3 DEF Candidates
    <3> QED
      BY <3>2, <3>3
  <2>6. \A rep \in Reports : chosen'[r][rep] = None
    BY <2>2 DEF NoChoice
  <2>7. /\ Locked(r)' = {}
        /\ \A q \in Runs \ {r} : Locked(q)' \subseteq Locked(q) /\ Pending(q)' = Pending(q)
    BY <2>2, <2>3, <2>6 DEF Locked, Pending, ReportsIn
  <2>8. \A q \in Runs : rpc'[q] \in {"idle", "selected"} => chosen'[q] = NoChoice
    BY <2>2 DEF InstallInv
  <2>9. \A q \in Runs : rpc'[q] \in {"inserted", "marked"} => Pending(q)' = {}
    BY <2>2, <2>7 DEF InstallInv
  <2>10. \A q, p \in Runs : q # p => Locked(q)' \cap Locked(p)' = {}
    BY <2>7 DEF InstallInv
  <2>11. \A q \in Runs : \A rep \in Reports : chosen'[q][rep] # None =>
          IF installInfos'[rep] = None THEN chosen'[q][rep] \in Candidates(batch'[q], rep)
          ELSE chosen'[q][rep] = installInfos'[rep]
    BY <2>5, <2>6
  <2> QED
    BY <2>4, <2>8, <2>9, <2>10, <2>11 DEF InstallInv, NoChoice, Candidates
<1>7. QED
  <2>1. ASSUME NEW h \in Handlers,
               \/ \E n \in Nonces : UploadBegin(h, n)
               \/ UploadStep(h) \/ UploadFail(h)
        PROVE  InstallInv'
    BY <1>1, <2>1 DEF UploadBegin, UploadStep, UpsertInfo, RawInsert, UploadCommit,
       UploadFail, tables
  <2>2. CASE Tick \/ UNCHANGED vars
    BY <1>1, <2>2 DEF Tick, vars, tables
  <2>3. ASSUME NEW r \in Runs,
               ProcessRaise(r) \/ DeadlockVictim(r) \/ MarkRefused(r) \/ RunFail(r)
        PROVE  InstallInv'
    BY <1>4, <2>3 DEF ProcessRaise, DeadlockVictim, MarkRefused, RunFail
  <2>4. QED
    BY <1>2, <1>3, <1>5, <1>6, <1>8, <2>1, <2>2, <2>3 DEF Next, RunStep

\* An installation is on record exactly when a processed upload carried it;
\* this needs no help from the database but the lock of an inserted row
\* (telemetry_processor.py:44-59 and 79-84).
THEOREM InstallsRecordedHolds == Spec => []InstallsRecorded
<1>1. Init => InstallInv
  BY DEF Init, InstallInv, InstallsRecorded, NoChoice, Locked, Candidates
<1>2. InstallInv => InstallsRecorded
  BY DEF InstallInv
<1>3. TypeOK /\ TypeOK' /\ InstallInv /\ [Next]_vars => InstallInv'
  BY InstallInvStep
<1>4. QED
  BY <1>1, <1>2, <1>3, TypeCorrect, PTL DEF Spec

\* A recorded row is never taken back: time stamps, marks and the first
\* installation record of a report stay (the two INSERT IGNOREs).
THEOREM RowsKeptHolds == Spec => RowsKept
<1>1. Init => InstallInv
  BY DEF Init, InstallInv, InstallsRecorded, NoChoice, Locked, Candidates
<1>2. TypeOK /\ InstallInv /\ [Next]_vars => [KeepRows]_vars
  <2> SUFFICES ASSUME TypeOK, InstallInv, Next PROVE KeepRows
    OBVIOUS
  <2> USE DEF KeepRows, TypeOK
  <2>1. ASSUME NEW h \in Handlers, UploadCommit(h) PROVE KeepRows
    BY <2>1 DEF UploadCommit
  <2>2. ASSUME NEW r \in Runs, CommitRun(r) PROVE KeepRows
    BY <2>2 DEF CommitRun, UpdatedRows, InstallInv
  <2>3. ASSUME UNCHANGED tables PROVE KeepRows
    BY <2>3 DEF tables
  <2>4. ASSUME NEW h \in Handlers,
               \/ \E n \in Nonces : UploadBegin(h, n)
               \/ UpsertInfo(h) \/ RawInsert(h) \/ UploadFail(h)
        PROVE  KeepRows
    BY <2>3, <2>4 DEF UploadBegin, UpsertInfo, RawInsert, UploadFail
  <2>5. ASSUME NEW r \in Runs,
               \/ Select(r) \/ InsertEvents(r) \/ InsertMachines(r)
               \/ (\E rep \in Reports : InsertInstallation(r, rep))
               \/ ProcessRaise(r) \/ DeadlockVictim(r)
               \/ MarkProcessed(r) \/ MarkRefused(r) \/ RunFail(r)
        PROVE  KeepRows
    BY <2>3, <2>5 DEF Select, InsertEvents, InsertMachines, InsertInstallation, ProcessRaise,
       DeadlockVictim, MarkProcessed, MarkRefused, RunFail, Rollback
  <2>6. CASE Tick
    BY <2>3, <2>6 DEF Tick
  <2>7. QED
    BY <2>1, <2>2, <2>4, <2>5, <2>6 DEF Next, UploadStep, RunStep
<1>3. TypeOK /\ TypeOK' /\ InstallInv /\ [Next]_vars => InstallInv'
  BY InstallInvStep
<1>4. QED
  BY <1>1, <1>2, <1>3, TypeCorrect, PTL DEF Spec, RowsKept

\* An upload is recorded whole or not at all, and a client that got its 204
\* has been recorded (the one transaction at telemetry.py:15-54).
THEOREM AcceptedWholeHolds == Spec => []AcceptedWhole
<1>1. Init => AcceptedWhole
  BY DEF Init, AcceptedWhole, NoChoice
<1>2. TypeOK /\ AcceptedWhole /\ [Next]_vars => AcceptedWhole'
  <2> SUFFICES ASSUME TypeOK, AcceptedWhole, [Next]_vars PROVE AcceptedWhole'
    OBVIOUS
  <2> USE DEF AcceptedWhole, TypeOK
  <2>1. ASSUME NEW h \in Handlers, UploadCommit(h) PROVE AcceptedWhole'
    <3>1. hnonce[h] \in Nonces
      BY <2>1 DEF UploadCommit
    <3>2. acked' \subseteq rawUploads' /\ rawUploads' = rawUploads \cup {hnonce[h]}
      BY <2>1 DEF UploadCommit
    <3>3. \A n \in Nonces : n \in rawUploads' <=> ruyiVersions'[n] > 0
      BY <2>1, <3>1, <3>2 DEF UploadCommit
    <3>4. ASSUME NEW rep \in Reports
          PROVE  LET writers == {n \in rawUploads' : ReportOf(n) = rep}
                 IN IF writers = {} THEN rawInfos'[rep] = None
                    ELSE rawInfos'[rep] \in writers
      <4>1. rawInfos'[rep] = IF rep = ReportOf(hnonce[h]) THEN hnonce[h] ELSE rawInfos[rep]
        BY <2>1 DEF UploadCommit, UpsertedInfos
      <4>2. QED
        BY <3>1, <3>2, <4>1
    <3>5. QED
      BY <3>2, <3>3, <3>4
  <2>2. ASSUME UNCHANGED <<rawUploads, ruyiVersions, rawInfos, acked>>
        PROVE  AcceptedWhole'
    BY <2>2
  <2>3. ASSUME NEW h \in Handlers,
               \/ \E n \in Nonces : UploadBegin(h, n)
               \/ UpsertInfo(h) \/ RawInsert(h) \/ UploadFail(h)
        PROVE  AcceptedWhole'
    BY <2>2, <2>3 DEF UploadBegin, UpsertInfo, RawInsert, UploadFail, tables
  <2>4. ASSUME NEW r \in Runs,
               \/ Select(r) \/ InsertEvents(r) \/ InsertMachines(r)
               \/ (\E rep \in Reports : InsertInstallation(r, rep))
               \/ ProcessRaise(r) \/ DeadlockVictim(r)
               \/ MarkProcessed(r) \/ MarkRefused(r) \/ RunFail(r) \/ CommitRun(r)
        PROVE  AcceptedWhole'
    BY <2>2, <2>4 DEF Select, InsertEvents, InsertMachines, InsertInstallation, ProcessRaise,
       DeadlockVictim, MarkProcessed, MarkRefused, RunFail, CommitRun, Rollback, tables
  <2>5. CASE Tick \/ UNCHANGED vars
    BY <2>2, <2>5 DEF Tick, vars, tables
  <2>6. QED
    BY <2>1, <2>3, <2>4, <2>5 DEF Next, UploadStep, RunStep
<1>3. QED
  BY <1>1, <1>2, TypeCorrect, PTL DEF Spec

-----------------------------------------------------------------------------
(* Counting without conflict detection.                                    *)

\* The runs whose batch has upload n.
Holding(n) == {r \in Runs : n \in batch[r]}

\* Whatever the database detects, no upload that is marked is missing from
\* the statistics, none is counted before it is marked, both tables agree,
\* and an upload is counted at most once for each of the runs that can be
\* under way at a time.
CountedPerRun ==
  /\ processed \subseteq rawUploads
  /\ \A n \in Nonces :
       /\ IF n \in processed THEN aggregatedEvents[n] \in 1..Cardinality(Runs)
          ELSE aggregatedEvents[n] = 0
       /\ riscvInfos[n] = IF Payload[n].riscv THEN aggregatedEvents[n] ELSE 0

\* What has been counted and what is about to be counted, together.
ShareInv ==
  /\ processed \subseteq rawUploads
  /\ \A r \in Runs : batch[r] \subseteq rawUploads /\ (rpc[r] = "idle" => batch[r] = {})
  /\ \A n \in Nonces :
       /\ aggregatedEvents[n] + Cardinality(Holding(n)) <= Cardinality(Runs)
       /\ n \in processed <=> aggregatedEvents[n] # 0
       /\ riscvInfos[n] = IF Payload[n].riscv THEN aggregatedEvents[n] ELSE 0

LEMMA HoldingFacts ==
  ASSUME IsFiniteSet(Runs), NEW n
  PROVE  /\ IsFiniteSet(Holding(n)) /\ Cardinality(Holding(n)) \in Nat
         /\ Cardinality(Runs) \in Nat /\ Cardinality(Holding(n)) <= Cardinality(Runs)
<1>1. Holding(n) \in SUBSET Runs
  BY DEF Holding
<1>2. IsFiniteSet(Holding(n)) /\ Cardinality(Holding(n)) <= Cardinality(Runs)
  BY <1>1, FS_Subset
<1> QED
  BY <1>2, FS_CardinalityType

\* A run that gives up or commits holds nothing any more.
LEMMA HoldingEnds ==
  ASSUME IsFiniteSet(Runs), TypeOK, NEW r \in Runs, batch' = [batch EXCEPT ![r] = {}], NEW n
  PROVE  Cardinality(Holding(n)') = Cardinality(Holding(n)) - (IF n \in batch[r] THEN 1 ELSE 0)
<1>1. \A q \in Runs : batch'[q] = IF q = r THEN {} ELSE batch[q]
  BY DEF TypeOK
<1>2. Holding(n)' = Holding(n) \ {r}
  BY <1>1 DEF Holding
<1>3. IsFiniteSet(Holding(n)) /\ Cardinality(Holding(n)) \in Nat
  BY HoldingFacts
<1>4. CASE n \in batch[r]
  <2>1. r \in Holding(n)
    BY <1>4 DEF Holding
  <2>2. Cardinality(Holding(n) \ {r}) = Cardinality(Holding(n)) - 1
    BY <1>3, <2>1, FS_RemoveElement
  <2> QED
    BY <1>2, <1>4, <2>2
<1>5. CASE n \notin batch[r]
  <2>1. Holding(n)' = Holding(n)
    BY <1>2, <1>5 DEF Holding
  <2> QED
    BY <1>3, <1>5, <2>1
<1> QED
  BY <1>4, <1>5

LEMMA ShareInvStep ==
  ASSUME IsFiniteSet(Runs), TypeOK, ShareInv, [Next]_vars
  PROVE  ShareInv'
<1>1. ASSUME NEW h \in Handlers, UploadCommit(h) PROVE ShareInv'
  <2>1. /\ rawUploads \subseteq rawUploads' /\ batch' = batch /\ rpc' = rpc
        /\ processed' = processed /\ aggregatedEvents' = aggregatedEvents /\ riscvInfos' = riscvInfos
    BY <1>1 DEF UploadCommit, runs
  <2>2. \A n : Holding(n)' = Holding(n)
    BY <2>1 DEF Holding
  <2> QED
    BY <2>1, <2>2 DEF ShareInv
<1>2. ASSUME UNCHANGED <<rawUploads, processed, aggregatedEvents, riscvInfos, batch>>,
             \A r \in Runs : rpc'[r] = "idle" => rpc[r] = "idle"
      PROVE  ShareInv'
  <2>1. \A n : Holding(n)' = Holding(n)
    BY <1>2 DEF Holding
  <2> QED
    BY <1>2, <2>1 DEF ShareInv
<1>3. ASSUME NEW r \in Runs, Select(r) PROVE ShareInv'
  <2>1. PICK new : /\ batch' = [batch EXCEPT ![r] = new] /\ new \subseteq rawUploads \ processed
    BY <1>3 DEF Select, Selectable
  <2>2. /\ rpc[r] = "idle" /\ rpc' = [rpc EXCEPT ![r] = "selected"]
        /\ UNCHANGED <<rawUploads, processed, aggregatedEvents, riscvInfos>>
    BY <1>3 DEF Select, tables
  <2>3. \A q \in Runs : batch'[q] \subseteq rawUploads' /\ (rpc'[q] = "idle" => batch'[q] = {})
    BY <2>1, <2>2 DEF ShareInv, TypeOK
  <2>4. ASSUME NEW n \in Nonces
        PROVE  aggregatedEvents'[n] + Cardinality(Holding(n)') <= Cardinality(Runs)
    <3>1. CASE n \in processed
      <4>1. n \notin batch'[r] /\ n \notin batch[r]
        BY <2>1, <2>2, <3>1 DEF ShareInv, TypeOK
      <4>2. Holding(n)' = Holding(n)
        BY <2>1, <4>1 DEF Holding, TypeOK
      <4> QED
        BY <2>2, <4>2 DEF ShareInv
    <3>2. CASE n \notin processed
      <4>1. aggregatedEvents'[n] = 0
        BY <2>2, <3>2 DEF ShareInv
      <4>2. Holding(n)' \in SUBSET Runs
        BY DEF Holding
      <4>3. IsFiniteSet(Holding(n)') /\ Cardinality(Holding(n)') <= Cardinality(Runs)
        BY <4>2, FS_Subset
      <4>4. Cardinality(Holding(n)') \in Nat
        BY <4>3, FS_CardinalityType
      <4> QED
        BY <4>1, <4>3, <4>4
    <3> QED
      BY <3>1, <3>2
  <2> QED
    BY <2>2, <2>3, <2>4 DEF ShareInv
<1>4. ASSUME NEW r \in Runs, Rollback(r) PROVE ShareInv'
  <2>1. /\ batch' = [batch EXCEPT ![r] = {}] /\ rpc' = [rpc EXCEPT ![r] = "idle"]
        /\ UNCHANGED <<rawUploads, processed, aggregatedEvents, riscvInfos>>
    BY <1>4 DEF Rollback, tables
  <2>2. \A q \in Runs : batch'[q] \subseteq rawUploads' /\ (rpc'[q] = "idle" => batch'[q] = {})
    BY <2>1 DEF ShareInv, TypeOK
  <2>3. ASSUME NEW n \in Nonces
        PROVE  aggregatedEvents'[n] + Cardinality(Holding(n)') <= Cardinality(Runs)
    <3>1. Cardinality(Holding(n)') = Cardinality(Holding(n)) - (IF n \in batch[r] THEN 1 ELSE 0)
      BY <2>1, HoldingEnds
    <3>2. Cardinality(Holding(n)) \in Nat /\ Cardinality(Runs) \in Nat /\ aggregatedEvents[n] \in Nat
      BY HoldingFacts DEF TypeOK
    <3>3. aggregatedEvents[n] + Cardinality(Holding(n)) <= Cardinality(Runs)
      BY DEF ShareInv
    <3> QED
      BY <2>1, <3>1, <3>2, <3>3
  <2> QED
    BY <2>1, <2>2, <2>3 DEF ShareInv
<1>5. ASSUME NEW r \in Runs, CommitRun(r) PROVE ShareInv'
  <2>1. /\ batch' = [batch EXCEPT ![r] = {}] /\ rpc' = [rpc EXCEPT ![r] = "idle"]
        /\ rawUploads' = rawUploads /\ processed' = processed \cup batch[r]
    BY <1>5 DEF CommitRun, UpdatedRows
  <2>2. ASSUME NEW n \in Nonces
        PROVE  /\ aggregatedEvents'[n] = aggregatedEvents[n] + (IF n \in batch[r] THEN 1 ELSE 0)
               /\ riscvInfos'[n] = riscvInfos[n]
                    + (IF n \in batch[r] /\ Payload[n].riscv THEN 1 ELSE 0)
               /\ aggregatedEvents[n] \in Nat /\ riscvInfos[n] \in Nat
    BY <1>5 DEF CommitRun, TypeOK
  <2>3. \A q \in Runs : batch'[q] \subseteq rawUploads' /\ (rpc'[q] = "idle" => batch'[q] = {})
    BY <2>1 DEF ShareInv, TypeOK
  <2>4. processed' \subseteq rawUploads'
    BY <2>1 DEF ShareInv
  <2>5. ASSUME NEW n \in Nonces
        PROVE  /\ aggregatedEvents'[n] + Cardinality(Holding(n)') <= Cardinality(Runs)
               /\ n \in processed' <=> aggregatedEvents'[n] # 0
               /\ riscvInfos'[n] = IF Payload[n].riscv THEN aggregatedEvents'[n] ELSE 0
    <3>1. Cardinality(Holding(n)') = Cardinality(Holding(n)) - (IF n \in batch[r] THEN 1 ELSE 0)
      BY <2>1, HoldingEnds
    <3>2. Cardinality(Holding(n)) \in Nat /\ Cardinality(Runs) \in Nat
      BY HoldingFacts
    <3>3. /\ aggregatedEvents[n] + Cardinality(Holding(n)) <= Cardinality(Runs)
          /\ n \in processed <=> aggregatedEvents[n] # 0
          /\ riscvInfos[n] = IF Payload[n].riscv THEN aggregatedEvents[n] ELSE 0
      BY DEF ShareInv
    <3>4. aggregatedEvents'[n] + Cardinality(Holding(n)') <= Cardinality(Runs)
      BY <2>2, <3>1, <3>2, <3>3
    <3>5. n \in processed' <=> aggregatedEvents'[n] # 0
      BY <2>1, <2>2, <3>3
    <3>6. riscvInfos'[n] = IF Payload[n].riscv THEN aggregatedEvents'[n] ELSE 0
      BY <2>2, <3>3
    <3> QED
      BY <3>4, <3>5, <3>6
  <2> QED
    BY <2>3, <2>4, <2>5 DEF ShareInv
<1> QED
  <2>1. ASSUME NEW h \in Handlers,
               \/ \E n \in Nonces : UploadBegin(h, n)
               \/ UpsertInfo(h) \/ RawInsert(h) \/ UploadFail(h)
        PROVE  ShareInv'
    BY <1>2, <2>1 DEF UploadBegin, UpsertInfo, RawInsert, UploadFail, tables, runs
  <2>2. CASE Tick \/ UNCHANGED vars
    BY <1>2, <2>2 DEF Tick, vars, tables, runs
  <2>3. ASSUME NEW r \in Runs,
               \/ InsertEvents(r) \/ InsertMachines(r) \/ MarkProcessed(r)
               \/ \E rep \in Reports : InsertInstallation(r, rep)
        PROVE  ShareInv'
    <3>1. \A q \in Runs : rpc'[q] = "idle" => rpc[q] = "idle"
      BY <2>3 DEF InsertEvents, InsertMachines, InsertInstallation, MarkProcessed, TypeOK
    <3> QED
      BY <1>2, <2>3, <3>1
         DEF InsertEvents, InsertMachines, InsertInstallation, MarkProcessed, tables
  <2>4. ASSUME NEW r \in Runs,
               ProcessRaise(r) \/ DeadlockVictim(r) \/ MarkRefused(r) \/ RunFail(r)
        PROVE  ShareInv'
    BY <1>4, <2>4 DEF ProcessRaise, DeadlockVictim, MarkRefused, RunFail
  <2> QED
    BY <1>1, <1>3, <1>5, <2>1, <2>2, <2>3, <2>4 DEF Next, UploadStep, RunStep

\* Without conflict detection uploads may be counted more than once, as often
\* as runs can overlap and no more (admin.py:49-80): none is lost, and a run
\* that comes later does not count it again.
THEOREM CountedPerRunHolds ==
  ASSUME IsFiniteSet(Runs)
  PROVE  Spec => []CountedPerRun
<1>1. Init => ShareInv
  <2> SUFFICES ASSUME Init PROVE ShareInv
    OBVIOUS
  <2>1. \A n : Holding(n) = {}
    BY DEF Init, Holding
  <2>2. Cardinality({}) = 0 /\ Cardinality(Runs) \in Nat
    BY FS_EmptySet, FS_CardinalityType
  <2> QED
    BY <2>1, <2>2 DEF Init, ShareInv
<1>2. TypeOK /\ ShareInv => CountedPerRun
  <2> SUFFICES ASSUME TypeOK, ShareInv, NEW n \in Nonces, n \in processed
               PROVE  aggregatedEvents[n] \in 1..Cardinality(Runs)
    BY DEF ShareInv, CountedPerRun
  <2>1. Cardinality(Holding(n)) \in Nat /\ Cardinality(Runs) \in Nat /\ aggregatedEvents[n] \in Nat
    BY HoldingFacts DEF TypeOK
  <2>2. aggregatedEvents[n] + Cardinality(Holding(n)) <= Cardinality(Runs) /\ aggregatedEvents[n] # 0
    BY DEF ShareInv
  <2> QED
    BY <2>1, <2>2
<1> QED
  BY <1>1, <1>2, ShareInvStep, TypeCorrect, PTL DEF Spec

=============================================================================
