------------------------------ MODULE Telemetry ------------------------------
(***************************************************************************)
(* The telemetry pipeline of ruyi-backend: clients upload usage data       *)
(* (app/telemetry.py), and administrators or a timer start processing runs *)
(* that turn the raw uploads into statistics (app/admin.py:39-80 with      *)
(* components/telemetry_processor.py).                                     *)
(*                                                                         *)
(* The handlers run concurrently on one event loop and in several server   *)
(* processes; each awaited SQL statement is an action, and what it writes  *)
(* is visible to others only when its transaction commits.  The database   *)
(* (MariaDB, REPEATABLE READ) is external: a SELECT reads a snapshot,      *)
(* INSERT and UPDATE take row locks, shown here as guards on the           *)
(* statement that would wait.                                              *)
(*                                                                         *)
(* Left out: an upload whose fmt is not 1 (telemetry.py:12-13), which      *)
(* touches nothing, and what follows the commit of a run                   *)
(* (admin.py:82-92: the time stamp and the dashboard in the cache).        *)
(***************************************************************************)
EXTENDS Integers, FiniteSets

CONSTANTS
  Nonces,             \* the uploads, each known by the nonce its client chose
  Reports,            \* report UUIDs, one per installation of the client
  Handlers,           \* upload requests the server works on at a time
  Runs,               \* processing requests the server works on at a time
  Cron,               \* the run that the hourly timer starts
  None,               \* an absent report UUID, row or writer
  Payload,            \* what each upload carries
  SnapshotIsolation,  \* innodb_snapshot_isolation: an UPDATE of a row changed
                      \* since the transaction's snapshot is an error
  Lookback,           \* how far before the present the timer's window starts
  MaxTime,            \* bound: the clock stops here
  MaxSends,           \* bound: how often a client sends each upload
  MaxFails            \* bound: failed statements and lost connections

\* installation is the report UUID inside the optional installation record,
\* report the one beside it; riscv: the record has RISC-V machine data;
\* fits: every value fits its column in the statistics tables.
Payloads == [installation : Reports \cup {None}, report : Reports \cup {None},
             riscv : BOOLEAN, fits : BOOLEAN]

ASSUME NoneAssumption == None \notin Nonces \cup Reports
ASSUME PayloadAssumption ==
  /\ Payload \in [Nonces -> Payloads]
  /\ \A n \in Nonces : Payload[n].riscv => Payload[n].installation # None
ASSUME CronAssumption == Cron \in Runs
ASSUME SwitchAssumption == SnapshotIsolation \in BOOLEAN
ASSUME BoundsAssumption ==
  /\ Lookback \in Nat /\ MaxTime \in Nat
  /\ MaxSends \in [Nonces -> Nat] /\ MaxFails \in Nat

VARIABLES
  \* committed tables
  rawUploads,        \* nonces in telemetry_raw_uploads
  createdAt,         \* created_at of those rows (0 where there is none)
  processed,         \* nonces of the rows with is_processed
  ruyiVersions,      \* rows in telemetry_ruyi_versions, by upload
  rawInfos,          \* telemetry_raw_installation_infos: last writer per report
  aggregatedEvents,  \* times an upload's events are in telemetry_aggregated_events
  riscvInfos,        \* rows in telemetry_riscv_machine_infos, by upload
  installInfos,      \* telemetry_installation_infos: the writer per report
  \* upload handlers
  hpc, hnonce, hcreated,
  \* processing runs
  rpc, batch, chosen,
  \* clock, clients and bounds
  now, sends, fails,
  acked              \* uploads some client has seen a 204 for

tables == <<rawUploads, createdAt, processed, ruyiVersions, rawInfos,
            aggregatedEvents, riscvInfos, installInfos>>
handlers == <<hpc, hnonce, hcreated>>
runs == <<rpc, batch, chosen>>
vars == <<tables, handlers, runs, now, sends, fails, acked>>

\* The report an upload is filed under: the installation's, else its own.
ReportOf(n) == IF Payload[n].installation # None
               THEN Payload[n].installation ELSE Payload[n].report

NoChoice == [rep \in Reports |-> None]

TypeOK ==
  /\ rawUploads \in SUBSET Nonces
  /\ createdAt \in [Nonces -> 0..MaxTime]
  /\ processed \in SUBSET Nonces
  /\ ruyiVersions \in [Nonces -> Nat]
  /\ rawInfos \in [Reports -> Nonces \cup {None}]
  /\ aggregatedEvents \in [Nonces -> Nat]
  /\ riscvInfos \in [Nonces -> Nat]
  /\ installInfos \in [Reports -> Nonces \cup {None}]
  /\ hpc \in [Handlers -> {"idle", "upsert", "rawInsert", "commit"}]
  /\ hnonce \in [Handlers -> Nonces \cup {None}]
  /\ \A h \in Handlers : hpc[h] = "idle" <=> hnonce[h] = None
  /\ hcreated \in [Handlers -> 0..MaxTime]
  /\ rpc \in [Runs -> {"idle", "selected", "installing", "inserted", "marked"}]
  /\ batch \in [Runs -> SUBSET Nonces]
  /\ chosen \in [Runs -> [Reports -> Nonces \cup {None}]]
  /\ now \in 0..MaxTime
  /\ sends \in [Nonces -> Nat] /\ \A n \in Nonces : sends[n] <= MaxSends[n]
  /\ fails \in 0..MaxFails
  /\ acked \in SUBSET Nonces

Init ==
  /\ rawUploads = {} /\ processed = {} /\ acked = {}
  /\ createdAt = [n \in Nonces |-> 0]
  /\ ruyiVersions = [n \in Nonces |-> 0]
  /\ aggregatedEvents = [n \in Nonces |-> 0]
  /\ riscvInfos = [n \in Nonces |-> 0]
  /\ rawInfos = NoChoice /\ installInfos = NoChoice
  /\ hpc = [h \in Handlers |-> "idle"]
  /\ hnonce = [h \in Handlers |-> None]
  /\ hcreated = [h \in Handlers |-> 0]
  /\ rpc = [r \in Runs |-> "idle"]
  /\ batch = [r \in Runs |-> {}]
  /\ chosen = [r \in Runs |-> NoChoice]
  /\ now = 0 /\ fails = 0
  /\ sends = [n \in Nonces |-> 0]

-----------------------------------------------------------------------------
(* Upload: POST /telemetry/pm/upload-v1.  hpc names the next statement.    *)

ResetHandler(h) ==
  /\ hpc' = [hpc EXCEPT ![h] = "idle"]
  /\ hnonce' = [hnonce EXCEPT ![h] = None]
  /\ hcreated' = [hcreated EXCEPT ![h] = 0]

\* A client sends upload n, for the first time or again after an answer it
\* did not see; the version row is inserted, uncommitted.
UploadBegin(h, n) ==
  /\ hpc[h] = "idle" /\ sends[n] < MaxSends[n] /\ now < MaxTime
  /\ sends' = [sends EXCEPT ![n] = @ + 1]
  /\ hpc' = [hpc EXCEPT ![h] = IF ReportOf(n) # None THEN "upsert" ELSE "rawInsert"]
  /\ hnonce' = [hnonce EXCEPT ![h] = n]
  /\ UNCHANGED <<tables, hcreated, runs, now, fails, acked>>

\* A mutant: a shared lock is taken on the row before the upsert needs it
\* for itself.
UpsertAfterSharedLock(h) ==
  /\ hpc[h] = "upsert"
  /\ \A g \in Handlers \ {h} : hpc[g] # "idle" => ReportOf(hnonce[g]) # ReportOf(hnonce[h])
  /\ hpc' = [hpc EXCEPT ![h] = "rawInsert"]
  /\ UNCHANGED <<tables, hnonce, hcreated, runs, now, sends, fails, acked>>

\* The upsert of the installation info waits for the row of its report.
UpsertInfo(h) ==
  /\ hpc[h] = "upsert"
  /\ \A g \in Handlers : hpc[g] \in {"rawInsert", "commit"}
                           => ReportOf(hnonce[g]) # ReportOf(hnonce[h])
  /\ hpc' = [hpc EXCEPT ![h] = "rawInsert"]
  /\ UNCHANGED <<tables, hnonce, hcreated, runs, now, sends, fails, acked>>

\* INSERT IGNORE into the raw uploads: waits for an uncommitted row with the
\* same nonce and for a run that updates that row; the row's time stamp is
\* that of this statement.
RawInsert(h) ==
  /\ hpc[h] = "rawInsert"
  /\ \A g \in Handlers : hpc[g] = "commit" /\ hnonce[g] = hnonce[h]
                           => hnonce[h] \in rawUploads
  /\ \A r \in Runs : rpc[r] = "marked" => hnonce[h] \notin batch[r]
  /\ hpc' = [hpc EXCEPT ![h] = "commit"]
  /\ hcreated' = [hcreated EXCEPT ![h] = now]
  /\ UNCHANGED <<tables, hnonce, runs, now, sends, fails, acked>>

\* ON DUPLICATE KEY UPDATE: the last writer of a report wins.
UpsertedInfos(n) ==
  [rep \in Reports |-> IF rep = ReportOf(n) THEN n ELSE rawInfos[rep]]

\* A mutant: REPLACE INTO in the place of INSERT IGNORE.
CommitReplacing(h) ==
  LET n == hnonce[h] IN
  /\ hpc[h] = "commit"
  /\ ruyiVersions' = [ruyiVersions EXCEPT ![n] = @ + 1]
  /\ rawInfos' = UpsertedInfos(n)
  /\ rawUploads' = rawUploads \cup {n}
  /\ createdAt' = [createdAt EXCEPT ![n] = hcreated[h]]
  /\ processed' = processed \ {n}
  /\ ResetHandler(h)
  /\ acked' \in {acked, acked \cup {n}}
  /\ UNCHANGED <<aggregatedEvents, riscvInfos, installInfos, runs, now, sends, fails>>

\* The commit makes all three writes visible; a row that is there keeps its
\* time stamp and its is_processed.  The answer may be lost.
UploadCommit(h) ==
  LET n == hnonce[h] IN
  /\ hpc[h] = "commit"
  /\ ruyiVersions' = [ruyiVersions EXCEPT ![n] = @ + 1]
  /\ rawInfos' = UpsertedInfos(n)
  /\ rawUploads' = rawUploads \cup {n}
  /\ createdAt' = [createdAt EXCEPT ![n] = IF n \in rawUploads THEN @ ELSE hcreated[h]]
  /\ ResetHandler(h)
  /\ acked' \in {acked, acked \cup {n}}
  /\ UNCHANGED <<processed, aggregatedEvents, riscvInfos, installInfos, runs,
                 now, sends, fails>>

\* Mutants: a statement is committed on its own; the request is not cleared.
FailKeepingVersion(h) ==
  /\ hpc[h] # "idle" /\ fails < MaxFails
  /\ fails' = fails + 1
  /\ ruyiVersions' = [ruyiVersions EXCEPT ![hnonce[h]] = @ + 1]
  /\ ResetHandler(h)
  /\ UNCHANGED <<rawUploads, createdAt, processed, rawInfos, aggregatedEvents,
                 riscvInfos, installInfos, runs, now, sends, acked>>

FailKeepingNonce(h) ==
  /\ hpc[h] # "idle" /\ fails < MaxFails
  /\ fails' = fails + 1
  /\ hpc' = [hpc EXCEPT ![h] = "idle"]
  /\ UNCHANGED <<tables, hnonce, hcreated, runs, now, sends, acked>>

\* A statement fails or the connection is lost: everything is rolled back.
UploadFail(h) ==
  /\ hpc[h] # "idle" /\ fails < MaxFails
  /\ fails' = fails + 1
  /\ ResetHandler(h)
  /\ UNCHANGED <<tables, runs, now, sends, acked>>

-----------------------------------------------------------------------------
(* Processing: POST /admin/process-telemetry-v1, one transaction.          *)

Installed(n) == Payload[n].installation # None

\* The unprocessed rows of the window [start, end).
Selectable(start, end) ==
  {n \in rawUploads \ processed : start <= createdAt[n] /\ createdAt[n] < end}

WindowStartToday == now  \* a mutant: the window starts today

WindowStart == IF now > Lookback THEN now - Lookback ELSE 0

\* The timer sends a window that ends at the present; an administrator any.
Windows(r) == IF r = Cron THEN {<<WindowStart, now>>}
              ELSE (0..MaxTime) \X (0..MaxTime + 1)

\* The snapshot is taken and the rows are streamed and validated.
Select(r) ==
  /\ rpc[r] = "idle"
  /\ \E w \in Windows(r) : batch' = [batch EXCEPT ![r] = Selectable(w[1], w[2])]
  /\ rpc' = [rpc EXCEPT ![r] = "selected"]
  /\ UNCHANGED <<tables, handlers, chosen, now, sends, fails, acked>>

\* A mutant: the installation is kept under the condition of its machine data.
ReportsWithMachine(S) == {ReportOf(n) : n \in {m \in S : Payload[m].riscv}}

\* The reports for which a batch carries installation records, and the
\* records for one report: the dict keeps whichever the SELECT gave last.
ReportsIn(S) == {ReportOf(n) : n \in {m \in S : Installed(m)}}

Candidates(S, rep) == {n \in S : Installed(n) /\ ReportOf(n) = rep}

\* Installation rows a run has inserted and not yet committed.
Locked(r) == {rep \in Reports : chosen[r][rep] # None /\ installInfos[rep] = None}

\* The reports whose installation row a run has not come to yet.
Pending(r) == {rep \in ReportsIn(batch[r]) : chosen[r][rep] = None}

\* process_telemetry_data, its first statement: the batch insert of events.
\* An upload that does not fit may do so in its machine data, if it has any.
InsertEvents(r) ==
  /\ rpc[r] = "selected"
  /\ \A n \in batch[r] : Payload[n].fits \/ Payload[n].riscv
  /\ rpc' = [rpc EXCEPT ![r] = "installing"]
  /\ UNCHANGED <<tables, handlers, batch, chosen, now, sends, fails, acked>>

\* What INSERT IGNORE leaves in the row of a report: the row that is there,
\* or else the record of the batch.
InsertedRow(r, rep) == IF installInfos[rep] # None THEN {installInfos[rep]}
                       ELSE Candidates(batch[r], rep)

\* The second statement takes the row locks of the reports one after the
\* other, in the order of the dict, and keeps those it has while it waits for
\* another run's uncommitted row of the next.
InsertInstallation(r, rep) ==
  /\ rpc[r] = "installing" /\ rep \in Pending(r)
  /\ \A q \in Runs \ {r} : rep \notin Locked(q)
  /\ \E n \in InsertedRow(r, rep) : chosen' = [chosen EXCEPT ![r][rep] = n]
  /\ UNCHANGED <<tables, handlers, rpc, batch, now, sends, fails, acked>>

\* The third statement: the machine data.
InsertMachines(r) ==
  /\ rpc[r] = "installing" /\ Pending(r) = {}
  /\ \A n \in batch[r] : Payload[n].fits
  /\ rpc' = [rpc EXCEPT ![r] = "inserted"]
  /\ UNCHANGED <<tables, handlers, batch, chosen, now, sends, fails, acked>>

\* A mutant: the batch inserts are committed statement by statement.
RollbackKeepingRows(r) ==
  /\ rpc' = [rpc EXCEPT ![r] = "idle"]
  /\ batch' = [batch EXCEPT ![r] = {}]
  /\ chosen' = [chosen EXCEPT ![r] = NoChoice]
  /\ aggregatedEvents' = [n \in Nonces |->
       IF n \in batch[r] /\ rpc[r] # "selected"
       THEN aggregatedEvents[n] + 1 ELSE aggregatedEvents[n]]
  /\ UNCHANGED <<rawUploads, createdAt, processed, ruyiVersions, rawInfos,
                 riscvInfos, installInfos, handlers, now, sends, acked>>

Rollback(r) ==
  /\ rpc' = [rpc EXCEPT ![r] = "idle"]
  /\ batch' = [batch EXCEPT ![r] = {}]
  /\ chosen' = [chosen EXCEPT ![r] = NoChoice]
  /\ UNCHANGED <<tables, handlers, now, sends, acked>>

\* A value does not fit its column: the insert of the whole batch raises,
\* that of the events or that of the machine data.
ProcessRaise(r) ==
  /\ rpc[r] = "selected" \/ (rpc[r] = "installing" /\ Pending(r) = {})
  /\ \E n \in batch[r] : ~Payload[n].fits
  /\ Rollback(r) /\ UNCHANGED fails

\* Run r waits for an installation row that run q has locked.
Waits(r, q) == rpc[r] = "installing" /\ Pending(r) \cap Locked(q) # {}

\* Run r is one of several that wait for each other in a circle: whoever it
\* waits for, directly or through others, waits for it.
InCycle(r) ==
  \A S \in SUBSET Runs :
    /\ \A q \in Runs : Waits(r, q) => q \in S
    /\ \A p \in S, q \in Runs : Waits(p, q) => q \in S
    => r \in S

\* The database rolls one of them back; its statement raises.
DeadlockVictim(r) == InCycle(r) /\ Rollback(r) /\ UNCHANGED fails

\* The rows whose update a run has to wait for.
RowLocks(r) == {n \in rawUploads :
                  \/ \E q \in Runs \ {r} : rpc[q] = "marked" /\ n \in batch[q]
                  \/ \E h \in Handlers : hpc[h] = "commit" /\ hnonce[h] = n}

\* Rows of the batch that another run marked since this run's snapshot.
Conflict(r) == SnapshotIsolation /\ batch[r] \cap processed # {}

\* UPDATE ... SET is_processed WHERE id IN the batch.
MarkProcessed(r) ==
  /\ rpc[r] = "inserted"
  /\ RowLocks(r) \cap batch[r] = {}
  /\ ~Conflict(r)
  /\ rpc' = [rpc EXCEPT ![r] = "marked"]
  /\ UNCHANGED <<tables, handlers, batch, chosen, now, sends, fails, acked>>

\* The update of a row changed since the snapshot is refused.
MarkRefused(r) ==
  /\ rpc[r] = "inserted"
  /\ Conflict(r)
  /\ Rollback(r) /\ UNCHANGED fails

\* A mutant: the update is left out.
UpdatedNone(r) == {}

\* The rows that the update marks.
UpdatedRows(r) == batch[r]

\* The commit publishes the inserts and the marks together.
CommitRun(r) ==
  /\ rpc[r] = "marked"
  /\ aggregatedEvents' = [n \in Nonces |->
       IF n \in batch[r] THEN aggregatedEvents[n] + 1 ELSE aggregatedEvents[n]]
  /\ riscvInfos' = [n \in Nonces |->
       IF n \in batch[r] /\ Payload[n].riscv THEN riscvInfos[n] + 1 ELSE riscvInfos[n]]
  /\ installInfos' = [rep \in Reports |->
       IF chosen[r][rep] # None THEN chosen[r][rep] ELSE installInfos[rep]]
  /\ processed' = processed \cup UpdatedRows(r)
  /\ rpc' = [rpc EXCEPT ![r] = "idle"]
  /\ batch' = [batch EXCEPT ![r] = {}]
  /\ chosen' = [chosen EXCEPT ![r] = NoChoice]
  /\ UNCHANGED <<rawUploads, createdAt, ruyiVersions, rawInfos, handlers,
                 now, sends, fails, acked>>

\* A statement fails, or the server stops: the transaction is rolled back.
RunFail(r) ==
  /\ rpc[r] # "idle" /\ fails < MaxFails
  /\ fails' = fails + 1
  /\ Rollback(r)

\* The clock, in the whole seconds that CURRENT_TIMESTAMP keeps.  Its last
\* tick comes when no upload is under way.
Tick ==
  /\ now < MaxTime
  /\ now + 1 = MaxTime => \A h \in Handlers : hpc[h] = "idle"
  /\ now' = now + 1
  /\ UNCHANGED <<tables, handlers, runs, sends, fails, acked>>

UploadStep(h) == UpsertInfo(h) \/ RawInsert(h) \/ UploadCommit(h)

RunStep(r) == \/ InsertEvents(r) \/ (\E rep \in Reports : InsertInstallation(r, rep))
              \/ InsertMachines(r) \/ ProcessRaise(r) \/ DeadlockVictim(r)
              \/ MarkProcessed(r) \/ MarkRefused(r) \/ CommitRun(r)

Next == \/ \E h \in Handlers : \/ \E n \in Nonces : UploadBegin(h, n)
                               \/ UploadStep(h)
                               \/ UploadFail(h)
        \/ \E r \in Runs : Select(r) \/ RunStep(r) \/ RunFail(r)
        \/ Tick

Spec == Init /\ [][Next]_vars

\* A request that is being served goes on, the timer fires again and again
\* (examples/systemd), and time passes.  Nobody has to upload or to start
\* a run by hand.  A run that waits for a row lock gets it when its turn
\* comes: the database grants a lock in the order of the requests for it, so
\* that runs that come later and raise cannot keep it from one that waits.
Fairness == /\ \A h \in Handlers : WF_vars(UploadStep(h))
            /\ \A r \in Runs : SF_vars(RunStep(r))
            /\ WF_vars(Select(Cron))
            /\ WF_vars(Tick)

FairSpec == Spec /\ Fairness

-----------------------------------------------------------------------------
(* What must hold.                                                         *)

\* Overlapping runs are told apart: by the database, or by there being one.
ConflictsCaught == SnapshotIsolation \/ \A r, q \in Runs : r = q

\* The statistics count every processed upload exactly once and no other
\* upload at all, in both tables that have no unique key: a run that failed
\* or a second run of the same rows must leave no trace
\* (telemetry_processor.py:74-89 and admin.py:71-80).
CountedOnce ==
  /\ processed \subseteq rawUploads
  /\ \A n \in Nonces :
       /\ aggregatedEvents[n] = IF n \in processed THEN 1 ELSE 0
       /\ riscvInfos[n] = IF n \in processed /\ Payload[n].riscv THEN 1 ELSE 0

\* An installation is on record exactly when a processed upload carried it,
\* and its row comes from one of those uploads: no record is lost with a row
\* that is marked processed, whatever the batches were
\* (telemetry_processor.py:44-59 and 79-84).
InstallsRecorded ==
  \A rep \in Reports :
    IF Candidates(processed, rep) = {}
    THEN installInfos[rep] = None
    ELSE installInfos[rep] \in Candidates(processed, rep)

\* An upload is recorded whole or not at all, and a client that got its 204
\* has been recorded: version row, installation info and raw row share one
\* transaction (telemetry.py:15-54), also when handlers of retries overlap.
AcceptedWhole ==
  /\ acked \subseteq rawUploads
  /\ \A n \in Nonces : n \in rawUploads <=> ruyiVersions[n] > 0
  /\ \A rep \in Reports :
       LET writers == {n \in rawUploads : ReportOf(n) = rep}
       IN IF writers = {} THEN rawInfos[rep] = None ELSE rawInfos[rep] \in writers

KeepRows ==
  /\ \A n \in rawUploads : n \in rawUploads' /\ createdAt'[n] = createdAt[n]
  /\ processed \subseteq processed'
  /\ \A rep \in Reports :
       installInfos[rep] # None => installInfos'[rep] = installInfos[rep]

\* A recorded row is never taken back: a retry neither renews its time stamp
\* nor makes it unprocessed again, and the first installation record of a
\* report stays (INSERT IGNORE at telemetry.py:46 and telemetry_processor.py:83).
\* No step of the telemetry handlers and runs takes a recorded row back.
RowsKept == [][KeepRows]_vars

\* The pipeline implements the abstract ledger: uploads are accepted once
\* and enter the statistics in batches, once and whole.
Ledger == INSTANCE EventLedger WITH accepted <- rawUploads, tally <- aggregatedEvents

LedgerSpec == Ledger!Spec

\* "Processes collected raw telemetry data so far." (admin.py:47): the
\* timer's runs get to every row in the end, although runs fail, overlap
\* and select by a window of time.
EventuallyProcessed ==
  \A n \in Nonces : (n \in rawUploads) ~> (n \in processed)

\* One upload that does not fit its columns makes every run of its window
\* raise (EventuallyProcessed does not hold then).  Nothing else keeps an
\* upload from being processed: neither runs that overlap or are rolled back
\* nor the window of time (telemetry_processor.py:73-89, admin.py:49-80).
EventuallyProcessedOrBlocked ==
  \A n \in Nonces :
    (n \in rawUploads) ~> \/ n \in processed
                          \/ \E m \in rawUploads : ~Payload[m].fits

\* Every request that is being served comes to its end: the waits for row
\* locks at telemetry.py:31 and 44 and admin.py:77 close no cycle with those
\* at telemetry_processor.py:79-84, and the only cycle there is, runs that
\* insert installations in different orders, is broken by the database.
RequestsEnd ==
  /\ \A h \in Handlers : (hpc[h] # "idle") ~> (hpc[h] = "idle")
  /\ \A r \in Runs : (rpc[r] # "idle") ~> (rpc[r] = "idle")

=============================================================================
