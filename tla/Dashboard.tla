------------------------------ MODULE Dashboard ------------------------------
(***************************************************************************)
(* The numbers on the RuyiSDK dashboard: the three administrative requests *)
(* that refresh them (app/admin.py:68-168) and the computation they all    *)
(* end with (components/frontend_dashboard_processor.py), which reads      *)
(* cached statistics and the database and caches the result.  The handlers *)
(* run concurrently; each await on the cache, the database or a remote     *)
(* service is a step, and no lock covers two of them.                      *)
(*                                                                         *)
(* Numbers only grow, and a number stands for everything counted up to it. *)
(* A time stamp of processing stands for what had been committed at that   *)
(* time.  The counts from Elasticsearch and the way numbers are summed and *)
(* sorted into categories are left out: they are recomputed each time.     *)
(***************************************************************************)
EXTENDS Integers, Sequences

CONSTANTS
  GitHubSources,  \* the GitHub statistics, in the order they are refreshed
  ReadOrder,      \* all cached statistics, in the order they are read
  PyPI,           \* the one from PyPI
  Requests,       \* requests the servers work on at a time
  Cron,           \* the one the timer's script is waiting for
  Growing,        \* bound: the statistics whose remote counts change
  MaxCommits,     \* bound: processing runs that commit something
  MaxChanges,     \* bound: changes of each of them
  MaxFails        \* bound: failures

Sources == {ReadOrder[i] : i \in 1..Len(ReadOrder)}

ASSUME SourcesAssumption ==
  /\ ReadOrder \in Seq(Sources) /\ PyPI \in Sources
  /\ GitHubSources \in Seq(Sources \ {PyPI}) /\ GitHubSources # <<>>
ASSUME CronAssumption == Cron \in Requests
ASSUME BoundsAssumption == MaxCommits \in Nat /\ MaxChanges \in Nat /\ MaxFails \in Nat

Kinds == {"process", "github", "pypi"}

\* What the timer's script does in a round.
Turns == Kinds \cup {"login"}

None == -1

VARIABLES
  upstream,       \* the current count at each remote service
  committed,      \* processing runs whose results are in the database
  pypiRows,       \* what download_stats_daily_pypi sums up to
  stats,          \* the cached statistics
  lastProcessed,  \* the cached time stamp, or None
  dashboard,      \* the cached dashboard
  pc,             \* the next step of each request
  idx,            \* which statistics a request is at
  held,           \* the value a request has got and not yet stored
  draft,          \* the dashboard a request is computing
  turn,           \* what the timer's script asks for next
  authorized,     \* the token it has is one of an administrator, and valid
  fails

requests == <<pc, idx, held, draft>>
script == <<turn, authorized>>
vars == <<upstream, committed, pypiRows, stats, lastProcessed, dashboard, requests,
          script, fails>>

Counts == [Sources -> 0..MaxChanges]

Empty == [label |-> 0, processed |-> 0, src |-> [s \in Sources |-> 0]]

Dashboards == [label : 0..MaxCommits, processed : 0..MaxCommits, src : Counts]

Steps == {"idle", "process", "stamp", "setStamp", "fetch", "store", "pypiFetch",
          "persist", "sum", "pypiStore", "label", "read", "count", "write"}

\* What a request is at is in the list it works through, and the number it
\* holds is of the kind it will store.
InRange(q) ==
  /\ pc[q] \in {"fetch", "store"} => idx[q] <= Len(GitHubSources)
  /\ pc[q] = "read" => idx[q] <= Len(ReadOrder)
  /\ pc[q] \notin {"fetch", "store", "read"} => idx[q] = 1
  /\ pc[q] = "setStamp" => held[q] <= MaxCommits
  /\ pc[q] # "setStamp" => held[q] <= MaxChanges

TypeOK ==
  /\ upstream \in Counts /\ stats \in Counts
  /\ committed \in 0..MaxCommits /\ pypiRows \in 0..MaxChanges
  /\ lastProcessed \in {None} \cup 0..MaxCommits
  /\ dashboard \in Dashboards /\ draft \in [Requests -> Dashboards]
  /\ pc \in [Requests -> Steps]
  /\ idx \in [Requests -> Nat \ {0}] /\ held \in [Requests -> Nat]
  /\ \A q \in Requests : InRange(q)
  /\ turn \in Turns /\ authorized \in BOOLEAN /\ fails \in 0..MaxFails

Init ==
  /\ upstream \in [Sources -> {0}] /\ stats = upstream
  /\ committed = 0 /\ pypiRows = 0 /\ lastProcessed = None
  /\ dashboard = Empty /\ draft = [q \in Requests |-> Empty]
  /\ pc = [q \in Requests |-> "idle"]
  /\ idx = [q \in Requests |-> 1] /\ held = [q \in Requests |-> 0]
  /\ turn = "login" /\ authorized = FALSE /\ fails = 0

-----------------------------------------------------------------------------

Goto(q, l) == pc' = [pc EXCEPT ![q] = l]
Hold(q, v) == held' = [held EXCEPT ![q] = v]

\* A request is over, and keeps nothing.
Reset(q) ==
  /\ Goto(q, "idle") /\ Hold(q, 0)
  /\ idx' = [idx EXCEPT ![q] = 1]
  /\ draft' = [draft EXCEPT ![q] = Empty]

\* The remote services count on.
Grow(s) ==
  /\ s \in Growing /\ upstream[s] < MaxChanges
  /\ upstream' = [upstream EXCEPT ![s] = @ + 1]
  /\ UNCHANGED <<committed, pypiRows, stats, lastProcessed, dashboard, requests, script, fails>>

\* The script logs in and asks for one refresh after the other, for that of
\* PyPI only in the round of 8 o'clock.
NextTurns(k) == CASE k = "process" -> {"github"}
                  [] k = "github"  -> {"pypi", "login"}
                  [] k = "pypi"    -> {"login"}

\* The script goes on; the token does not outlive its round.
Advance ==
  /\ turn' \in NextTurns(turn)
  /\ authorized' = (authorized /\ turn' # "login")

\* The credentials are checked, and a token is issued that is valid for an
\* hour.
Login ==
  /\ pc[Cron] = "idle" /\ turn = "login"
  /\ turn' = "process" /\ authorized' = TRUE
  /\ UNCHANGED <<upstream, committed, pypiRows, stats, lastProcessed, dashboard, requests, fails>>

\* The log-in fails, which the script does not look at.
LoginFail ==
  /\ pc[Cron] = "idle" /\ turn = "login" /\ fails < MaxFails
  /\ turn' = "process" /\ fails' = fails + 1
  /\ UNCHANGED <<upstream, committed, pypiRows, stats, lastProcessed, dashboard, requests, authorized>>

\* The hour is over, whatever the script is waiting for.
Expire ==
  /\ authorized /\ fails < MaxFails
  /\ authorized' = FALSE /\ fails' = fails + 1
  /\ UNCHANGED <<upstream, committed, pypiRows, stats, lastProcessed, dashboard, requests, turn>>

\* A request without a valid token is refused before it does anything, and
\* the script sends the next one.
Refused ==
  /\ pc[Cron] = "idle" /\ turn \in Kinds /\ ~authorized
  /\ Advance
  /\ UNCHANGED <<upstream, committed, pypiRows, stats, lastProcessed, dashboard, requests, fails>>

FirstStep(k) == CASE k = "process" -> "process" [] k = "github" -> "fetch" [] k = "pypi" -> "pypiFetch"

\* The token is looked at once, at the start of a request.  An administrator
\* asks for anything.
Start(q) ==
  /\ pc[q] = "idle"
  /\ \E k \in Kinds :
       /\ Goto(q, FirstStep(k))
       /\ IF q = Cron THEN k = turn /\ authorized /\ Advance ELSE UNCHANGED script
  /\ UNCHANGED <<upstream, committed, pypiRows, stats, lastProcessed, dashboard,
                 idx, held, draft, fails>>

-----------------------------------------------------------------------------
(* admin_process_telemetry, from the commit on (Telemetry has the rest).   *)

Process(q) ==
  /\ pc[q] = "process"
  /\ committed' \in {committed, committed + 1} \cap (0..MaxCommits)
  /\ Goto(q, "stamp")
  /\ UNCHANGED <<upstream, pypiRows, stats, lastProcessed, dashboard, idx, held,
                 draft, script, fails>>

Stamp(q) ==
  /\ pc[q] = "stamp"
  /\ Hold(q, committed) /\ Goto(q, "setStamp")
  /\ UNCHANGED <<upstream, committed, pypiRows, stats, lastProcessed, dashboard, idx,
                 draft, script, fails>>

SetStamp(q) ==
  /\ pc[q] = "setStamp"
  /\ lastProcessed' = held[q]
  /\ Hold(q, 0) /\ Goto(q, "label")
  /\ UNCHANGED <<upstream, committed, pypiRows, stats, dashboard, idx, draft, script, fails>>

-----------------------------------------------------------------------------
(* admin_refresh_github_stats: query and store one statistics after the    *)
(* other.                                                                  *)

Fetch(q) ==
  /\ pc[q] = "fetch"
  /\ Hold(q, upstream[GitHubSources[idx[q]]]) /\ Goto(q, "store")
  /\ UNCHANGED <<upstream, committed, pypiRows, stats, lastProcessed, dashboard, idx,
                 draft, script, fails>>

Store(q) ==
  /\ pc[q] = "store"
  /\ stats' = [stats EXCEPT ![GitHubSources[idx[q]]] = held[q]]
  /\ Hold(q, 0)
  /\ IF idx[q] < Len(GitHubSources)
     THEN idx' = [idx EXCEPT ![q] = @ + 1] /\ Goto(q, "fetch")
     ELSE idx' = [idx EXCEPT ![q] = 1] /\ Goto(q, "label")
  /\ UNCHANGED <<upstream, committed, pypiRows, lastProcessed, dashboard, draft, script, fails>>

-----------------------------------------------------------------------------
(* admin_refresh_pypi_stats.                                               *)

PyPIFetch(q) ==
  /\ pc[q] = "pypiFetch"
  /\ Hold(q, upstream[PyPI]) /\ Goto(q, "persist")
  /\ UNCHANGED <<upstream, committed, pypiRows, stats, lastProcessed, dashboard, idx,
                 draft, script, fails>>

\* A bug the properties must catch: the new total counts on top of the old one.
PersistAdding(q) ==
  /\ pc[q] = "persist"
  /\ pypiRows' = pypiRows + held[q]
  /\ Hold(q, 0) /\ Goto(q, "sum")
  /\ UNCHANGED <<upstream, committed, stats, lastProcessed, dashboard, idx, draft, script, fails>>

\* INSERT IGNORE: days that are there stay.
Persist(q) ==
  /\ pc[q] = "persist"
  /\ pypiRows' = IF held[q] > pypiRows THEN held[q] ELSE pypiRows
  /\ Hold(q, 0) /\ Goto(q, "sum")
  /\ UNCHANGED <<upstream, committed, stats, lastProcessed, dashboard, idx, draft, script, fails>>

Sum(q) ==
  /\ pc[q] = "sum"
  /\ Hold(q, pypiRows) /\ Goto(q, "pypiStore")
  /\ UNCHANGED <<upstream, committed, pypiRows, stats, lastProcessed, dashboard, idx,
                 draft, script, fails>>

PyPIStore(q) ==
  /\ pc[q] = "pypiStore"
  /\ stats' = IF held[q] > 0 THEN [stats EXCEPT ![PyPI] = held[q]] ELSE stats
  /\ Hold(q, 0) /\ Goto(q, "label")
  /\ UNCHANGED <<upstream, committed, pypiRows, lastProcessed, dashboard, idx, draft, script, fails>>

-----------------------------------------------------------------------------
(* crunch_and_cache_dashboard_numbers.                                     *)

\* Without a time stamp in the cache, the present is taken for it.
Label(q) ==
  /\ pc[q] = "label"
  /\ draft' = [draft EXCEPT ![q].label =
                 IF lastProcessed = None THEN committed ELSE lastProcessed]
  /\ Goto(q, "read")
  /\ UNCHANGED <<upstream, committed, pypiRows, stats, lastProcessed, dashboard, idx,
                 held, script, fails>>

\* So it is when the cache does not answer.
LabelDegraded(q) ==
  /\ pc[q] = "label" /\ fails < MaxFails
  /\ fails' = fails + 1
  /\ draft' = [draft EXCEPT ![q].label = committed]
  /\ Goto(q, "read")
  /\ UNCHANGED <<upstream, committed, pypiRows, stats, lastProcessed, dashboard, idx,
                 held, script>>

Read(q) ==
  /\ pc[q] = "read"
  /\ draft' = [draft EXCEPT ![q].src[ReadOrder[idx[q]]] = stats[ReadOrder[idx[q]]]]
  /\ IF idx[q] < Len(ReadOrder)
     THEN idx' = [idx EXCEPT ![q] = @ + 1] /\ UNCHANGED pc
     ELSE idx' = [idx EXCEPT ![q] = 1] /\ Goto(q, "count")
  /\ UNCHANGED <<upstream, committed, pypiRows, stats, lastProcessed, dashboard, held, script, fails>>

\* Installations and commands are counted in one snapshot of the database.
Count(q) ==
  /\ pc[q] = "count"
  /\ draft' = [draft EXCEPT ![q].processed = committed]
  /\ Goto(q, "write")
  /\ UNCHANGED <<upstream, committed, pypiRows, stats, lastProcessed, dashboard, idx,
                 held, script, fails>>

\* Bugs the properties must catch: the time stamp is read last, or only a
\* dashboard with a later time stamp is written.
WriteRelabelled(q) ==
  /\ pc[q] = "write"
  /\ dashboard' = [draft[q] EXCEPT !.label = IF lastProcessed = None THEN @ ELSE lastProcessed]
  /\ Reset(q)
  /\ UNCHANGED <<upstream, committed, pypiRows, stats, lastProcessed, script, fails>>

WriteIfLater(q) ==
  /\ pc[q] = "write"
  /\ dashboard' = IF draft[q].label > dashboard.label THEN draft[q] ELSE dashboard
  /\ Reset(q)
  /\ UNCHANGED <<upstream, committed, pypiRows, stats, lastProcessed, script, fails>>

Write(q) ==
  /\ pc[q] = "write"
  /\ dashboard' = draft[q]
  /\ Reset(q)
  /\ UNCHANGED <<upstream, committed, pypiRows, stats, lastProcessed, script, fails>>

\* A step fails.  What was stored before stays; a failure of the computation
\* or of its last write is ignored, any other answers the request.
Fail(q) ==
  /\ pc[q] # "idle" /\ fails < MaxFails
  /\ fails' = fails + 1
  /\ Reset(q)
  /\ UNCHANGED <<upstream, committed, pypiRows, stats, lastProcessed, dashboard, script>>

Step(q) == \/ Process(q) \/ Stamp(q) \/ SetStamp(q) \/ Fetch(q) \/ Store(q)
           \/ PyPIFetch(q) \/ Persist(q) \/ Sum(q) \/ PyPIStore(q)
           \/ Label(q) \/ Read(q) \/ Count(q) \/ Write(q)

ScriptStep == Login \/ Refused \/ Start(Cron)

Next == \/ \E s \in Sources : Grow(s)
        \/ Login \/ LoginFail \/ Expire \/ Refused
        \/ \E q \in Requests : Start(q) \/ Step(q) \/ LabelDegraded(q) \/ Fail(q)

Spec == Init /\ [][Next]_vars

\* The timer's script comes back again and again, each day at 8 o'clock too,
\* and requests go on.
FairSpec == /\ Spec
            /\ WF_vars(ScriptStep)
            /\ SF_vars(ScriptStep /\ turn' = "pypi")
            /\ \A q \in Requests : WF_vars(Step(q))

-----------------------------------------------------------------------------

\* The dashboard shows everything that was processed up to the time it
\* claims to be of, although it is put together from reads at different
\* times (the time stamp is read at lines 49-53, the database at 166-183)
\* and written without regard to what others wrote (line 221).
CoversLabel == dashboard.processed >= dashboard.label

\* When nothing new is counted any more, the dashboard shows the current
\* numbers in the end, and from then on: overlapping requests may write old
\* numbers over new ones (admin.py:106-131, 145-168), but the timer's next
\* round repairs that.
EventuallyFresh == <>[](dashboard.src = upstream /\ dashboard.processed = committed)

=============================================================================
