-------------------------- MODULE BackgroundScheduler --------------------------
(***************************************************************************)
(* app/services/background_scheduler.py and the cache entries it keeps in  *)
(* device_cache_service: the attendance import with its start-up retries   *)
(* and the manual full backfill, the status-and-time check, the refresh of *)
(* the attendance summary, the summary _handle_punch writes from the       *)
(* session thread, and the QR check-in that invalidates it.                *)
(*                                                                         *)
(* Coroutines of the event loop run from one await to the next; work in a  *)
(* thread (to_thread, the session thread) interleaves everywhere.  What    *)
(* APScheduler does with a job is modelled from how the jobs are declared: *)
(* max_instances=1 per id, and a one-shot job leaves the store when it is  *)
(* submitted to run.                                                       *)
(***************************************************************************)
EXTENDS Integers, FiniteSets

CONSTANTS
  Slots,        \* coroutines that can be inside _import_attendance
  RetryBudget,  \* fast retries before the regular interval takes over
  MaxPunches, MaxImports

ASSUME SchedulerAssumption ==
  /\ IsFiniteSet(Slots) /\ RetryBudget \in Nat /\ MaxPunches \in Nat /\ MaxImports \in Nat

VARIABLES
  running,         \* _running
  firstSucceeded,  \* _first_import_succeeded
  retryCount,      \* _startup_retry_count
  failures,        \* history: imports in a row that raised, before the first success
  retries,         \* startup_retry_<time> jobs in the store
  backfillStored,  \* manual_full_backfill is in the store
  import,          \* per slot: which job, where, records synced, summary read
  check,           \* _refresh_status_and_time: "idle", "reading", "syncing"
  summaryJob,      \* _refresh_attendance_summary: the summary it has read
  punch,           \* _handle_punch after its commit: the summary it has read
  qr,              \* a QR check-in has committed and has the event loop
  db,              \* attendance_records, as a version
  cache,           \* device_cache_service: status, time, users, summary
  everUsers,       \* history: a check has read the users of the reader
  importsStarted   \* bound: imports started so far

jobs ==
  <<running, firstSucceeded, retryCount, failures, retries, backfillStored, importsStarted>>
schedulerVars == <<jobs, import, check, summaryJob, punch, qr, db, cache, everUsers>>

Kinds == {"interval", "retry", "backfill", "demand"}
NoImport == [kind |-> "interval", pc |-> "idle", synced |-> FALSE, summary |-> 0]
Unread == -1

SchedulerInit ==
  /\ running = TRUE /\ firstSucceeded = FALSE /\ retryCount = 0 /\ failures = 0
  /\ retries = 0 /\ backfillStored = FALSE
  /\ import = [s \in Slots |-> NoImport]
  /\ check = "idle" /\ summaryJob = Unread /\ punch = Unread /\ qr = FALSE
  /\ db = 0 /\ importsStarted = 0
  /\ cache = [status |-> "none", time |-> "none", users |-> "none", summary |-> Unread]
  /\ everUsers = FALSE

Instances(kind) == {s \in Slots : import[s].kind = kind /\ import[s].pc # "idle"}

-----------------------------------------------------------------------------
(* Starting imports. *)

Begin(s, kind) ==
  /\ import[s].pc = "idle" /\ importsStarted < MaxImports
  /\ importsStarted' = importsStarted + 1
  /\ import' = [import EXCEPT ![s] = [NoImport EXCEPT !.kind = kind, !.pc = "sync"]]

\* The 30-minute job; APScheduler skips a run that overlaps the last one.
IntervalFires(s) ==
  /\ running /\ Instances("interval") = {}
  /\ Begin(s, "interval")
  /\ UNCHANGED <<running, firstSucceeded, retryCount, failures, retries, backfillStored,
                 check, summaryJob, punch, qr, db, cache, everUsers>>

\* A start-up retry is due; every retry has an id of its own.
RetryFires(s) ==
  /\ running /\ retries > 0
  /\ retries' = retries - 1
  /\ Begin(s, "retry")
  /\ UNCHANGED <<running, firstSucceeded, retryCount, failures, backfillStored,
                 check, summaryJob, punch, qr, db, cache, everUsers>>

\* run_attendance_import_now(): POST /sync/attendance, the dashboard's refresh.
OnDemand(s) ==
  /\ Begin(s, "demand")
  /\ UNCHANGED <<running, firstSucceeded, retryCount, failures, retries, backfillStored,
                 check, summaryJob, punch, qr, db, cache, everUsers>>

\* run_attendance_import_now(full=True): add_job refuses an id in the store,
\* and the request is told that one is already running.
RequestBackfill ==
  /\ running
  /\ backfillStored' = TRUE
  /\ UNCHANGED <<running, firstSucceeded, retryCount, failures, retries, importsStarted, import,
                 check, summaryJob, punch, qr, db, cache, everUsers>>

\* The backfill's time has come: it leaves the store.  While another instance
\* runs the executor refuses it, and the run is skipped.
BackfillFires(s) ==
  /\ running /\ backfillStored
  /\ backfillStored' = FALSE
  /\ IF Instances("backfill") = {} THEN Begin(s, "backfill")
                                  ELSE UNCHANGED <<import, importsStarted>>
  /\ UNCHANGED <<running, firstSucceeded, retryCount, failures, retries,
                 check, summaryJob, punch, qr, db, cache, everUsers>>

-----------------------------------------------------------------------------
(* _import_attendance. *)

\* Mutant: a budget short by one.
MayRetryOneLess == ~firstSucceeded /\ running /\ retryCount + 1 < RetryBudget

\* _maybe_schedule_startup_retry.
MayRetry == ~firstSucceeded /\ running /\ retryCount < RetryBudget

\* catch_up_now raises.  The id of the retry is the second it is due in: a
\* second failure in the same second finds it taken and only spends budget.
ImportRaises(s) ==
  /\ import[s].pc = "sync"
  /\ import' = [import EXCEPT ![s] = NoImport]
  /\ failures' = IF running /\ ~firstSucceeded THEN failures + 1 ELSE failures
  /\ IF MayRetry THEN /\ retryCount' = retryCount + 1
                      /\ \/ retries' = retries + 1
                         \/ retries > 0 /\ UNCHANGED retries
                 ELSE UNCHANGED <<retryCount, retries>>
  /\ UNCHANGED <<running, firstSucceeded, backfillStored, importsStarted,
                 check, summaryJob, punch, qr, db, cache, everUsers>>

\* catch_up_now returns, with new records or without.
ImportReturns(s, synced) ==
  /\ import[s].pc = "sync"
  /\ synced => db < MaxPunches
  /\ db' = IF synced THEN db + 1 ELSE db
  /\ import' = [import EXCEPT ![s].pc = "summary", ![s].synced = synced]
  /\ UNCHANGED <<jobs, check, summaryJob, punch, qr, cache, everUsers>>

\* Back in the loop: the budget is replenished, and the summary read ...
ImportReads(s) ==
  /\ import[s].pc = "summary"
  /\ retryCount' = 0 /\ failures' = 0
  /\ import' = [import EXCEPT ![s].pc = "cache", ![s].summary = db]
  /\ UNCHANGED <<running, firstSucceeded, retries, backfillStored, importsStarted,
                 check, summaryJob, punch, qr, db, cache, everUsers>>

\* ... or not: then nothing is cached or broadcast.
ImportReadFails(s) ==
  /\ import[s].pc = "summary"
  /\ retryCount' = 0 /\ failures' = 0
  /\ firstSucceeded' = (firstSucceeded \/ import[s].synced)
  /\ import' = [import EXCEPT ![s] = NoImport]
  /\ UNCHANGED <<running, retries, backfillStored, importsStarted,
                 check, summaryJob, punch, qr, db, cache, everUsers>>

\* The summary goes into the cache; a broadcast is awaited if there is news.
ImportCaches(s) ==
  /\ import[s].pc = "cache"
  /\ cache' = [cache EXCEPT !.summary = import[s].summary]
  /\ import' = IF import[s].synced THEN [import EXCEPT ![s].pc = "broadcast"]
                                   ELSE [import EXCEPT ![s] = NoImport]
  /\ UNCHANGED <<jobs, check, summaryJob, punch, qr, db, everUsers>>

\* Only an import that brought records disarms the start-up retries.
ImportEnds(s) ==
  /\ import[s].pc = "broadcast"
  /\ firstSucceeded' = TRUE
  /\ import' = [import EXCEPT ![s] = NoImport]
  /\ UNCHANGED <<running, retryCount, failures, retries, backfillStored, importsStarted,
                 check, summaryJob, punch, qr, db, cache, everUsers>>

-----------------------------------------------------------------------------
(* The status-and-time check, every 5 minutes. *)

CheckFires ==
  /\ running /\ check = "idle"
  /\ check' = "reading"
  /\ UNCHANGED <<jobs, import, summaryJob, punch, qr, db, cache, everUsers>>

\* Mutant: a failed read of the time leaves the last one in the cache.
CacheCheckKeepingTime(status, time, users) ==
  cache' = [cache EXCEPT !.status = status,
                         !.users = IF users = "failed" THEN @ ELSE users,
                         !.time = IF time = "ok" THEN time ELSE @]

CacheCheck(status, time, users) ==
  cache' = [cache EXCEPT !.status = status,
                         !.users = IF users = "failed" THEN @ ELSE users,
                         !.time = IF time = "drifted" THEN @ ELSE time]

\* get_status_and_time answers.  If the op failed every part of it failed;
\* otherwise the time and the users can fail on their own.
CheckReturns(status, time, users) ==
  /\ check = "reading"
  /\ status = "down" => time = "failed" /\ users = "failed"
  /\ CacheCheck(status, time, users)
  /\ everUsers' = (everUsers \/ users = "list")
  /\ check' = IF time = "drifted" THEN "syncing" ELSE "idle"
  /\ UNCHANGED <<jobs, import, summaryJob, punch, qr, db>>

\* sync_time answers.
SyncReturns(ok) ==
  /\ check = "syncing"
  /\ cache' = [cache EXCEPT !.time = IF ok THEN "ok" ELSE "failed"]
  /\ check' = "idle"
  /\ UNCHANGED <<jobs, import, summaryJob, punch, qr, db, everUsers>>

-----------------------------------------------------------------------------
(* The attendance summary. *)

\* The 5-minute job reads the summary in a thread ...
SummaryRead ==
  /\ running /\ summaryJob = Unread
  /\ summaryJob' = db
  /\ UNCHANGED <<jobs, import, check, punch, qr, db, cache, everUsers>>

\* Mutant: an entry that is there is left alone.
SummaryCachedOnce ==
  /\ summaryJob # Unread
  /\ cache' = IF cache.summary = Unread THEN [cache EXCEPT !.summary = summaryJob] ELSE cache
  /\ summaryJob' = Unread
  /\ UNCHANGED <<jobs, import, check, punch, qr, db, everUsers>>

\* ... and caches it.
SummaryCached ==
  /\ summaryJob # Unread
  /\ cache' = [cache EXCEPT !.summary = summaryJob]
  /\ summaryJob' = Unread
  /\ UNCHANGED <<jobs, import, check, punch, qr, db, everUsers>>

\* The session thread has stored a punch and reads the summary ...
Punch ==
  /\ punch = Unread /\ db < MaxPunches
  /\ db' = db + 1
  /\ punch' = db'
  /\ UNCHANGED <<jobs, import, check, summaryJob, qr, cache, everUsers>>

\* ... and caches it.
PunchCached ==
  /\ punch # Unread
  /\ cache' = [cache EXCEPT !.summary = punch]
  /\ punch' = Unread
  /\ UNCHANGED <<jobs, import, check, summaryJob, qr, db, everUsers>>

\* A QR check-in commits; until it returns no coroutine runs, threads do ...
QrCheckIn ==
  /\ ~qr /\ db < MaxPunches
  /\ db' = db + 1
  /\ qr' = TRUE
  /\ UNCHANGED <<jobs, import, check, summaryJob, punch, cache, everUsers>>

\* ... and it invalidates the cached summary.
QrInvalidates ==
  /\ qr
  /\ qr' = FALSE
  /\ cache' = [cache EXCEPT !.summary = Unread]
  /\ UNCHANGED <<jobs, import, check, summaryJob, punch, db, everUsers>>

\* shutdown(wait=False): nothing fires any more, what runs goes on.
SchedulerShutdown ==
  /\ running
  /\ running' = FALSE
  /\ UNCHANGED <<firstSucceeded, retryCount, failures, retries, backfillStored, importsStarted,
                 import, check, summaryJob, punch, qr, db, cache, everUsers>>

-----------------------------------------------------------------------------
ImportStep(s) ==
  \/ ImportRaises(s) \/ \E synced \in BOOLEAN : ImportReturns(s, synced)
  \/ ImportReads(s) \/ ImportReadFails(s) \/ ImportCaches(s) \/ ImportEnds(s)

\* What threads do, whatever the loop is busy with.
WorkerStep ==
  \/ \E s \in Slots, synced \in BOOLEAN : ImportReturns(s, synced)
  \/ SummaryRead \/ Punch \/ PunchCached

LoopStep ==
  \/ \E s \in Slots :
       \/ IntervalFires(s) \/ RetryFires(s) \/ OnDemand(s) \/ BackfillFires(s)
       \/ ImportRaises(s) \/ ImportReads(s) \/ ImportReadFails(s)
       \/ ImportCaches(s) \/ ImportEnds(s)
  \/ RequestBackfill
  \/ CheckFires
  \/ \E status \in {"up", "down"}, time \in {"ok", "failed", "drifted"},
        users \in {"list", "failed"} :
       CheckReturns(status, time, users)
  \/ \E ok \in BOOLEAN : SyncReturns(ok)
  \/ SummaryCached \/ QrCheckIn
  \/ SchedulerShutdown

SchedulerNext == WorkerStep \/ (~qr /\ LoopStep) \/ QrInvalidates

SchedulerSpec == SchedulerInit /\ [][SchedulerNext]_schedulerVars

\* The loop and the threads run; the 5-minute summary job fires again and again.
SchedulerFairness ==
  /\ WF_schedulerVars(SummaryRead) /\ WF_schedulerVars(PunchCached) /\ WF_schedulerVars(QrInvalidates)
  /\ WF_schedulerVars(~qr /\ SummaryCached)
  /\ \A s \in Slots : WF_schedulerVars(~qr /\ ImportStep(s))

FairSchedulerSpec == SchedulerSpec /\ SchedulerFairness

-----------------------------------------------------------------------------
(* Properties. *)

SchedulerTypes ==
  /\ running \in BOOLEAN /\ firstSucceeded \in BOOLEAN /\ backfillStored \in BOOLEAN
  /\ retryCount \in 0 .. RetryBudget /\ failures \in Nat /\ retries \in 0 .. MaxImports
  /\ import \in [Slots -> [kind : Kinds, pc : {"idle", "sync", "summary", "cache", "broadcast"},
                           synced : BOOLEAN, summary : 0 .. MaxPunches]]
  /\ check \in {"idle", "reading", "syncing"}
  /\ summaryJob \in -1 .. MaxPunches /\ punch \in -1 .. MaxPunches
  /\ qr \in BOOLEAN /\ db \in 0 .. MaxPunches
  /\ cache \in [status : {"none", "up", "down"}, time : {"none", "ok", "failed"},
                users : {"none", "list"}, summary : -1 .. MaxPunches]
  /\ everUsers \in BOOLEAN /\ importsStarted \in 0 .. MaxImports

\* The list of the reader's users, once read, stays: no failed check, no half
\* failed check and no refused connection takes it away from the pages.
UsersSurviveFailedChecks == everUsers => cache.users = "list"

\* The pages never show the good time of a reader that is shown as
\* disconnected: both entries come from one connection window, through checks
\* that fail as a whole or in part and re-synchronisations that fail.
TimeOnlyOfConnectedReader == cache.time = "ok" => cache.status = "up"

\* What the pages read from the cache: the two above, and the types.
CacheIsCoherent == SchedulerTypes /\ UsersSurviveFailedChecks /\ TimeOnlyOfConnectedReader

\* Before the first import that brought records, "a device outage gets fast
\* retries" (background_scheduler.py:437-441): until more imports in a row have
\* failed than the budget holds, one of them is on its way.  It is in the store
\* or already reading the reader, however many scheduled, manual and retried
\* imports fail at once, spend the budget together or share a job's id.
FastRetriesGoOn ==
  running /\ ~firstSucceeded /\ failures \in 1 .. RetryBudget =>
    \/ retries > 0
    \/ \E s \in Slots : import[s].kind = "retry" /\ import[s].pc \in {"sync", "summary"}

\* Writers read the summary and cache it in two steps, so an older summary can
\* overwrite a newer one; but once punches stop, the cache shows the last.
SummaryConverges ==
  \A v \in 0 .. MaxPunches : <>[](running /\ db = v) => <>[](cache.summary = v)

=============================================================================
