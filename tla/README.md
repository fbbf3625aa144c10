# Verification of the fingerprint time logger

TLA+ models of the program in this repository, the TLC configurations that check
them on small instances, and theorems about them that TLAPS checks for every
value of the constants. Paths below are relative to the repository.

| component | modules | instance | proofs |
|---|---|---|---|
| attendance ingestion | `PunchIngest` | `MCPunchIngest`, `ingest.cfg` | `PunchIngestProofs` |
| reader session thread and op queue | `OpService` (promise), `ZkSession` (code) | `session.cfg` | `ReaderServiceProofs` |
| dashboard broadcasts | `ConnectionManager` | `MCConnectionManager`, `ws.cfg` | `ChannelProofs` |
| sync notifier | `SlackNotifier` | `slack.cfg` | `ChannelProofs` |
| background scheduler, device cache | `BackgroundScheduler` | `sched.cfg` | `ReaderServiceProofs` |
| staff leave | `StaffLeave` | `MCStaffLeave`, `leave.cfg`, `leave_cancelrace.cfg` | `StaffProofs` |
| sign-in: HF ID, hand-off, kiosks, LINE login | `OneTimeTicket` (promise), `Directory` ← `HfId` ← `LineHandoff`, `ReaderStation`; composed in `SignIn` | `MCSignIn`, `signin.cfg` | `SignInProofs` |
| employees, linking, onboarding, menus | `AttemptLimit` ← `Employees` ← `RoleMenu` ← `MenuSync` ← `Registry` | `MCRegistry`, `registry.cfg` | `RegistryProofs` |
| attendance pages, schedules, QR check-in | `WorkSchedule` ← `AttendanceDay`, `QrCheckIn`; composed in `Attendance` | `MCAttendance`, `attendance.cfg` | `AttendanceProofs` |
| staff bot and family report | `SlotMarks` ← `PhotoDesk` ← `ReplyDebouncer` ← `FamilyReport` ← `StaffBot` | `MCStaffBot`, `staffbot.cfg` | `StaffProofs` |
| releases and administrators | `Deployment`, `AdminAccess`; composed in `Operations` | `MCOperations`, `operations.cfg` | `OperationsProofs` |

`A ← B`: `B` extends `A`. Run `tlc -config X.cfg MCY.tla` for a configuration (the
module itself where there is no instance: its constants are all given in the
configuration), `tlapm YProofs.tla` for the proofs. A module of proofs that serves two
components extends both, so three components name their specifications apart
(`SchedulerSpec`, `NotifierSpec`, `BotSpec`); `Spec` is the other's.

## 1. The system

One FastAPI process serves the dashboard, the QR check-in, the LINE bot, the
sign-in of other services and the pages of the administrators; it owns the single
TCP session of a ZKTeco K40 fingerprint reader and a SQLite database. Three kinds
of concurrency meet in it: the coroutines of the event loop, worker threads
(`asyncio.to_thread`, synchronous endpoints, menu tasks, the refresher of the
manager directory), and the session thread that talks to the reader. Around it,
containers of a release migrate the database and reconcile LINE's menus.

### Components, their state and their operations

**Attendance ingestion** (`app/services/zk_session.py`).
State: the table `attendance_records` with its unique constraint (badge, stamp,
punch byte), the reader's log in flash, `_needs_catch_up`.
Operations: `_handle_punch` (live event: check, insert), `_catch_up` (session
thread, before it streams), `catch_up_now` (import job, sync API, full or
incremental), all three through `_reconcile_attendance`, which reads a look-back
floor from the newest row and then checks and inserts record by record.
Hard: two writers between check and insert, punch bytes that differ between the
two protocols, a watermark that moves while scans are missing, clocks that are
ahead, evictions and refused connections, a device that is switched off.
Correct when: no scan is recorded twice; a missed scan stays within reach of the
next pass; a disruption leaves the catch-up armed; every scan gets its row.

**Reader session thread and op queue** (same file).
State: `_started`, `_shutdown`, the queue and the futures of its ops, the
connection, two back-offs.
Operations: `submit` with its time-out, `_run` (stream, eviction, back-off, ops
phase), `_drain_op_queue`, `_fail_queued_ops`, the one-shot fallback, `shutdown`.
Hard: a caller that timed out has not cancelled its op; a shutdown between the
check of `_started` and the put; ops that must end the stream.
Correct when: ops run in order and at most once, nothing runs after its caller
was told the reader is unreachable, one connection at a time, every op answered.

**Dashboard broadcasts** (`app/main_unified.py`).
State: `active_connections`. Operations: `connect`, `disconnect`, `broadcast`.
Hard: `broadcast` iterates the live list and awaits inside the loop.
Correct when: nobody gets a message twice, nobody who is served loses its place,
nobody who left keeps one, and nobody is passed over unless the list shrank.

**Sync notifier** (`app/services/slack_notifier.py`).
State: the streak, whether it was paged, instants of the last page, note and
heartbeat, the commit counter `_commit_gen`.
Operations: `notify_success`, `notify_failure`, `notify_degraded`; each commits
before it sends and rolls back when the post fails and nothing newer committed.
Hard: the roll-back, also of a post that Slack took and whose answer timed out; two
lock regions in `_handle_success`.
Correct when, as far as Slack answers: pages are confirmed and spaced, a paged
outage gets its recovery, one heartbeat a day.

**Background scheduler and device cache** (`background_scheduler.py`,
`device_cache_service.py`).
State: the job store, `_first_import_succeeded`, `_startup_retry_count`, four
cache entries. Operations: the import with its retries, the manual backfill, the
status-and-time check, the summary job, and the two writers of the summary
outside it (`_handle_punch`, the QR check-in's invalidation).
Hard: reads in threads, writes in the loop; partial failures of a check.
Correct when: users survive failed checks, no good time of a disconnected
reader, a failed import keeps a fast retry on its way, the cached summary converges.

**Staff leave** (`staff_leave.py` with `staff_leave_options.py`,
`staff_leave_manage.py`, `staff_leave_roster.py`, `api/leaves.py`).
State: requests with a version, reserved days, roster rows, certificates, the
switch of automatic approval.
Operations: submit (full and half day), decide, automatic approval, cancel, edit,
attach a certificate, roster write, roster delete.
Hard: every handler reads, then writes later under a condition; a half day takes
two commits; the roster page changes what a request rests on.
Correct when: exactly approved requests mark the employee off, reserved days
follow requests, decisions are final, long sick leaves are certified.

**Sign-in** (`oidc_service.py`, `api/oidc.py`, `line_handoff_store.py`,
`api/line_auth.py`, `line_auth_service.py`, `api/reader.py`).
State, all in memory: login tickets, authorization codes and access tokens;
LINE states; hand-off tickets, the count of parked long polls; taps, claims,
self-login and elevate tickets.
Operations: authorize, login (directly, by hand-off, from a kiosk), the LINE
callback, take, the long polls, claim, self-login, `/token`, `/userinfo`.
Hard: the callback awaits LINE twice; a login is loaded several times; polls end
by answer, time-out or error; everything expires at any moment.
Correct when: each ticket has one answer, handed over once; a login ends in one
session of a person who came back from LINE for it, a tap in one sign-in; poll
slots are given back; what was resolved reaches the poll that waits for it.

**Employees, linking, onboarding** (`admin_employees.py`, `admin_onboarding.py`,
`public_onboarding.py`, `admin_line_codes.py`, `consolidated_employees.py`,
`badge_service.py`, the linking half of `line_auth.py`).
State: the table `employees` and the rows of other tables that hang on a badge;
failed link attempts, lock-outs, applications, failures by code.
Operations: create, upsert, (de)activate, card, grants, generate and regenerate a
code, link, unlink, apply, approve, reject, merge and rename.
Hard: a merge moves the rows of some tables and deletes the rest's owner; badges
of rejected applicants are given again; three windows govern the attempts.
Correct when: every scan keeps an employee, an account, code or card belongs to
one, no window lets one attempt too many through.

**Menus of the staff account** (`staff_oa_provision.py`, `staff_oa_menu.py`,
`staff_oa_service.py`, `scripts/staff_oa_sync.py`).
State: LINE's menus, which account has which; tasks and a sweep under way.
Operations: the task (read the employee, list, create, upload, link or unlink),
the hourly reconcile, `follow`, the script of a deployment.
Hard: a task reads once and talks to LINE for seconds; calls fail half-way; the
script deletes what it has no use for.
Correct when: grants that come to rest end in their menu.

**Attendance pages and schedules** (`consolidated_attendance.py`,
`shift_service.py`, `shifts.py`, the schedules in `consolidated_employees.py`, and
`staff_leave_options.py`, which replaces the pages' row functions when it is imported).
State: punches, holidays, leave, the row's role and shift, schedule versions,
assignments. Operations: those that change them; the by-date page and the monthly
page are functions of them and of the clock.
Hard: nights across midnight and the month's edges, early and late punches,
windows of neighbouring shifts, a row and versions that tell one story twice, half
days of leave.
Correct when: both pages agree, later changes leave history alone, a day that is
over does not change by itself.

**QR check-in** (`qr_checkin.py`, `qr_service.py`, `location_service.py`,
`static/js/qr-terminal.js`).
State: the token on the screen, its expiry, the terminal's timer. Operations:
fetch, show, scan, submit. Hard: slow fetches, a terminal whose clock is late.
Correct when: the code on the screen is accepted.

**Staff bot** (`staff_bot.py`, `api/staff_oa.py`, `staff_leave_family_report.py`,
`guest_feedback_client.py`).
State: slot marks (database), the photo buffer, attach windows, pending replies
(memory), pictures under upload, feedback and leave still to be reported.
Operations: webhook events, the debouncer's `pop_due`, a reply from reading the
digest to LINE's answer, marking, confirming, uploads, a restart.
Hard: claims that go stale, answers that get lost, uploads in threads beside
claims, reply tokens that serve once, a crash between post and mark.
Correct when: a slot has one report unless an outcome was lost, what is checked
off was posted (of feedback: as far as the section has lines), a picture goes to one order, replies come out.

**Administrators** (`admin_auth.py`, `admin_auth_service.py`,
`cf_access_service.py`, `admin_identity.py`, `manager_directory.py`).
State: sessions, failed attempts by address, the cached list of managers.
Operations: login, validate, log out; identify, refresh.
Hard: outages of the directory, empty answers, the edges of the window.
Correct when: a list that stays is what is applied, attempts are limited.

**Releases** (`deploy_backup.py`, `migrations/env.py`, `post_deploy.py`,
`scripts/post_deploy.py`, `deployment_ready.py`).
State: the schema, snapshots, `.migration.lock`, the marker of the post-deploy
job, the cached verification. Operations: the gate (lock, look, copy, rename,
migrate, stamp), the start of the application, the job, the probe.
Hard: crashes between the steps, a second process at the gate, runs of one commit.
Correct when: a changed schema has a restore point from before the change, a
release comes up, what was called ready was ready.

Not modelled, and why: section 6.

### How they interact

The session thread hands each punch to `_handle_punch`, which stores it
(`PunchIngest`), refreshes the cached summary (`BackgroundScheduler`) and
schedules a broadcast (`ConnectionManager`). The scheduler's import submits an op
to the session thread (`ZkSession`), reconciles in its own thread
(`PunchIngest`), caches and broadcasts. Its status check submits another op,
fills the cache and tells the notifier (`SlackNotifier`). A QR check-in
(`QrCheckIn`) writes to the same table and drops the cached summary. Leave
requests and the roster page share `employee_leaves` (`StaffLeave`), which the
attendance pages (`AttendanceDay`) read and the family report (`FamilyReport`)
announces. Sign-ins read the employees (`Directory` in `SignIn`, what `Registry`
changes). Changes of grants, links and approvals start menu tasks (`Registry`);
the post-deploy job (`Deployment`) runs the script (`MenuSync`) beside them. The
restart of the application empties what `AdminAccess` keeps (`Operations`).

The modules meet at these calls: `ZkSession` leaves the database to `PunchIngest`,
which keeps of the session thread only its phases; `BackgroundScheduler` takes
what an import returns as given; `AttendanceDay` takes leave and punches as rows
that come and go; `SignIn` lets an administrator change the standing and grants
of an employee between any two steps.

## 2. How state and actions correspond to the code

Common rules. A step is what no other actor can interrupt: code between two
awaits on the loop, a region under a lock, one database statement or transaction
in a thread. A history variable is named as such where it is declared; no
action's guard reads it, except that `Tick` of `PunchIngest` reads `lastPass` when
`ImportsKeepUp` is set. Every bound (`Max...`, `budget`, `plan`) stands in the
guard of the action it limits. A module that composes many operations takes a set
of budgets or plans, one of which each behaviour has from `Init` on: the scenes
named in its MC module. Expiry is an action of its own (`...Lapses`) where its
length does not matter, so that it may come at any moment, and a clock where it
does. Operators marked *Mutant* are variants used to show that a property can
fail; nothing refers to them.

`PunchIngest`. `flash` is the reader's log, `rows` the table, `worker[w]` the
locals of `_reconcile_attendance` in a thread, `phase` what the session thread
does, `rt` the scan `_handle_punch` has checked and not yet inserted. `Fetch`,
`ReadFloor`, `Check`, `Insert` and `Finish` are the statements of a pass;
`HandleCheck`, `HandleCommit` those of the live path; `Commit` has the unique
constraint and swallows the conflict as the code does. `Abort`, `HandleFail`,
`Kick` and `ConnectFail` are the error paths. `device` is whether the reader has an
active row in `devices`; `NoDevice` is a pass that finds none. Time is coarse: a unit is
a part of the 48 h look-back. A QR stamp has microseconds and never equals the reader's.

`ZkSession`. `pc` is the place in `_run`; one action per phase and per outcome.
`submit` is `Submit` (reads `_started`) and `Put`. Waits have no length: any wait
may end, for its time or for the event. `OpService` is what callers are promised.

`ConnectionManager`. `task[b]` holds the locals of a `broadcast()`: Python's list
index and the awaited client. `Pick` looks at the list again for every element;
`lost` are the clients the list lost while the broadcast ran (a history).

`SlackNotifier`. A decision under `_lock` is a step, the post another that is
`PostTaken` or `PostLost`. `PostLost` is the roll-back, which the code does whenever
`_send` returns `False`: when Slack never saw the message, and when it took the message
and the answer timed out. `log` is what Slack took, with `answered` for whether the
caller learnt of it.

`BackgroundScheduler`. `SchedulerNext` lets loop steps run only while no QR check-in has
the loop (`qr`); threads run always. APScheduler is external: `max_instances=1`
per id, and a one-shot job leaves the store when submitted to run.

`StaffLeave`. A handler reads (`Read...`: guards on what is committed, locals into
`job[w]`) and later writes in one transaction whose WHERE clause is checked
again; the UPDATE of an edit has none but the id. `stray` (a history) are the requests
an edit wrote over although they had changed since it read them. What a write makes of a row is an operator of its own (`Decided`, `Edited`,
`Certified`, ...). `Dies` is a handler that never commits. `auto` is the environment's switch,
which the code reads at every submission. "am" and "pm" are one portion.

`Directory`, `HfId`, `LineHandoff`, `ReaderStation`, `SignIn`. Records are kept in
sequences in the order they were made, with a status; a record that expired and
one that was pruned are alike, for no code tells them apart. The handlers of
`oidc.py` await nothing and are one step. In `SignIn` the LINE callback is two:
`Callback` consumes the state, `Continue` acts on it after LINE has answered, on
whatever the other modules hold by then; `ExchangeFails` is its error path. A long
poll is `StartWait`, then `Collect` (with or without an error) or `WaitTimesOut`, which
give the slot back; a lost connection is told to nobody. `given`, `asserted`, `signedIn` are histories.
`OneTimeTicket` has four states: unused, pending, one of the answers, gone.

`AttemptLimit`, `Employees`. A handler reads and commits without an await, so it
is a step. `emp[b]` is the row; `child` the rows of the tables that refer to a
badge. `Merge` is a rename when the new badge is free and a merge
into its employee when it is not; rows that break a constraint undo it. An attempt is
its instant and how many came before it, so that a list of them is a set;
`failed` is the list that is pruned, `failures` the history.

`RoleMenu`, `MenuSync`, `Registry`. `task[t]` is where a task's thread is and what
it read; each call to LINE is a step that may fail. `channel` and `menu` are LINE's
side (external). `MenuSync` is the loop of `sync(apply=True)`.

`WorkSchedule`, `AttendanceDay`. Times are minutes. `EffectiveShift` is
`resolve_shift`, `ByDate` the row of the by-date page, `MonthDay` that of the
monthly page from what it fetched (`Fetched`), each translated from its own code as
`staff_leave_options.install` wraps it: a half day of leave is passed on as no leave.
`Halves` is `recount_monthly_day_totals`, counted in halves of a day.
`QrCheckIn`: a code is its expiry; seconds are the server's, and `RefreshAt` is the
terminal's timer by a clock that may be late.

`SlotMarks`, `PhotoDesk`, `ReplyDebouncer`, `FamilyReport`, `StaffBot`. An event is
one step; a due reply (`PopDue` takes all that are due and the drain loop waits for
them) goes through `Read`, the order and its pictures, `ReadLeaves`, `DecideReport`,
`Send`, `NoteLeaves`, `NoteSlot` and `NoteFeedback`, between which other chats,
uploads and events run. `SendUnanswered` is a reply that LINE took and whose
answer was lost. `Restart` empties memory and leaves the database. `seen` is what the
group has seen; of feedback, `shown` had a line and `cut` was only counted in "and so many
more" although it is confirmed with the rest. `lost` counts the posts whose outcome was not
noted and, as `late`, the slots that were taken over from a report that was only slow.
How long a reply takes is a bound of its scene (`reply`).

`Deployment`, `AdminAccess`, `Operations`. `proc[p]` is where a process (the
application, a migration by hand) is: before the gate, at its steps
(`look`, `copy`, `rename`, `migrate`, `stamp`), or serving. `Crash` ends it anywhere and frees the file
lock. `DirectoryAnswers` is what the directory says when asked, `Learn` what the
thread makes of it later. `Forget` is the restart of the application.

## 3. The runs

Eleven configurations must finish without an error; one must find a violation.

| run | shows | bounds |
|---|---|---|
| `ingest` | `NoScanRecordedTwice`, `MissedScanStaysAboveFloor`, `SweepHealsMissedScans`, `DisruptionArmsCatchUp` and, under fairness, `EveryScanIsStored`; `TypeOK` | a known and an unknown badge, importer and session thread, 2 scans, reader's clock right or ahead by more than is accepted, one or two punch bytes for a scan, look-back 2, instants 1-3 (1 556 726 states, 3.5 min), 2 faults or switches of the device, 3 events |
| `session` | `SessionsAreExclusive`, `AcceptedIsAnswered`, `ShutdownEndsThread`; `ServesOps`: the thread implements `OpService` | 3 ops, 2 faults, back-offs that reach their cap |
| `ws` | `RegistryMatchesEndpoints`: who is served is registered, who left is not. `BroadcastsAreExact`: nobody twice, nobody passed over unless somebody left | 3 clients, 2 broadcasts |
| `slack` | `ChannelIsNotFlooded`: answered pages and notes spaced, one heartbeat a day. Of callers one after the other also `PagesAreConfirmed`, `RecoveryIsOwed` | 2 callers, 5 calls over 4 instants (2 days of 2), suppression 2, 2 failures to a page (12.2 million states, 2.6 min) |
| `sched` | `CacheIsCoherent`, `FastRetriesGoOn`, `SummaryConverges` | 2 overlapping imports, 3 in all, retry budget 2, one record (2.1 million states, 3.5 min) |
| `leave` | `LeavesAgree`: roster rows and reserved days follow the requests. `LongSickIsCertified`, `DecisionsAreFinal` | 2 requests, 3 days, 2 handlers, 6 calls, the switch flipped between calls; edits overlap too (`MCOverlapping`; 3.1 million states, 2.2 min) |
| `signin` | `SlotsAreCounted`, `OneSessionPerSignIn`, `ResolvedIsCollected`; `TicketsAreOneTime`: three stores implement `OneTimeTicket` | 2 people, 2 hand-off tickets, 2 poll slots; three scenes |
| `registry` | `ScansKeepTheirEmployee`, `TriesAreLimited`, `MenusConverge` | 4 badges, 2 accounts, 2 codes, one card, one app granted at a time, 6 instants of attempts, 2 menu threads and the sweep; eight scenes |
| `attendance` | `PagesAgree`, `HistoryStands`, `DaysSettle`, `ShownIsAccepted` | 5 days of which 3 are the month, night, morning and normal shifts, whole and half days of leave, up to 4 changes; tokens of 6 s with 3 s of grace, fetched 2 s before, fetches of up to 3 s, a clock 2 s late, 16 s; four plans |
| `staffbot` | `PostedOnceUnlessLost`, `CheckedOffWasPosted`, `PhotosFollowReports`, `RepliesComeOut` | 2 people, a group and private chats, 2 slots of 9 and 8 units, a claim stale after 4, 2 items of feedback with a line for one, 2 leaves, 2 pictures; one restart, one fault, replies of up to 5 units; seven scenes; a unit is about 25 s (287 842 states, 1.3 min) |
| `operations` | `ReleasesAreBackedUp`, `ReleaseComesUp`, `ManagersAreFollowed`, `LoginsAreLimited` | 3 releases of 2 commits, 2 faults, one migration by hand; 2 e-mails, 2 edits, one outage; 2 addresses, 4 failed logins over 3 instants; five plans |
| `leave_cancelrace` | violation: section 5, 1 | 2 handlers, 4 calls |

Why the bounds are enough for the questions asked.

- A duplicate row needs one scan and two writers, and two protocols that differ.
  The floor can overtake a scan only if a younger row lifts it there: a scan of instant 1
  without a row, a row of instant 3 and a look-back of 2 put the floor at 1, the stamp of
  the scan itself. That is what `Tick` may not let happen and what `ImportsKeepUp` is
  for; a look-back one unit short (`FloorsTooHigh`) or a floor that is not capped at now
  (`FloorsUncapped`) loses the scan in this run. One fault loses a scan and one fails its
  catch-up, or switches the device off before it.
  A queue can reorder with two ops and lose one behind a third.
- A shifted list needs two clients, a clean-up that hits the wrong one a third.
  Spaced pages need two pages, a roll-back and a success between them, with instants
  below and at the suppression time. A chain of retries needs a budget of two and a third
  import beside a retry. Overlapping stale summaries need an import beside the job, the
  punch and the check-in.
- A roster with days removed one by one needs a request of two days and a neighbour
  that wants them. Six calls file both, decide both and change both again.
- An answer given twice needs two tabs, a ticket given to the wrong login a second
  ticket; a leaked slot shows with two slots. Two people who scan one QR code and a
  tap beside them are what a kiosk can confuse.
- A merge needs an employee, its rows and a second one; a badge given again a
  rejected applicant and the next. The limit in a window is broken by one try more
  than it, at any of the six instants, past the retention of failures. Menus need a
  change of grants under a task, a second task and the sweep, with two failures for
  a lost upload and a lost removal.
- A night at either end of a month needs the day before it, the day after it and
  the middle; days 0 to 4. Fetches three seconds long and a clock two seconds late
  exhaust what the lead of two and the grace of three seconds allow.
- A second report of a slot needs a restart or a fault after the post, and time for
  the claim to go stale: a claim filed at the start of a slot (9 units, 8 the other) is
  stale after 4, with as much of the slot left. The run reaches a second report after a
  restart and after a failed write of the mark, a third, and a duplicate of a report that
  was alive and slow. Two items of feedback for one line show the cut. A picture can go astray between a buffer, a claim and a
  window: two pictures, two reports.
- Two crashes stop a release at any two places of the gate; two runs of one commit
  and one of an older cover the names a snapshot may have. The window of failed
  logins is crossed with three instants.

`CHECK_DEADLOCK FALSE` stands where the system may stop: after a shutdown, or when
the bounded calls, clients, scenes are used up. `PunchIngest` never deadlocks.
Symmetry is used in runs without liveness only, over values that no definition
tells apart.

Fairness.

- `PunchIngest`: the live handler, a connection attempt, a pass once started and the
  end of an ops phase are weakly fair (the thread never blocks for ever: every wait
  in `_run` has a time-out); the end of the stream for an op and the fetch of an
  import are strongly fair, because the 30-minute job queues an op again and again
  and a queued op ends the stream.
- `ZkSession`: the thread and a caller inside `submit` go on; nobody has to submit or
  to shut down.
- `BackgroundScheduler`: the summary job fires again and again, threads and
  coroutines finish, a QR check-in returns.
- `SignIn`: a parked poll looks again after each sleep until its deadline. Nothing
  makes a person sign in or a browser poll.
- `Registry`: threads run, the hourly job comes round and goes through everybody, the
  script goes on. Each call to LINE has a time-out, and the number of failures is
  bounded.
- `StaffBot`: the drain loop runs (its 1 s sleep), replies go on as their services
  answer or time out, time passes.
- `Operations`: compose restarts an application that ended, processes go on, the
  refresher thread asks again at its interval and is answered in the end.

Faults are never fair and are bounded, so they stop. Safety runs state none.

## 4. What is proved

Each theorem holds for every value of the constants that satisfies the named
assumption of the modules: sets of actors, badges, requests, runs and clients of any
size, any bound and length. TLC evaluates those assumptions in the run of the module
named after the proofs. Nothing is assumed without a name and nothing is left unproved;
three hypotheses stand beside the assumptions (`ImportsKeepUp`, `RacersAlone`,
`ShiftsFit`) and are explained below.

Every proof has the shape `Init => Inv`, `Inv /\ [Next]_vars => Inv'`, `Inv => P`, with
a lemma per action or group of actions. What follows is why `P` alone is not
inductive and what `Inv` adds.

| theorem | property |
|---|---|
| `PunchIngestProofs`: `TypeCorrect` | `TypeOK` |
| `FloorNeverOvertakes` (if `ImportsKeepUp`) | `MissedScanStaysAboveFloor` |
| `CatchUpStaysArmed` (if `ImportsKeepUp`) | `DisruptionArmsCatchUp` |
| `SweepHeals` (if `ImportsKeepUp`) | `SweepHealsMissedScans` |
| `ScansRecordedOnce` | `NoScanRecordedTwice` |
| `ReaderServiceProofs`: `SessionsStayExclusive` | `SessionsAreExclusive` |
| `SessionServesOps` | `ServesOps` (refinement of `OpService`) |
| `CacheStaysCoherent` | `CacheIsCoherent` |
| `FastRetriesHold` | `FastRetriesGoOn` |
| `ChannelProofs`: `RegistryStaysTrue` | `RegistryMatchesEndpoints` |
| `BroadcastsStayExact` | `BroadcastsAreExact` |
| `ChannelStaysCalm` | `ChannelIsNotFlooded` |
| `PagesStayConfirmed` | `PagesAreConfirmed` |
| `RecoveryStaysOwed` | `RecoveryIsOwed` |
| `StaffProofs`: `LeavesStayInAgreement` (if `RacersAlone`) | `LeavesAgree` |
| `LongSickStaysCertified` (if `RacersAlone`) | `LongSickIsCertified` |
| `DecisionsStay` (if `RacersAlone`) | `DecisionsAreFinal` (action property) |
| `ReportsStayPostedOnce` | `PostedOnceUnlessLost` |
| `CheckedOffStaysPosted` | `CheckedOffWasPosted` |
| `PhotosStayWithReports` | `PhotosFollowReports` |
| `SignInProofs`: `SlotsStayCounted` | `SlotsAreCounted` |
| `SessionsStaySingle` | `OneSessionPerSignIn` |
| `TicketsStayOneTime` | `TicketsAreOneTime` (three refinements of `OneTimeTicket`) |
| `RegistryProofs`: `ScansStayOwned` | `ScansKeepTheirEmployee` |
| `TriesStayLimited` | `TriesAreLimited` |
| `AttendanceProofs`: `CodeShownIsAccepted` | `ShownIsAccepted` |
| `PagesStayInAgreement` (if `ShiftsFit`) | `PagesAgree` |
| `HistoryStays` | `HistoryStands` (action property) |
| `DaysStaySettled` | `DaysSettle` (action property) |
| `OperationsProofs`: `ReleasesStayBackedUp` | `ReleasesAreBackedUp` |
| `LoginsStayLimited` | `LoginsAreLimited` |

### Ingestion (`IngestAssumption`)

That a missed scan lies above the floor now says nothing about the row a pass under
way will insert next. The argument for the first three properties goes through the last
completed pass (`IngestInv`):

1. `ClockInv`: the last pass that found an active device fetched less than a look-back
   ago (`ImportsKeepUp` and `Tick`). A pass that finds none completes nothing here.
2. `UnsweptInv`: an owed scan without a row is not older than the fetch of the
   last completed pass. This needs the same of a pass under way:
3. `SweptInv`: what a pass has gone through has a row or is no older than its
   fetch; `LaterInv`: so is what was logged after its fetch; `PassInv`: its floor
   is at most now minus the look-back, so it skips nothing that 2 leaves
   unstored; `QrApart`: a check-in's row never stands in for a scan's.
4. `FloorBound`: the floor of any later pass is at most now minus the look-back,
   so by 1 below the last fetch, so by 2 below every missed scan (`DueIsYoung`).
5. `PhaseInv`, `DroppedInv`: a scan in `dropped` without a row keeps `needs` up;
   only a session-thread pass clears it. That pass runs in a phase in which nothing
   is dropped, so its log holds every dropped scan, and by the end it has stored it;
   or it finds no active device and empties `dropped` with the flag.

`SweepHeals` adds `HealedInv`, what a pass has gone through so far has its rows; it
uses 4, because a scan below the floor would be skipped.

`ScansRecordedOnce` needs none of that and no hypothesis. Counting rows against scans
is not inductive, so the proof exhibits the matching (`MatchInv`): a one-to-one map
from the reader's rows to the scans of their badge and stamp, in which a scan that the
stream still has in hand has no row and one that a pass is about to insert has none
but its own. `LiveInv` says why a live insert extends the map: a scan is sent to the
stream once and is never in the part of the log that a pass under way fetched.
A pass's insert extends it or conflicts with the constraint.

### Session thread (`SessionAssumption`)

`ConnsInv` ties each connection to the phases of `_run` that may hold it, and the
one-shot connection to a shutdown. For the refinement, `OpService`'s `pending` is the
op in hand and the queue behind it. `QueueInv` (an op is in one place of the queue,
unanswered, and in none before its `Put`) makes each step the promised one or a
stutter: `Put` appends, the thread's answer takes the head, `_fail_queued_ops`
fails what waits.

### Background scheduler (`SchedulerAssumption`)

`SchedulerInv` adds two facts to the properties. The cached status is "up" while the
clock is being set again (`check = "syncing"`), which is what lets that step write a good
time; and no more retries wait in the store than imports were started and have failed,
which bounds the store for any number of slots.

`FastRetriesGoOn` says that a retry is waiting or at the reader; a retry that fails leaves
the store and the reader at once, so the next must have been scheduled by then, by it or by
another import. `ChainInv` adds what decides that: the budget spent is the number of
failures in a row, or the whole budget if they are more. Then a failure that is counted
within the budget finds some of it left, whatever other imports have spent meanwhile, and
its own retry or the one whose id it met is in the store. What ends the chain - a return,
a first success, a shutdown - also ends the property's claim.

### Broadcasts (`ManagerAssumption`)

`RegistryInv` needs that the list has no client twice and that only closed sockets
fail. `BroadcastInv` is about the index of Python's loop: whoever was sent to stands
before it, wherever removals have moved him, so nobody is visited twice; and while the
list has lost nobody since the start, everybody before the index was visited, so at
the end everybody was. `IncreasingPlaces` relates the list after a removal to the one before.

### Sync notifier (`NotifierAssumption`)

`ApartInv`. What a post that was answered promises must hold of the posts under way, any
of which may yet be answered, so `SpacingInv` states it of each such post (`Pending`) and of
the messages in `log`, for any number of callers. Distance is directional (`Apart`): an
answered message binds the ones that were decided upon after it (`gen`), while one that Slack
took without an answer binds none, since its roll-back makes the code forget it. `GensInv`
says that generations identify commits, so that of any two messages one came before.
The next decision is made from the three instants the state keeps (`lastFailureAt`,
`lastDegradedAt`, `heartbeatDate`), so `Remembered` ties every answered or pending message
to them: while an outage is paged the newest page's instant is there, otherwise every page of
this streak is a suppression time old. The roll-back is what could break this. `CommitsInv`
says of the newest commit, the only one a roll-back may touch, that its own writes stand
(`Stands`) and what they overwrote still remembers every other message (`Covers`).
`CountsInv` bounds the generations by the calls.

`PagesAreConfirmed` and `RecoveryIsOwed` need callers one after the other. `OneByOne`
then says where an outage whose page was answered is remembered at each moment: in `paged`, in
the recovery under way or in the page under way; and that `failures` exceeds the streak only
in an outage whose recovery is not answered or until the next good check has forgotten the
blip.

### Staff leave (`LeaveAssumption`, hypothesis `RacersAlone`)

`LeavesAgree` constrains what is committed; a handler writes later from what it read.
`ReadInv` ties the two: a version that is still current has the leave and the photo
that were read (the WHERE clauses compare versions and states), and a handler that runs
alone read the row as it is. An edit compares nothing, so what it read may be anything the
request has been: it is allowed to differ, and the request goes into `stray` when the
edit writes over it. `DayInv` is the agreement day by day, `CertificateInv` that a photo counts
for the dates it was sent for; both are about requests outside `stray`. That a stray request
disturbs no other rests on the keys: reserved days are taken only if free (`NotReserved`), and
whose row a roster day is says its note. `ReviewInv`, that nobody has reviewed what is still
open, is what lets a decision be told from what an edit writes: an edit touches neither the
verdict nor the reviewer.

`RacersAlone` lets filing, editing, deciding and sending certificates overlap in any number,
and cancelling too while automatic approval is off; half days, cancelling under
automatic approval and the roster page run alone. It is needed: section 5 lists what
each of these breaks beside another handler, and `leave_cancelrace` shows one of them. It is
also what the instance of `leave` has (`MCOverlapping`).

### Staff bot (`WindowAssumption`, `BotAssumption`)

`CheckedInv` carries "the group has seen it" (of feedback: in a line or cut from a full
section) through the replies that LINE has taken and that still have something to note
(`Seen`). `LeavesPosted` counts: a leave's picture was
posted no more often than outcomes were lost, plus once if the table or the reply under
way knows of it; leaves read into a reply are not reported until it has been sent,
because there is one group and it has one reply at a time.

For a slot the count is a balance: the reports the group has had, plus the one under way
that is not posted yet, less those whose outcome was lost and those that were taken for dead
while they were only slow (`Balance`); with a report that is still pending it is `Debt`.
`SlotOK` bounds the debt by one, and by zero when nothing stands in the way of another
report (`Claimable`: no mark, or a pending mark whose report is neither pending nor under
way). Each way a slot is opened again pays for itself: a failed post leaves the balance, an
unanswered one or a crash is counted in `lost`, a stale mark belongs to a report that is gone
(then the debt was zero) or to one on its way (then `late` counts it). No
assumption about how long a reply takes is needed; the comment at
`src/app/services/staff_bot.py:473-477`, that a live pending can never be that old, is not
used, because the code does not guarantee it (section 5).

`PhotoInv` follows a picture between a buffer, a claim that a reply holds, an upload and an
order: each pair excludes the other (`PhotoOnce`), and a claim, an upload for it and the
order it reaches have its sender and chat (`PhotoPlaces`). The claims held by replies are not in
the property; without them the step from the buffer to the upload, which is two, is lost.

### Sign-in (`TicketAssumption`, `HandoffAssumption`, `StationAssumption`, `DirectoryAssumption`)

`SlotInv`: `waiters` is the number of parked polls. A session has an owner who came
back for it because of a chain that crosses four modules: `ReturnInv` (a resolved
hand-off, and a code, name somebody who came back with it), `CodeInv` (a login that has
a code is closed and has no other), `TokenInv` (so has a code a token). `TapInv`: a tap
waits at one reader or was used. For the three refinements, the status of a record maps
to a ticket's state and `handed` to the answers given so far.

### Employees and limits (`EmployeesAssumption`, `LimitAssumption`)

`StaffInv` is `ScansKeepTheirEmployee` with types: a row goes only when no scan hangs
on it (`PutKeepsHolders`, and a lemma for each page and for rename, merge, reject).
For the limits, the list that is counted has been pruned, so the number on it is not the number
of attempts. `ListKept` says that nothing which can still count was pruned
(`Window <= Retention`) and that attempts are numbered in order, so the window that
ends at a new attempt held fewer than the limit before it; `LockKept` that whoever
reached the threshold has no failure until the lock-out is over.

### Attendance (`ScheduleAssumption`, `DayAssumption`, `QrAssumption`)

`PagesStayInAgreement`: the two pages fetch different punches and choose among them in
different ways. `WindowFetched` shows that the month has fetched every punch in a day's
window; `PresentAgrees` that who is late by the month came late with every punch, the
departures that the month does not look at included. Both need `ShiftsFit`: every
shift is longer than the stretch around its middle in which a punch's type decides, and
one over midnight ends at least the buffer before the next midnight. The code's own shifts satisfy
it; the API accepts hours that do not (section 5). `HoursInv` carries it from the plans to
every version and assignment.
`LeastNat` and `GreatestNat` show that `Least` and `Greatest` are what they say, by the
well-foundedness of finite subsets.

`HistoryStays` and `DaysStaySettled` follow from `AsOfStands` (a version that has begun is
chosen whatever later ones are) and from what `Tick` leaves alone.

`CodeShownIsAccepted`: that the code is good now does not say that it is good until the
next one is on the screen. `CodeInv` adds `DueInv`, that the next fetch is due the
length of a fetch before the expiry of the grace period, and `ClockInv`, that the clock
does not pass that time without a fetch under way, nor that fetch its longest length.
`RefreshInTime` shows that `RefreshAt` establishes `DueInv` even for a code that took
the longest to arrive; this is where `Delay + Skew <= Lead + GraceTime` and
`2 * Delay < Validity + GraceTime` are used. Without them the property is false.

### Releases and administrators (`DeploymentAssumption`, `NoneAssumption`, `AccessAssumption`)

`RestoreInv`: a restore point shows the schema before the first change of its run, and
the schema as it is while the run has changed nothing. It holds because only the process
that holds the lock is in the gate (`GateInv`) and because of where that process is with its copy
(`CopyInv`): a staging copy is renamed only if it shows the schema as it is.
`ProbeInv` is what the readiness probe may conclude. For the logins, `ListInv` and
`LimitInv` are the argument of the limits above with one list.

### Only model-checked

Every invariant and every action property that a passing run checks is proved. What is left:

- Liveness (`EveryScanIsStored`, `AcceptedIsAnswered`, `ShutdownEndsThread`,
  `SummaryConverges`, `ResolvedIsCollected`, `MenusConverge`,
  `RepliesComeOut`, `ReleaseComesUp`, `ManagersAreFollowed`): fairness and ENABLED are
  outside the prover's reach.
- `OnlyApprovedMarksOff` is violated by the code (section 5).

## 5. Where code and documentation differ

With a run:

1. `leave_cancelrace`: cancelled requests never mark the employee off
   (`src/docs/staff-leave.md:76`). A cancellation that read the request before its
   automatic approval committed leaves the approval's roster rows behind.

Seen while modelling, without a run of their own. Each is in the models as the code
has it unless it says otherwise; what does hold is the property named.

Ingestion, session, broadcasts, notifier, scheduler:

- Without an active device a catch-up returns 0 (`src/app/services/zk_session.py:636-638`),
  its caller clears `_needs_catch_up` as after a success (`:293`), and a live scan is skipped
  without arming it (`:486-494`). Scans of that time wait for the 30-minute import, as long
  as the look-back reaches; `DisruptionArmsCatchUp` lets such a catch-up give its
  scans up, and `EveryScanIsStored` claims their rows if the device comes to stay active.
- `src/app/core/config.py:31-35` promises that a missed punch heals on the next
  sweep. If no pass succeeds for the whole look-back and a live scan arrives first,
  the floor has passed the missed scan and only a full import finds it. The run
  and the theorems assume `ImportsKeepUp`.
- "A page is always paired with a recovery" (`src/app/services/slack_notifier.py:15-16`).
  When a second page of one outage cannot be posted, the roll-back clears `_paged`
  and the recovery of the first is never sent; `RecoveryIsOwed` is what holds.
- A post that Slack took and whose answer timed out is rolled back like one it never saw
  (`src/app/services/slack_notifier.py:428-441`). The same page, note or heartbeat may then be
  posted again within the suppression time, a page nobody learnt of gets no recovery,
  and after a recovery of that kind a single failure pages. `ChannelIsNotFlooded`,
  `PagesAreConfirmed` and `RecoveryIsOwed` are about the posts that were answered; the
  unanswered ones are in the run beside them.
- After `shutdown(wait=False)` (`src/app/main_unified.py:151`) a call can open a
  one-shot connection while the thread still has its own.
- `broadcast` passes over a connected client when another leaves during the loop
  (docstring, `src/app/main_unified.py:102`); `BroadcastsAreExact` is what holds.
- After the first import that brought records, no failed import is retried early,
  against the comment at `src/app/services/background_scheduler.py:437-441`. Before it,
  `FastRetriesGoOn` is what holds.
- A backfill requested while one runs is scheduled, then skipped, not answered
  `already_running` (`src/app/services/background_scheduler.py:203-206`).

Leave:

- The UPDATE of an edit names the request's id alone
  (`src/app/services/staff_leave_manage.py:240-264`). An edit that read the request before a
  manager's decision committed changes the dates, the portion, the version and the photo's
  standing of the decided request, which is "out of scope for editing"
  (`src/docs/staff-leave.md:14-16`); the roster keeps the days that were approved. One that
  read it before a cancellation reserves days for a cancelled request
  (`src/docs/staff-leave.md:121` says they are released). One that read it before a photo was
  attached leaves that photo beside new dates, and two edits at once write the same version.
  All four are in the run of `leave` and in the theorems: such a request is
  `stray`, `LeavesAgree` and `LongSickIsCertified` hold of every other one, and
  `DecisionsAreFinal`, that a verdict and its reviewer stay, of every one.
- A roster delete reads its row, deletes by key and acts on the note it read: a row
  approved in between goes without its request being told
  (`src/app/api/leaves.py:376`). Roster writes run alone in `leave`.
- A half day is filed in two commits. A crash in between leaves a full day (in the
  run); a manager's approval in between leaves a full day on the roster of a
  half-day request, so half days run alone.

Employees and menus:

- A merge into an existing employee moves scans and grants, and deletes schedules
  and assignments with the old row; a rename leaves leave requests under the old
  badge, although every child row is to be renamed
  (`src/app/api/admin_employees.py:270-271`).
- "Pending employees are always is_active=False" (`src/app/models/models.py:76-77`):
  the status page activates one without approving it.
- A rejected applicant's Q badge is given again, with the grants and leave its
  deletion left behind.
- Failed linking codes are counted by code, so strangers can use up an employee's.
- An employee who leaves must lose the menu (comment after
  `src/app/services/staff_oa_provision.py:150`). When the call fails, or a task that
  read the employee as active links after it, the menu stays for good: the hourly
  job goes through active employees only.
- The deployment's script deletes a menu that a task links at the same time, though
  the comment at `src/scripts/staff_oa_sync.py:313-316` reasons that deleting last is
  safe. The hourly job heals it. A menu whose upload and removal both failed stays
  without an image and later tasks keep choosing it, and so does one whose creation LINE carried
  out without its answer arriving (in the models the former only): `Stuck` in `MenusConverge`.

Attendance and QR:

- `src/app/services/shift_service.py:33-39` calls the buffer of two hours safe. The
  windows of a night shift and of a morning shift after it overlap from 5 to 9.
- The API accepts shifts of any length (`src/app/api/consolidated_employees.py:440-482`).
  With one of two hours or less, a punch of type "out" before the start is less than an
  hour from the middle: the day is on time by the date, which takes any punch, and late
  by the month if the next arrival is. The window of a shift over midnight that ends within
  two hours of the next midnight reaches past what is fetched for the month's last day.
  `ShiftsFit` leaves such shifts out of the theorem, and no plan of the run has one.
- A day of an employee without a tracked shift is a holiday or leave by the month
  and not listed by the date; `PagesAgree` leaves such days out.
- Changing the row, or the first version, rewrites the days before it: `HistoryStands`
  is about days that have an older version.
- The comment at `src/app/api/qr_checkin.py:199-204` expects a repeated submission to
  meet the unique constraint. Stamps have microseconds and differ, so it is stored
  twice.
- After a failed fetch the terminal never sets its timer again (after
  `src/static/js/qr-terminal.js:304`): `ShownIsAccepted` excludes it.
- `Employee.role` is "the current" role (`src/app/models/models.py:285`) as of the last
  change of a schedule (`src/app/api/consolidated_employees.py:392`), not of today;
  `src/app/services/hk_escalation_service.py:158` reads it as today's.

Staff bot:

- Feedback is confirmed "only after LINE has accepted a reply carrying those ids'
  text" (`src/app/services/guest_feedback_client.py:122`), yet all ids that were read
  are confirmed (`src/app/services/staff_bot.py:2260`) and the section has fifteen lines
  (`:1271`): from the sixteenth on, feedback is checked off and the group never sees it. The
  cut is in the model; `CheckedOffWasPosted` holds of what was shown or counted as
  "and so many more" under a full section.
- A slot report is posted "exactly once" (`src/app/services/staff_bot.py:64`). After a
  lost answer or a crash it is posted again; `PostedOnceUnlessLost` is what holds.
- The newest reply token wins, also when it is one that an early answer spends: the
  reply that merged it is then refused.
- A picture that is quoted by a report and waits in the buffer is attached twice;
  pictures beyond six and messages beyond five are dropped.
- A pending mark "can never be this old" (`src/app/services/staff_bot.py:473-477`) counts
  the wait before a reply and not the reply: while the drain loop waits for several slow
  services, a report that is alive may be taken for dead and the slot reported twice.
  `PostedOnceUnlessLost` counts such a slot (`lost.late`).
- `fetch_unreported` takes its limit before requests the roster has ended are filtered
  (`src/app/services/staff_leave_family_report.py:86`): enough of them at the head
  keep later ones unreported (`Unreported` has the limit and the answer to a database
  error). Two groups due together report one leave twice; the model has one group.

Releases and administrators:

- After a restart the floor list applies until the directory first answers.
- `.incomplete-*` directories of crashed copies are never cleaned up; a failed
  verification is cached until the next restart; the post-deploy job is not retried.
- SQLite commits DDL by itself, so a migration that crashes can stay half-done:
  `ReleaseComesUp` excludes it.

Three places are exposed and have neither a property nor a place in the list of
hazards: that `_send` of the notifier blocks whoever calls it for up to 10 s
(`src/app/services/slack_notifier.py:429`); a backfill requested while one runs; and the
back-off after an eviction, which is skipped while an op is queued
(`src/app/services/zk_session.py:311`, modelled in `ZkSession`).

## 6. Limits and plan

Abstracted or left out in modelled components:

- Durations: a wait may end, so how long a caller waits or a post blocks the loop is
  not a question the models answer.
- Ingestion: one fingerprint device, which is switched on and off.
- Scheduler: misfires (a loop that is blocked longer than the grace time drops a
  retry), the age of cache entries. Notifier: `notify_error`, which
  keeps no state. Session: the process does not restart inside a run.
- Leave: parsing of texts and dates, postback signatures, images, roster writes over
  several days, a caller of the API that sends a request's own reference back with another portion, deactivated employees, leave types, the displayed state.
- Sign-in: signatures and claims of tokens, client authentication, cookies'
  attributes, the OAuth exchange with LINE beyond its outcome, parsing of cards.
- Employees: names, photos, searches. Menus: pixels and areas, aliases, the default
  menu of the channel.
- Attendance: breaks, searching and paging, the shift catalogue. One employee; the
  pages add nothing across employees but lists. QR: the distance arithmetic; the terminal's
  page sets no time-out on its fetch, so that a fetch ends within `Delay` is an assumption.
- Staff bot: which text is which command, language and layout, the housekeeping
  orders beyond their pictures, the webhook's signature, more than one group.
- Releases: what a migration does to rows, checksums, the workflow around it.
- Administrators: the hash of the passcode, verification of Access tokens, proxies.

Not modelled: exports and `attendance_service.py` (read-only sums and spreadsheets);
devices and system status (the CRUD of one table, read-only views); images, layout,
palettes, catalogues, holidays (tables and presentation); schema and migrations
(done once; the constraints that handlers rely on are in the modules that use them);
the front end except the terminal's refresh; the Cloudflare worker, the quality
gates and the other scripts (tooling).

To come:

1. Two groups in `StaffBot`, two devices in `PunchIngest`.
2. Theorems without `RacersAlone` for what still holds when half days and roster writes
   overlap; the liveness properties stay with TLC.
3. Devices and system status, if their operations gain state of their own.
