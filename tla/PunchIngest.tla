----------------------------- MODULE PunchIngest -----------------------------
(***************************************************************************)
(* Attendance ingestion of app/services/zk_session.py: a fingerprint scan  *)
(* reaches attendance_records either in real time (_stream, _handle_punch) *)
(* or by reconciling the log kept in the reader's flash (_catch_up,        *)
(* catch_up_now, _reconcile_attendance).                                   *)
(*                                                                         *)
(* Every database statement the code issues outside the write lock is a    *)
(* step of its own: the exists-check of either path is one step, its       *)
(* INSERT + COMMIT another, so a row can appear between the two.  Between  *)
(* its first write and its commit SQLite holds the write lock, which makes *)
(* the commit atomic.                                                      *)
(*                                                                         *)
(* Time is counted in coarse units (a day of the 48 h look-back, say).     *)
(* Stamp 0 stands for a stamp the year<2010 rule rejects.                  *)
(***************************************************************************)
EXTENDS Integers, Sequences, FiniteSets

CONSTANTS
  Badges,         \* badge numbers that appear on the reader
  Enrolled,       \* those that have a row in employees
  Importers,      \* threads running catch_up_now: the 30-min job, the sync API
  Session,        \* the session thread, running its own _catch_up
  Bytes,          \* punch bytes the reader reports
  Kinds,          \* what a scan may look like: its badge, how far the reader's
                  \* clock runs ahead (below zero: no date at all), and the
                  \* bytes live_capture and get_attendance report
  Ahead,          \* a stamp more than this far in the future is rejected
  Lookback,       \* zk_catchup_lookback_hours
  ImportsKeepUp,  \* TRUE: in every Lookback window a reconcile pass completes that
                  \* found an active device
  MaxTime, MaxScans, MaxFaults,
  MaxEvents       \* scans, faults and switches of the device together

Workers == Importers \cup {Session}

ASSUME IngestAssumption ==
  /\ Enrolled \subseteq Badges
  /\ Session \notin Importers
  /\ "live" \notin Workers /\ "qr" \notin Workers
  /\ ImportsKeepUp \in BOOLEAN
  /\ Kinds \subseteq [badge : Badges, skew : Int, live : Bytes, log : Bytes]
  /\ Ahead \in Nat /\ Lookback \in Nat \ {0}
  /\ MaxTime \in Nat \ {0} /\ MaxScans \in Nat /\ MaxFaults \in Nat
  /\ MaxEvents \in Nat

VARIABLES
  now,        \* wall clock
  flash,      \* the reader's attendance log, in recording order
  rows,       \* attendance_records
  worker,     \* per reconciling thread: where it is in _reconcile_attendance
  phase,      \* what the session thread does with the reader
  needs,      \* _needs_catch_up
  events,     \* live events the stream has been sent and not yet handled
  rt,         \* scan _handle_punch checked and is about to insert, 0 if none
  device,     \* is the reader's row in devices active
  lastPass,   \* history: fetch time of the newest completed reconcile pass
  dropped,    \* history: scans a disruption of the stream has cost, as far as no
              \* catch-up has given them up for want of an active device
  faults      \* bound on the faults of the environment and the switches

vars ==
  <<now, flash, rows, worker, phase, needs, events, rt, device, lastPass, dropped, faults>>

Time == 0 .. (MaxTime + Ahead + 1)
Scans == [badge : Badges, ts : Nat, live : Bytes, log : Bytes]
Rows == [badge : Badges, ts : Nat, punch : Bytes, src : Workers \cup {"live", "qr"}]
Phases == {"down", "catchup", "streaming", "ops"}
Modes == {"incremental", "full"}
WorkerStates ==
  [pc : {"idle", "fetched", "check", "insert"}, mode : Modes, fetchedAt : Nat,
   upto : Nat, floor : Int, pos : Nat \ {0}]
Pass(pc, mode, fetchedAt, upto, floor, pos) ==
  [pc |-> pc, mode |-> mode, fetchedAt |-> fetchedAt, upto |-> upto, floor |-> floor, pos |-> pos]
NoFloor == -1
\* Mutant: a pass that starts one record before the log.
IdleFromZero == Pass("idle", "incremental", 0, 0, NoFloor, 0)
Idle == Pass("idle", "incremental", 0, 0, NoFloor, 1)

Init ==
  /\ now = 1 /\ flash = <<>> /\ rows = {}
  /\ worker = [w \in Workers |-> Idle]
  /\ phase = "down" /\ needs = TRUE
  /\ events = <<>> /\ rt = 0 /\ device = TRUE
  /\ lastPass = 1 /\ dropped = {} /\ faults = 0

-----------------------------------------------------------------------------
(* The rules both paths share. *)

\* _sanity_reject_reason
Rejected(ts) == ts = 0 \/ ts > now + Ahead

Sane(I) == {i \in I : ~Rejected(flash[i].ts)}

\* The table's unique constraint (badge, timestamp, punch_type).
Conflicts(badge, ts, punch) ==
  \E r \in rows : r.badge = badge /\ r.ts = ts /\ r.punch = punch

\* db.add + db.commit; an IntegrityError is rolled back and swallowed.
Commit(badge, ts, punch, src) ==
  rows' = IF Conflicts(badge, ts, punch) THEN rows
          ELSE rows \cup {[badge |-> badge, ts |-> ts, punch |-> punch, src |-> src]}

OnReader(r) == r.src # "qr"

-----------------------------------------------------------------------------
(* The environment. *)

MoreEvents == Len(flash) + faults < MaxEvents

\* Somebody scans a finger: the reader logs it, and a streaming session is
\* sent the event as well.
Scan(b, ts, live, log) ==
  /\ Len(flash) < MaxScans /\ MoreEvents
  /\ \E k \in Kinds :
       /\ k.badge = b /\ k.live = live /\ k.log = log
       /\ ts = IF k.skew < 0 THEN 0 ELSE now + k.skew
  /\ ~\E r \in rows : r.src = "qr" /\ r.badge = b /\ r.ts = ts
  /\ flash' = Append(flash, [badge |-> b, ts |-> ts, live |-> live, log |-> log])
  /\ events' = IF phase = "streaming" THEN Append(events, Len(flash) + 1) ELSE events
  /\ UNCHANGED <<now, rows, worker, phase, needs, rt, device, lastPass, dropped, faults>>

\* A QR check-in of api/qr_checkin.py writes a row for another device.  Its
\* stamp has microseconds, so it never equals a stamp of the reader.
QrCheckIn(b, p) ==
  /\ b \in Enrolled /\ \E k \in Kinds : k.badge = b /\ k.live = p
  /\ ~\E i \in DOMAIN flash : flash[i].badge = b /\ flash[i].ts = now
  /\ ~\E r \in rows : r.src = "qr"
  /\ Commit(b, now, p, "qr")
  /\ UNCHANGED <<now, flash, worker, phase, needs, events, rt, device, lastPass, dropped, faults>>

Tick ==
  /\ now < MaxTime
  /\ ImportsKeepUp => now + 1 - lastPass < Lookback
  /\ now' = now + 1
  /\ UNCHANGED <<flash, rows, worker, phase, needs, events, rt, device, lastPass, dropped, faults>>

\* An administrator switches the reader's row in devices off, or on again.
SwitchDevice ==
  /\ faults < MaxFaults /\ MoreEvents
  /\ device' = ~device
  /\ faults' = faults + 1
  /\ UNCHANGED <<now, flash, rows, worker, phase, needs, events, rt, lastPass, dropped>>

-----------------------------------------------------------------------------
(* Real time: _stream and _handle_punch. *)

\* Up to the exists-check, whose key includes the punch byte.
HandleCheck ==
  /\ phase = "streaming" /\ rt = 0 /\ events # <<>>
  /\ events' = Tail(events)
  /\ LET s == flash[Head(events)]
     IN  rt' = IF \/ Rejected(s.ts)
                  \/ s.badge \notin Enrolled
                  \/ ~device
                  \/ Conflicts(s.badge, s.ts, s.live)
               THEN 0 ELSE Head(events)
  /\ UNCHANGED <<now, flash, rows, worker, phase, needs, device, lastPass, dropped, faults>>

HandleCommit ==
  /\ rt # 0
  /\ Commit(flash[rt].badge, flash[rt].ts, flash[rt].live, "live")
  /\ rt' = 0
  /\ UNCHANGED <<now, flash, worker, phase, needs, events, device, lastPass, dropped, faults>>

\* _handle_punch raises (a locked database, say): the punch is not stored.
HandleFail ==
  /\ faults < MaxFaults /\ MoreEvents
  /\ rt # 0
  /\ dropped' = dropped \cup Sane({rt})
  /\ rt' = 0
  /\ needs' = TRUE
  /\ faults' = faults + 1
  /\ UNCHANGED <<now, flash, rows, worker, phase, events, device, lastPass>>

\* live_capture raises: another client took the reader's one session.  Queued
\* ops have their turn before the next stream.
Kick ==
  /\ faults < MaxFaults /\ MoreEvents
  /\ phase = "streaming" /\ rt = 0
  /\ phase' \in {"down", "ops"}
  /\ needs' = TRUE
  /\ dropped' = dropped \cup Sane({events[k] : k \in DOMAIN events})
  /\ events' = <<>>
  /\ faults' = faults + 1
  /\ UNCHANGED <<now, flash, rows, worker, rt, device, lastPass>>

\* Mutant: the session reconnects without running the queued ops.
EndStreamForgetsOps ==
  /\ phase = "streaming" /\ rt = 0
  /\ phase' = "down"
  /\ events' = <<>>
  /\ UNCHANGED <<now, flash, rows, worker, needs, rt, device, lastPass, dropped, faults>>

\* _should_break: an op is queued, the stream ends in good order.
EndStream ==
  /\ phase = "streaming" /\ rt = 0
  /\ phase' = "ops"
  /\ events' = <<>>
  /\ UNCHANGED <<now, flash, rows, worker, needs, rt, device, lastPass, dropped, faults>>

-----------------------------------------------------------------------------
(* The session thread's connections (_run). *)

ConnectOk ==
  /\ phase = "down"
  /\ phase' = IF needs THEN "catchup" ELSE "streaming"
  /\ UNCHANGED <<now, flash, rows, worker, needs, events, rt, device, lastPass, dropped, faults>>

\* The stream connection, or the connection for the ops, is refused.
ConnectFail ==
  /\ faults < MaxFaults /\ MoreEvents
  /\ phase \in {"down", "ops"}
  /\ phase' = "down"
  /\ needs' = TRUE
  /\ dropped' = dropped \cup Sane(DOMAIN flash)
  /\ faults' = faults + 1
  /\ UNCHANGED <<now, flash, rows, worker, events, rt, device, lastPass>>

OpsDone ==
  /\ phase = "ops"
  /\ phase' = "down"
  /\ UNCHANGED <<now, flash, rows, worker, needs, events, rt, device, lastPass, dropped, faults>>

-----------------------------------------------------------------------------
(* Reconciling: get_attendance, then _reconcile_attendance. *)

\* conn.get_attendance(): inside an op for an importer, on the stream's
\* connection before it streams for the session thread.
Fetch(w, mode) ==
  /\ worker[w].pc = "idle"
  /\ phase = IF w = Session THEN "catchup" ELSE "ops"
  /\ w = Session => mode = "incremental"
  /\ worker' = [worker EXCEPT ![w] = Pass("fetched", mode, now, Len(flash), NoFloor, 1)]
  /\ UNCHANGED <<now, flash, rows, phase, needs, events, rt, device, lastPass, dropped, faults>>

Lower(a, b) == IF a <= b THEN a ELSE b

\* The floor each row of this device would set.  The code's floor is the
\* greatest: max(timestamp) capped at now, minus the look-back, or none.
\* Mutants: no cap at now, and a look-back one unit short.
FloorsUncapped(mode) ==
  IF mode = "full" THEN {} ELSE {r.ts - Lookback : r \in {q \in rows : OnReader(q)}}
FloorsTooHigh(mode) ==
  IF mode = "full" THEN {}
  ELSE {Lower(r.ts, now) - Lookback + 1 : r \in {q \in rows : OnReader(q)}}
Floors(mode) ==
  IF mode = "full" THEN {} ELSE {Lower(r.ts, now) - Lookback : r \in {q \in rows : OnReader(q)}}

ReadFloor(w) ==
  /\ worker[w].pc = "fetched" /\ device
  /\ LET candidates == Floors(worker[w].mode) \cup {NoFloor}
     IN  \E f \in candidates :
           /\ \A g \in candidates : g <= f
           /\ worker' = [worker EXCEPT ![w] =
                Pass("check", @.mode, @.fetchedAt, @.upto, f, @.pos)]
  /\ UNCHANGED <<now, flash, rows, phase, needs, events, rt, device, lastPass, dropped, faults>>

\* Without an active device the pass stores nothing and returns in good order,
\* so that the session thread gives its catch-up for done.
NoDevice(w) ==
  /\ worker[w].pc = "fetched" /\ ~device
  /\ worker' = [worker EXCEPT ![w] = Idle]
  /\ IF w = Session THEN needs' = FALSE /\ phase' = "streaming" /\ dropped' = {}
                    ELSE UNCHANGED <<needs, phase, dropped>>
  /\ UNCHANGED <<now, flash, rows, events, rt, device, lastPass, faults>>

\* Mutant: the exists-check keyed like the unique constraint.
SkipKeyedByByte(s, floor) ==
  \/ Rejected(s.ts)
  \/ s.ts <= floor
  \/ s.badge \notin Enrolled
  \/ Conflicts(s.badge, s.ts, s.log)

\* The loop body up to the exists-check, whose key leaves the byte out.
SkipRecord(s, floor) ==
  \/ Rejected(s.ts)
  \/ s.ts <= floor
  \/ s.badge \notin Enrolled
  \/ \E r \in rows : r.badge = s.badge /\ r.ts = s.ts

Check(w) ==
  /\ worker[w].pc = "check" /\ worker[w].pos <= worker[w].upto
  /\ worker' = [worker EXCEPT ![w] =
       IF SkipRecord(flash[@.pos], @.floor)
       THEN Pass("check", @.mode, @.fetchedAt, @.upto, @.floor, @.pos + 1)
       ELSE Pass("insert", @.mode, @.fetchedAt, @.upto, @.floor, @.pos)]
  /\ UNCHANGED <<now, flash, rows, phase, needs, events, rt, device, lastPass, dropped, faults>>

Insert(w) ==
  /\ worker[w].pc = "insert"
  /\ LET s == flash[worker[w].pos] IN Commit(s.badge, s.ts, s.log, w)
  /\ worker' = [worker EXCEPT ![w] =
       Pass("check", @.mode, @.fetchedAt, @.upto, @.floor, @.pos + 1)]
  /\ UNCHANGED <<now, flash, phase, needs, events, rt, device, lastPass, dropped, faults>>

\* The pass returns; the session thread clears _needs_catch_up and streams.
Finish(w) ==
  /\ worker[w].pc = "check" /\ worker[w].pos > worker[w].upto
  /\ worker' = [worker EXCEPT ![w] = Idle]
  /\ lastPass' = IF worker[w].fetchedAt > lastPass THEN worker[w].fetchedAt ELSE lastPass
  /\ IF w = Session THEN needs' = FALSE /\ phase' = "streaming"
                    ELSE UNCHANGED <<needs, phase>>
  /\ UNCHANGED <<now, flash, rows, events, rt, device, dropped, faults>>

\* Mutant: a failed catch-up of the session thread is not retried.
AbortDisarms(w) ==
  /\ faults < MaxFaults /\ MoreEvents
  /\ worker[w].pc # "idle" \/ (w = Session /\ phase = "catchup")
  /\ worker' = [worker EXCEPT ![w] = Idle]
  /\ phase' = IF w = Session THEN "streaming" ELSE phase
  /\ needs' = IF w = Session THEN FALSE ELSE needs
  /\ faults' = faults + 1
  /\ UNCHANGED <<now, flash, rows, events, rt, device, lastPass, dropped>>

\* The fetch or a statement of the pass raises.  Rows committed so far stay.
\* The session thread keeps its flag and streams all the same.
Abort(w) ==
  /\ faults < MaxFaults /\ MoreEvents
  /\ worker[w].pc # "idle" \/ (w = Session /\ phase = "catchup")
  /\ worker' = [worker EXCEPT ![w] = Idle]
  /\ phase' = IF w = Session THEN "streaming" ELSE phase
  /\ faults' = faults + 1
  /\ UNCHANGED <<now, flash, rows, needs, events, rt, device, lastPass, dropped>>

-----------------------------------------------------------------------------
Realtime == HandleCheck \/ HandleCommit \/ HandleFail \/ Kick \/ EndStream
Reconcile(w) == ReadFloor(w) \/ NoDevice(w) \/ Check(w) \/ Insert(w) \/ Finish(w)

Next ==
  \/ \E b \in Badges, ts \in Time, live, log \in Bytes : Scan(b, ts, live, log)
  \/ \E b \in Badges, p \in Bytes : QrCheckIn(b, p)
  \/ Tick
  \/ SwitchDevice
  \/ Realtime
  \/ ConnectOk \/ ConnectFail \/ OpsDone
  \/ \E w \in Workers : (\E mode \in Modes : Fetch(w, mode)) \/ Reconcile(w) \/ Abort(w)

Spec == Init /\ [][Next]_vars

\* The session thread keeps running, a started pass keeps running, and the
\* 30-minute job gets an ops phase and its fetch again and again: it is
\* APScheduler's interval job, and a queued op ends the stream.
Fairness ==
  /\ WF_vars(HandleCheck \/ HandleCommit)
  /\ WF_vars(ConnectOk)
  /\ WF_vars(OpsDone)
  /\ SF_vars(EndStream)
  /\ \A w \in Workers : WF_vars(Reconcile(w)) /\ SF_vars(Fetch(w, "incremental"))

FairSpec == Spec /\ Fairness

-----------------------------------------------------------------------------
(* Properties. *)

TypeOK ==
  /\ now \in Nat /\ flash \in Seq(Scans) /\ rows \subseteq Rows
  /\ worker \in [Workers -> WorkerStates]
  /\ phase \in Phases /\ needs \in BOOLEAN /\ device \in BOOLEAN
  /\ events \in Seq(DOMAIN flash) /\ rt \in {0} \cup DOMAIN flash
  /\ lastPass \in Nat /\ dropped \subseteq DOMAIN flash /\ faults \in 0 .. MaxFaults

Stored(i) == \E r \in rows : OnReader(r) /\ r.badge = flash[i].badge /\ r.ts = flash[i].ts

\* A scan the system owes a row: a known badge and a stamp it accepts.
Owed(i) == flash[i].badge \in Enrolled /\ ~Rejected(flash[i].ts)

\* The reader never has more rows for one badge and instant than scans made at
\* that instant: no physical scan is recorded twice, even when the two
\* protocols report different punch bytes for it (what the narrower key of
\* _reconcile_attendance is for), and whatever the interleaving of the checks
\* and commits of the real-time handler and of concurrent passes.
NoScanRecordedTwice ==
  \A r \in rows : OnReader(r) =>
    Cardinality({q \in rows : OnReader(q) /\ q.badge = r.badge /\ q.ts = r.ts})
      <= Cardinality({i \in DOMAIN flash : flash[i].badge = r.badge /\ flash[i].ts = r.ts})

\* A scan the stream missed stays within reach of the next incremental pass:
\* the look-back floor, computed from rows the stream keeps adding, never
\* overtakes a scan that has no row, as long as a pass that finds an active
\* device completes in every look-back window.
MissedScanStaysAboveFloor ==
  \A i \in DOMAIN flash : Owed(i) /\ ~Stored(i) => \A f \in Floors("incremental") : flash[i].ts > f

\* A scan lost to a disruption of the session (a failed handler, an eviction,
\* a refused connection) is owed to the session thread's own catch-up: until
\* it has a row, the flag that triggers the catch-up stays up, through passes
\* that fail half-way and streams that start regardless.  A catch-up that finds
\* no active device gives its scans up.
DisruptionArmsCatchUp ==
  \A i \in dropped : Owed(i) /\ ~Stored(i) => needs

\* "A punch missed by a blind live_capture window self-heals on the next
\* sweep" (app/core/config.py): when a pass has gone through the log it
\* fetched, every owed scan of that log has its row.
SweepHealsMissedScans ==
  \A w \in Workers :
    worker[w].pc = "check" /\ worker[w].pos > worker[w].upto =>
      \A i \in 1 .. worker[w].upto :
        Owed(i) /\ flash[i].ts <= worker[w].fetchedAt + Ahead => Stored(i)

\* Every scan of an enrolled badge with a sane stamp gets its row in the end,
\* also one the stream or a catch-up skipped for want of an active device, if
\* the device stays active from some time on.  A scan is owed for ever and a
\* row stays, so that with finitely many scans this is: again and again no scan
\* is without its row, unless the device is switched off again and again.
EveryScanIsStored ==
  []<>(device => \A i \in DOMAIN flash : Owed(i) => Stored(i))

=============================================================================
