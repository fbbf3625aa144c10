-------------------------- MODULE PunchIngestProofs --------------------------
(***************************************************************************)
(* Proofs about PunchIngest for every number of badges, importers, scans   *)
(* and faults: type correctness; that no scan is recorded twice; and, when *)
(* a pass that found an active device completes in every look-back window, *)
(* that the floor never overtakes a scan without a row, that a disruption  *)
(* keeps the catch-up armed and that a pass leaves a row for every scan it *)
(* was owed.                                                               *)
(***************************************************************************)
EXTENDS PunchIngest, SequenceTheorems, FiniteSetTheorems, TLAPS

-----------------------------------------------------------------------------
(* The inductive invariant. *)

\* A scan that is owed a row as soon as its stamp is not in the far future.
Due(i) == flash[i].badge \in Enrolled /\ flash[i].ts # 0

Busy(w) == worker[w].pc # "idle"

\* The record of a pass stays well-typed whatever step it takes.
PassBounds ==
  \A w \in Workers :
    /\ Busy(w) => worker[w].upto <= Len(flash)
    /\ worker[w].pc = "insert" => worker[w].pos <= worker[w].upto

TypeInv == TypeOK /\ PassBounds

\* The clock never runs a whole look-back ahead of the last complete pass.
ClockInv == lastPass <= now /\ now - lastPass < Lookback

\* A QR row never stands at the badge and instant of a scan.
QrApart ==
  \A r \in rows, i \in DOMAIN flash :
    r.src = "qr" => ~(r.badge = flash[i].badge /\ r.ts = flash[i].ts)

\* Bounds of a pass under way.
PassInv ==
  \A w \in Workers : Busy(w) =>
    /\ worker[w].fetchedAt <= now
    /\ worker[w].floor = NoFloor \/ worker[w].floor <= now - Lookback

\* What no completed pass has stored is younger than that pass.
UnsweptInv == \A i \in DOMAIN flash : Due(i) /\ ~Stored(i) => flash[i].ts >= lastPass

\* The same of the pass under way: of the part of the log it did not fetch,
\* and of the part it has gone through.
LaterInv ==
  \A w \in Workers : Busy(w) =>
    \A i \in DOMAIN flash : i > worker[w].upto /\ Due(i) => flash[i].ts >= worker[w].fetchedAt
SweptInv ==
  \A w \in Workers : Busy(w) =>
    \A i \in DOMAIN flash :
      i < worker[w].pos /\ Due(i) /\ ~Stored(i) => flash[i].ts >= worker[w].fetchedAt

\* The session thread reconciles before it streams and handles punches only
\* while it streams.
PhaseInv ==
  /\ rt # 0 => phase = "streaming"
  /\ Busy(Session) => phase = "catchup"

\* Scans a disruption cost, relative to the session thread's catch-up.
DroppedInv ==
  /\ \A i \in dropped : flash[i].ts # 0 /\ flash[i].ts <= now + Ahead
  /\ \A i \in dropped : flash[i].badge \in Enrolled /\ ~Stored(i) => needs
  /\ Busy(Session) => \A i \in dropped :
       /\ i <= worker[Session].upto
       /\ i < worker[Session].pos /\ flash[i].badge \in Enrolled => Stored(i)

CoreInv == ClockInv /\ QrApart /\ PassInv /\ UnsweptInv /\ LaterInv /\ SweptInv

IngestInv == TypeInv /\ CoreInv /\ PhaseInv /\ DroppedInv

\* What a pass under way has gone through has its rows, if it was owed them.
HealedInv ==
  \A w \in Workers : Busy(w) =>
    /\ worker[w].pos <= Len(flash) + 1
    /\ \A i \in DOMAIN flash :
         i < worker[w].pos /\ Due(i) /\ flash[i].ts <= worker[w].fetchedAt + Ahead => Stored(i)

\* The scans the stream has been sent are its own: each once, and none in the
\* part of the log a pass under way has fetched.
Pending == {events[k] : k \in DOMAIN events}
LiveInv ==
  /\ events # <<>> => phase = "streaming"
  /\ \A j, k \in DOMAIN events : events[j] = events[k] => j = k
  /\ rt \notin Pending
  /\ \A w \in Workers : Busy(w) => \A n \in Pending \cup ({rt} \ {0}) : n > worker[w].upto

\* The rows of the reader can be told apart by the scans they stand for; a scan
\* the stream has in hand has no row yet, and one a pass is about to insert has
\* none but its own.
ReaderRows == {r \in rows : OnReader(r)}
Matching(f) ==
  /\ \A r \in ReaderRows : flash[f[r]].badge = r.badge /\ flash[f[r]].ts = r.ts
  /\ \A q, r \in ReaderRows : f[q] = f[r] => q = r
  /\ \A r \in ReaderRows : f[r] \notin Pending \cup {rt}
  /\ \A r \in ReaderRows, w \in Workers :
       worker[w].pc = "insert" /\ worker[w].pos = f[r] => r.punch = flash[f[r]].log
MatchInv == \E f \in [ReaderRows -> DOMAIN flash] : Matching(f)

-----------------------------------------------------------------------------
(* Type correctness. *)

LEMMA CommitType ==
  ASSUME TypeOK, NEW b \in Badges, NEW t \in Nat, NEW p \in Bytes,
         NEW s \in Workers \cup {"live", "qr"}, Commit(b, t, p, s)
  PROVE  rows' \subseteq Rows /\ rows \subseteq rows'
  BY DEF TypeOK, Commit, Rows

LEMMA PassType ==
  ASSUME NEW pc \in {"idle", "fetched", "check", "insert"}, NEW m \in Modes, NEW t \in Nat,
         NEW n \in Nat, NEW f \in Int, NEW p \in Nat \ {0}
  PROVE  /\ Pass(pc, m, t, n, f, p) \in WorkerStates
         /\ Pass(pc, m, t, n, f, p).pc = pc
         /\ Pass(pc, m, t, n, f, p).fetchedAt = t
         /\ Pass(pc, m, t, n, f, p).upto = n
         /\ Pass(pc, m, t, n, f, p).floor = f
         /\ Pass(pc, m, t, n, f, p).pos = p
  BY DEF Pass, WorkerStates

LEMMA PassFields ==
  ASSUME NEW r \in WorkerStates
  PROVE  /\ r.pc \in {"idle", "fetched", "check", "insert"} /\ r.mode \in Modes
         /\ r.fetchedAt \in Nat /\ r.upto \in Nat /\ r.floor \in Int /\ r.pos \in Nat \ {0}
  BY DEF WorkerStates

LEMMA IdleType == Idle \in WorkerStates /\ Idle.pc = "idle"
  BY DEF Idle, Pass, WorkerStates, NoFloor, Modes

LEMMA WorkerUpdate ==
  ASSUME TypeInv, NEW w \in Workers, NEW rec \in WorkerStates,
         worker' = [worker EXCEPT ![w] = rec], flash' = flash,
         rec.pc # "idle" => rec.upto <= Len(flash),
         rec.pc = "insert" => rec.pos <= rec.upto
  PROVE  worker' \in [Workers -> WorkerStates] /\ PassBounds'
<1>1. worker' \in [Workers -> WorkerStates]
  BY DEF TypeInv, TypeOK
<1>2. \A v \in Workers : worker'[v] = IF v = w THEN rec ELSE worker[v]
  BY DEF TypeInv, TypeOK
<1>. QED
  BY <1>1, <1>2 DEF TypeInv, PassBounds, Busy

LEMMA TypeStep == TypeInv /\ [Next]_vars => TypeInv'
<1> SUFFICES ASSUME TypeInv, [Next]_vars PROVE TypeInv'
  OBVIOUS
<1> USE IngestAssumption DEF TypeInv, TypeOK, PassBounds, Busy
<1>1. ASSUME NEW b \in Badges, NEW ts \in Time, NEW live \in Bytes, NEW log \in Bytes,
             Scan(b, ts, live, log)
      PROVE  TypeInv'
  <2>1. [badge |-> b, ts |-> ts, live |-> live, log |-> log] \in Scans
    BY DEF Scans, Time
  <2>2. flash' \in Seq(Scans) /\ Len(flash') = Len(flash) + 1
    BY <1>1, <2>1 DEF Scan
  <2>3. DOMAIN flash \subseteq DOMAIN flash' /\ Len(flash) + 1 \in DOMAIN flash'
    BY <2>2
  <2>4. events \in Seq(DOMAIN flash')
    BY <2>3, SeqMonotonic
  <2>5. Append(events, Len(flash) + 1) \in Seq(DOMAIN flash')
    <3> DEFINE D == DOMAIN flash'  e == events  n == Len(flash) + 1
    <3>1. e \in Seq(D) /\ n \in D
      BY <2>3, <2>4
    <3> HIDE DEF D, e, n
    <3>2. Append(e, n) \in Seq(D)
      BY <3>1
    <3>. QED
      BY <3>2 DEF D, e, n
  <2>6. events' \in Seq(DOMAIN flash')
    BY <1>1, <2>4, <2>5 DEF Scan
  <2>. QED
    BY <1>1, <2>2, <2>3, <2>6 DEF Scan, WorkerStates
<1>2. ASSUME NEW b \in Badges, NEW p \in Bytes, QrCheckIn(b, p)
      PROVE  TypeInv'
  BY <1>2, CommitType DEF QrCheckIn
<1>3. CASE Tick
  BY <1>3 DEF Tick
<1>4. CASE HandleCheck
  BY <1>4 DEF HandleCheck
<1>5. CASE HandleCommit
  <2>1. flash[rt] \in Scans
    BY <1>5 DEF HandleCommit
  <2>2. rows' \subseteq Rows
    BY <1>5, <2>1, CommitType DEF HandleCommit, Scans
  <2>. QED
    BY <1>5, <2>2 DEF HandleCommit
<1>6. CASE HandleFail
  BY <1>6 DEF HandleFail, Sane
<1>7. CASE Kick
  BY <1>7 DEF Kick, Sane, Phases
<1>8. CASE EndStream
  BY <1>8 DEF EndStream, Phases
<1>9. CASE ConnectOk
  BY <1>9 DEF ConnectOk, Phases
<1>10. CASE ConnectFail
  BY <1>10 DEF ConnectFail, Sane, Phases
<1>11. CASE OpsDone
  BY <1>11 DEF OpsDone, Phases
<1>12. ASSUME NEW w \in Workers, NEW mode \in Modes, Fetch(w, mode)
       PROVE  TypeInv'
  <2> DEFINE rec == Pass("fetched", mode, now, Len(flash), NoFloor, 1)
  <2>1. rec \in WorkerStates /\ rec.upto = Len(flash) /\ rec.pc = "fetched"
    BY PassType DEF NoFloor
  <2>2. worker' = [worker EXCEPT ![w] = rec] /\ flash' = flash
    BY <1>12 DEF Fetch
  <2> HIDE DEF rec
  <2>3. worker' \in [Workers -> WorkerStates] /\ PassBounds'
    BY <2>1, <2>2, WorkerUpdate
  <2>. QED
    BY <1>12, <2>3 DEF Fetch
<1>13. ASSUME NEW w \in Workers, ReadFloor(w)
       PROVE  TypeInv'
  <2>1. \A f \in Floors(worker[w].mode) \cup {NoFloor} : f \in Int
    BY DEF Floors, Lower, Rows, NoFloor
  <2> DEFINE r == worker[w]
             rec(f) == Pass("check", r.mode, r.fetchedAt, r.upto, f, r.pos)
  <2>2. PICK f \in Int : worker' = [worker EXCEPT ![w] = rec(f)]
    BY <1>13, <2>1 DEF ReadFloor
  <2>3. rec(f) \in WorkerStates /\ rec(f).upto = r.upto /\ rec(f).pc = "check"
    BY PassType, PassFields
  <2>4. r.pc = "fetched" /\ flash' = flash
    BY <1>13 DEF ReadFloor
  <2> HIDE DEF rec
  <2>5. worker' \in [Workers -> WorkerStates] /\ PassBounds'
    BY <2>2, <2>3, <2>4, WorkerUpdate
  <2>. QED
    BY <1>13, <2>5 DEF ReadFloor
<1>14. ASSUME NEW w \in Workers, Check(w)
       PROVE  TypeInv'
  <2> DEFINE r == worker[w]
             skip == Pass("check", r.mode, r.fetchedAt, r.upto, r.floor, r.pos + 1)
             keep == Pass("insert", r.mode, r.fetchedAt, r.upto, r.floor, r.pos)
  <2>1. /\ r.pos \in Nat \ {0} /\ r.pos + 1 \in Nat \ {0} /\ r.mode \in Modes
        /\ r.fetchedAt \in Nat /\ r.upto \in Nat /\ r.floor \in Int
    BY PassFields
  <2>2. skip \in WorkerStates /\ skip.upto = r.upto /\ skip.pc = "check"
    BY ONLY <2>1 DEF Pass, WorkerStates
  <2>3. keep \in WorkerStates /\ keep.upto = r.upto /\ keep.pos = r.pos
    BY ONLY <2>1 DEF Pass, WorkerStates
  <2>4. worker' = [worker EXCEPT ![w] = skip] \/ worker' = [worker EXCEPT ![w] = keep]
    BY <1>14 DEF Check
  <2>5. r.pc = "check" /\ r.pos <= r.upto /\ flash' = flash
    BY <1>14 DEF Check
  <2> HIDE DEF skip, keep
  <2>6. worker' \in [Workers -> WorkerStates] /\ PassBounds'
    BY <2>2, <2>3, <2>4, <2>5, WorkerUpdate
  <2>. QED
    BY <1>14, <2>6 DEF Check
<1>15. ASSUME NEW w \in Workers, Insert(w)
       PROVE  TypeInv'
  <2> DEFINE r == worker[w]
             rec == Pass("check", r.mode, r.fetchedAt, r.upto, r.floor, r.pos + 1)
  <2>1. /\ r.pos \in Nat \ {0} /\ r.pos + 1 \in Nat \ {0} /\ r.mode \in Modes
        /\ r.fetchedAt \in Nat /\ r.upto \in Nat /\ r.floor \in Int
    BY PassFields
  <2>2. r.pc = "insert" /\ r.pos <= r.upto /\ r.upto <= Len(flash) /\ r.upto \in Nat
    BY <1>15, PassFields DEF Insert
  <2>3. flash[r.pos] \in Scans
    BY <2>1, <2>2
  <2>4. rows' \subseteq Rows
    BY <1>15, <2>3, CommitType DEF Insert, Scans
  <2>5. rec \in WorkerStates /\ rec.upto = r.upto /\ rec.pc = "check"
    BY ONLY <2>1 DEF Pass, WorkerStates
  <2>6. worker' = [worker EXCEPT ![w] = rec] /\ flash' = flash
    BY <1>15 DEF Insert
  <2> HIDE DEF rec
  <2>7. worker' \in [Workers -> WorkerStates] /\ PassBounds'
    BY <2>2, <2>5, <2>6, WorkerUpdate
  <2>. QED
    BY <1>15, <2>4, <2>7 DEF Insert
<1>16. ASSUME NEW w \in Workers, Finish(w)
       PROVE  TypeInv'
  <2>1. lastPass' \in Nat
    BY <1>16, PassFields DEF Finish
  <2>2. worker' = [worker EXCEPT ![w] = Idle] /\ flash' = flash
    BY <1>16 DEF Finish
  <2>3. worker' \in [Workers -> WorkerStates] /\ PassBounds'
    BY <2>2, IdleType, WorkerUpdate
  <2>. QED
    BY <1>16, <2>1, <2>3 DEF Finish, Phases
<1>17. ASSUME NEW w \in Workers, Abort(w)
       PROVE  TypeInv'
  <2>1. worker' = [worker EXCEPT ![w] = Idle] /\ flash' = flash
    BY <1>17 DEF Abort
  <2>2. worker' \in [Workers -> WorkerStates] /\ PassBounds'
    BY <2>1, IdleType, WorkerUpdate
  <2>. QED
    BY <1>17, <2>2 DEF Abort, Phases
<1>18. ASSUME NEW w \in Workers, NoDevice(w)
       PROVE  TypeInv'
  <2>1. worker' = [worker EXCEPT ![w] = Idle] /\ flash' = flash
    BY <1>18 DEF NoDevice
  <2>2. worker' \in [Workers -> WorkerStates] /\ PassBounds'
    BY <2>1, IdleType, WorkerUpdate
  <2>. QED
    BY <1>18, <2>2 DEF NoDevice, Phases
<1>19. CASE SwitchDevice
  BY <1>19 DEF SwitchDevice
<1>20. CASE UNCHANGED vars
  BY <1>20 DEF vars
<1>. QED
  BY <1>1, <1>2, <1>3, <1>4, <1>5, <1>6, <1>7, <1>8, <1>9, <1>10, <1>11,
     <1>12, <1>13, <1>14, <1>15, <1>16, <1>17, <1>18, <1>19, <1>20
  DEF Next, Realtime, Reconcile

LEMMA TypeInit == Init => TypeInv
  BY IngestAssumption, IdleType
  DEF Init, TypeInv, TypeOK, PassBounds, Busy, Phases

\* Every variable of the ingestion stays in its type.
THEOREM TypeCorrect == Spec => []TypeOK
<1>1. TypeInv => TypeOK
  BY DEF TypeInv
<1>. QED
  BY TypeInit, TypeStep, <1>1, PTL DEF Spec

-----------------------------------------------------------------------------
(* The scans without a row stay young. *)

LEMMA FloorBound ==
  ASSUME TypeInv, NEW mode, NEW f \in Floors(mode)
  PROVE  f \in Int /\ f <= now - Lookback
  BY IngestAssumption DEF TypeInv, TypeOK, Floors, Lower, Rows

\* A due scan without a row is younger than every floor computed so far.
LEMMA DueIsYoung ==
  ASSUME IngestInv, NEW i \in DOMAIN flash, Due(i), ~Stored(i)
  PROVE  flash[i].ts \in Nat /\ flash[i].ts > now - Lookback
<1>1. flash[i] \in Scans
  BY DEF IngestInv, TypeInv, TypeOK
<1>2. flash[i].ts \in Nat /\ flash[i].ts >= lastPass
  BY <1>1 DEF IngestInv, CoreInv, UnsweptInv, Scans
<1>. QED
  BY <1>2, IngestAssumption DEF IngestInv, CoreInv, ClockInv, TypeInv, TypeOK

\* The log and the table only grow.
LEMMA Growth ==
  ASSUME TypeInv, [Next]_vars
  PROVE  /\ DOMAIN flash \subseteq DOMAIN flash'
         /\ \A i \in DOMAIN flash : flash'[i] = flash[i]
         /\ rows \subseteq rows'
<1>1. CASE UNCHANGED <<flash, rows>>
  BY <1>1
<1>2. ASSUME NEW b \in Badges, NEW ts \in Time, NEW live \in Bytes, NEW log \in Bytes,
             Scan(b, ts, live, log)
      PROVE  /\ DOMAIN flash \subseteq DOMAIN flash'
             /\ \A i \in DOMAIN flash : flash'[i] = flash[i]
             /\ rows \subseteq rows'
  <2>1. flash \in Seq(Scans) /\ rows' = rows
    BY <1>2 DEF TypeInv, TypeOK, Scan
  <2>2. PICK s : flash' = Append(flash, s)
    BY <1>2 DEF Scan
  <2>. QED
    BY <2>1, <2>2
<1>3. CASE flash' = flash /\ \E b, t, p, src : Commit(b, t, p, src)
  BY <1>3 DEF Commit
<1>. QED
  BY <1>1, <1>2, <1>3
  DEF Next, vars, QrCheckIn, Tick, Realtime, HandleCheck, HandleCommit, HandleFail, Kick,
      EndStream, ConnectOk, ConnectFail, OpsDone, Reconcile, Fetch, ReadFloor, Check, Insert,
      Finish, Abort, NoDevice, SwitchDevice

LEMMA StoredStable ==
  ASSUME TypeInv, [Next]_vars, NEW i \in DOMAIN flash
  PROVE  /\ i \in DOMAIN flash' /\ flash'[i] = flash[i]
         /\ Stored(i) => Stored(i)'
         /\ Due(i) <=> Due(i)'
  BY Growth DEF Stored, Due, OnReader

\* Steps that leave the passes, the clock and the log alone and only add rows
\* apart from the QR stamps.
LEMMA CoreFrame ==
  ASSUME IngestInv, [Next]_vars, QrApart',
         UNCHANGED <<now, flash, worker, lastPass>>
  PROVE  CoreInv'
<1> USE DEF IngestInv, CoreInv
<1>1. ClockInv' /\ PassInv' /\ LaterInv'
  BY DEF ClockInv, PassInv, LaterInv, Busy, Due
<1>2. \A i \in DOMAIN flash : ~Stored(i)' => ~Stored(i)
  BY StoredStable
<1>3. UnsweptInv'
  BY <1>2 DEF UnsweptInv, Due
<1>4. SweptInv'
  BY <1>2 DEF SweptInv, Due, Busy
<1>. QED
  BY <1>1, <1>3, <1>4

\* A step of one pass: what has to be shown of its new record.
LEMMA CorePass ==
  ASSUME IngestInv, [Next]_vars, NEW w \in Workers, NEW rec \in WorkerStates,
         worker' = [worker EXCEPT ![w] = rec],
         now' = now, flash' = flash, ClockInv', QrApart', UnsweptInv',
         rec.pc # "idle" =>
           /\ rec.fetchedAt <= now
           /\ rec.floor = NoFloor \/ rec.floor <= now - Lookback
           /\ \A i \in DOMAIN flash : i > rec.upto /\ Due(i) => flash[i].ts >= rec.fetchedAt
           /\ \A i \in DOMAIN flash :
                i < rec.pos /\ Due(i) /\ ~Stored(i)' => flash[i].ts >= rec.fetchedAt
  PROVE  CoreInv'
<1> USE DEF IngestInv, CoreInv
<1>1. \A v \in Workers : worker'[v] = IF v = w THEN rec ELSE worker[v]
  BY DEF TypeInv, TypeOK
<1>2. \A i \in DOMAIN flash : (~Stored(i)' => ~Stored(i)) /\ (Due(i)' <=> Due(i))
  BY StoredStable
<1>3. PassInv'
  BY <1>1 DEF PassInv, Busy
<1>4. LaterInv'
  BY <1>1, <1>2 DEF LaterInv, Busy
<1>5. SweptInv'
  BY <1>1, <1>2 DEF SweptInv, Busy
<1>. QED
  BY <1>3, <1>4, <1>5

\* After the insert step of a pass its scan has a row of the reader.
LEMMA InsertStores ==
  ASSUME NEW w, NEW p \in DOMAIN flash, flash' = flash, QrApart',
         Commit(flash[p].badge, flash[p].ts, flash[p].log, w)
  PROVE  Stored(p)'
<1>1. PICK q \in rows' : q.badge = flash[p].badge /\ q.ts = flash[p].ts
  <2>1. CASE Conflicts(flash[p].badge, flash[p].ts, flash[p].log)
    BY <2>1 DEF Commit, Conflicts
  <2>2. CASE ~Conflicts(flash[p].badge, flash[p].ts, flash[p].log)
    <3> DEFINE q == [badge |-> flash[p].badge, ts |-> flash[p].ts,
                     punch |-> flash[p].log, src |-> w]
    <3>1. q \in rows' /\ q.badge = flash[p].badge /\ q.ts = flash[p].ts
      BY <2>2 DEF Commit
    <3>. QED
      BY <3>1
  <2>. QED
    BY <2>1, <2>2
<1>2. q.src # "qr"
  BY <1>1 DEF QrApart
<1>. QED
  BY <1>1, <1>2 DEF Stored, OnReader

LEMMA CoreStep ==
  ASSUME ImportsKeepUp, IngestInv, [Next]_vars
  PROVE  CoreInv'
<1> USE IngestAssumption DEF IngestInv, CoreInv
<1>1. ASSUME NEW b \in Badges, NEW ts \in Time, NEW live \in Bytes, NEW log \in Bytes,
             Scan(b, ts, live, log)
      PROVE  CoreInv'
  <2> DEFINE s == [badge |-> b, ts |-> ts, live |-> live, log |-> log]
  <2>1. flash \in Seq(Scans) /\ flash' = Append(flash, s)
    BY <1>1 DEF Scan, TypeInv, TypeOK
  <2>2. PICK n \in Nat : DOMAIN flash' = DOMAIN flash \cup {n} /\ flash'[n] = s
    BY <2>1
  <2>3. \A i \in DOMAIN flash : flash'[i] = flash[i]
    BY <2>1
  <2>4. /\ now' = now /\ lastPass' = lastPass /\ worker' = worker /\ rows' = rows
        /\ now \in Nat /\ lastPass \in Nat
    BY <1>1 DEF Scan, TypeInv, TypeOK
  <2>5. ts \in Nat /\ (ts = 0 \/ ts >= now)
    BY <1>1, <2>4 DEF Scan, Time
  <2>6. \A i \in DOMAIN flash : (Due(i)' <=> Due(i)) /\ (Stored(i)' <=> Stored(i))
    BY <2>3, <2>4 DEF Due, Stored, OnReader
  <2>7. flash'[n].ts = ts /\ flash'[n].badge = b
    BY <2>2
  <2> HIDE DEF s
  <2>8. Due(n)' => flash'[n].ts >= now
    BY <2>5, <2>7 DEF Due
  <2>9. ClockInv' /\ PassInv'
    BY <2>4 DEF ClockInv, PassInv, Busy
  <2>10. QrApart'
    <3>1. ~\E r \in rows : r.src = "qr" /\ r.badge = b /\ r.ts = ts
      BY <1>1 DEF Scan
    <3>. QED
      BY <2>2, <2>3, <2>4, <2>7, <3>1 DEF QrApart
  <2>11. UnsweptInv'
    BY <2>2, <2>3, <2>4, <2>5, <2>6, <2>7, <2>8 DEF UnsweptInv, ClockInv
  <2>12. \A w \in Workers : Busy(w) => worker[w].fetchedAt <= now /\ worker[w].fetchedAt \in Nat
    BY PassFields DEF PassInv, TypeInv, TypeOK
  <2>13. LaterInv'
    BY <2>2, <2>3, <2>4, <2>5, <2>6, <2>7, <2>8, <2>12 DEF LaterInv, Busy
  <2>14. SweptInv'
    BY <2>2, <2>3, <2>4, <2>5, <2>6, <2>7, <2>8, <2>12 DEF SweptInv, Busy
  <2>. QED
    BY <2>9, <2>10, <2>11, <2>13, <2>14
<1>2. ASSUME NEW b \in Badges, NEW p \in Bytes, QrCheckIn(b, p)
      PROVE  CoreInv'
  <2>1. QrApart'
    BY <1>2 DEF QrCheckIn, Commit, QrApart
  <2>. QED
    BY <1>2, <2>1, CoreFrame DEF QrCheckIn
<1>3. CASE Tick
  <2>1. ClockInv'
    BY <1>3 DEF Tick, ClockInv, TypeInv, TypeOK
  <2>2. QrApart' /\ UnsweptInv' /\ LaterInv' /\ SweptInv'
    BY <1>3 DEF Tick, QrApart, UnsweptInv, LaterInv, SweptInv, Busy, Due, Stored, OnReader
  <2>3. PassInv'
    BY <1>3, PassFields DEF Tick, PassInv, Busy, TypeInv, TypeOK
  <2>. QED
    BY <2>1, <2>2, <2>3
<1>4. CASE HandleCommit
  <2>1. QrApart'
    BY <1>4 DEF HandleCommit, Commit, QrApart
  <2>. QED
    BY <1>4, <2>1, CoreFrame DEF HandleCommit
<1>5. CASE \/ HandleCheck \/ HandleFail \/ Kick \/ EndStream
           \/ ConnectOk \/ ConnectFail \/ OpsDone \/ SwitchDevice
  <2>1. UNCHANGED <<now, flash, worker, lastPass, rows>>
    BY <1>5 DEF HandleCheck, HandleFail, Kick, EndStream, ConnectOk, ConnectFail, OpsDone, SwitchDevice
  <2>2. QrApart'
    BY <2>1 DEF QrApart
  <2>. QED
    BY <2>1, <2>2, CoreFrame
<1>6. ASSUME NEW w \in Workers, NEW mode \in Modes, Fetch(w, mode)
      PROVE  CoreInv'
  <2> DEFINE rec == Pass("fetched", mode, now, Len(flash), NoFloor, 1)
  <2>1. now \in Nat /\ Len(flash) \in Nat /\ DOMAIN flash = 1 .. Len(flash)
    BY DEF TypeInv, TypeOK
  <2>2. /\ rec \in WorkerStates /\ rec.upto = Len(flash) /\ rec.pos = 1
        /\ rec.fetchedAt = now /\ rec.floor = NoFloor
    BY <2>1, PassType DEF NoFloor
  <2>3. /\ worker' = [worker EXCEPT ![w] = rec]
        /\ UNCHANGED <<now, flash, rows, lastPass>>
    BY <1>6 DEF Fetch
  <2> HIDE DEF rec
  <2>4. ClockInv' /\ QrApart' /\ UnsweptInv'
    BY <2>3 DEF ClockInv, QrApart, UnsweptInv, Due, Stored, OnReader
  <2>5. \A i \in DOMAIN flash : ~(i > rec.upto) /\ ~(i < rec.pos)
    BY <2>1, <2>2
  <2>6. rec.fetchedAt <= now
    BY <2>1, <2>2
  <2>. QED
    BY <2>2, <2>3, <2>4, <2>5, <2>6, CorePass
<1>7. ASSUME NEW w \in Workers, ReadFloor(w)
      PROVE  CoreInv'
  <2> DEFINE r == worker[w]
             rec(f) == Pass("check", r.mode, r.fetchedAt, r.upto, f, r.pos)
  <2>1. r \in WorkerStates /\ Busy(w)
    BY <1>7 DEF ReadFloor, Busy, TypeInv, TypeOK
  <2>2. PICK f \in Floors(r.mode) \cup {NoFloor} : worker' = [worker EXCEPT ![w] = rec(f)]
    BY <1>7 DEF ReadFloor
  <2>3. f \in Int /\ (f = NoFloor \/ f <= now - Lookback)
    BY FloorBound DEF NoFloor
  <2>4. /\ rec(f) \in WorkerStates /\ rec(f).upto = r.upto /\ rec(f).floor = f
        /\ rec(f).fetchedAt = r.fetchedAt /\ rec(f).pos = r.pos
    BY <2>1, <2>3, PassType, PassFields
  <2>5. UNCHANGED <<now, flash, rows, lastPass>>
    BY <1>7 DEF ReadFloor
  <2> HIDE DEF rec
  <2>6. ClockInv' /\ QrApart' /\ UnsweptInv' /\ \A i \in DOMAIN flash : ~Stored(i)' => ~Stored(i)
    BY <2>5 DEF ClockInv, QrApart, UnsweptInv, Due, Stored, OnReader
  <2>. QED
    BY <2>1, <2>2, <2>3, <2>4, <2>5, <2>6, CorePass DEF PassInv, LaterInv, SweptInv
<1>8. ASSUME NEW w \in Workers, Check(w)
      PROVE  CoreInv'
  <2> DEFINE r == worker[w]
             skip == Pass("check", r.mode, r.fetchedAt, r.upto, r.floor, r.pos + 1)
             keep == Pass("insert", r.mode, r.fetchedAt, r.upto, r.floor, r.pos)
  <2>1. r \in WorkerStates /\ Busy(w) /\ r.pos <= r.upto
    BY <1>8 DEF Check, Busy, TypeInv, TypeOK
  <2>2. /\ r.pos \in Nat \ {0} /\ r.pos + 1 \in Nat \ {0} /\ r.upto \in Nat /\ r.mode \in Modes
        /\ r.fetchedAt \in Nat /\ r.floor \in Int /\ now \in Nat
    BY <2>1, PassFields DEF TypeInv, TypeOK
  <2>3. /\ skip \in WorkerStates /\ skip.upto = r.upto /\ skip.floor = r.floor
        /\ skip.fetchedAt = r.fetchedAt /\ skip.pos = r.pos + 1
    BY <2>2, PassType
  <2>4. /\ keep \in WorkerStates /\ keep.upto = r.upto /\ keep.floor = r.floor
        /\ keep.fetchedAt = r.fetchedAt /\ keep.pos = r.pos
    BY <2>2, PassType
  <2>5. UNCHANGED <<now, flash, rows, lastPass>>
    BY <1>8 DEF Check
  <2>6. ClockInv' /\ QrApart' /\ UnsweptInv' /\ \A i \in DOMAIN flash : ~Stored(i)' => ~Stored(i)
    BY <2>5 DEF ClockInv, QrApart, UnsweptInv, Due, Stored, OnReader
  <2>7. IF SkipRecord(flash[r.pos], r.floor) THEN worker' = [worker EXCEPT ![w] = skip]
                                             ELSE worker' = [worker EXCEPT ![w] = keep]
    BY <1>8 DEF Check
  <2> HIDE DEF skip, keep
  <2>8. CASE ~SkipRecord(flash[r.pos], r.floor)
    BY <2>1, <2>4, <2>5, <2>6, <2>7, <2>8, CorePass DEF PassInv, LaterInv, SweptInv
  <2>9. CASE SkipRecord(flash[r.pos], r.floor)
    <3>1. r.pos \in DOMAIN flash /\ flash[r.pos].ts \in Nat
      <4>1. r.pos \in DOMAIN flash
        BY <2>1, <2>2 DEF TypeInv, TypeOK, PassBounds
      <4>2. flash[r.pos] \in Scans
        BY <4>1 DEF TypeInv, TypeOK
      <4>. QED
        BY <4>1, <4>2 DEF Scans
    <3>2. ASSUME Due(r.pos), ~Stored(r.pos)
          PROVE  flash[r.pos].ts >= r.fetchedAt
      <4>1. flash[r.pos].ts > now - Lookback
        BY <3>1, <3>2, DueIsYoung
      <4>2. ~(flash[r.pos].ts <= r.floor)
        BY <2>1, <2>2, <3>1, <4>1 DEF PassInv, NoFloor
      <4>3. \A q \in rows : ~(q.badge = flash[r.pos].badge /\ q.ts = flash[r.pos].ts)
        BY <3>1, <3>2 DEF Stored, OnReader, QrApart
      <4>4. flash[r.pos].ts > now + Ahead
        BY <2>9, <3>2, <4>2, <4>3 DEF SkipRecord, Rejected, Due
      <4>. QED
        BY <2>1, <2>2, <3>1, <4>4 DEF PassInv
    <3>3. \A i \in DOMAIN flash : i < r.pos + 1 => i < r.pos \/ i = r.pos
      BY <2>2 DEF TypeInv, TypeOK
    <3>4. \A i \in DOMAIN flash :
            i < skip.pos /\ Due(i) /\ ~Stored(i)' => flash[i].ts >= skip.fetchedAt
      BY <2>1, <2>3, <2>6, <3>2, <3>3 DEF SweptInv
    <3>. QED
      BY <2>1, <2>3, <2>5, <2>6, <2>7, <2>9, <3>4, CorePass DEF PassInv, LaterInv
  <2>. QED
    BY <2>8, <2>9
<1>9. ASSUME NEW w \in Workers, Insert(w)
      PROVE  CoreInv'
  <2> DEFINE r == worker[w]
             rec == Pass("check", r.mode, r.fetchedAt, r.upto, r.floor, r.pos + 1)
  <2>1. r \in WorkerStates /\ Busy(w) /\ r.pc = "insert"
    BY <1>9 DEF Insert, Busy, TypeInv, TypeOK
  <2>1a. /\ r.pos \in Nat \ {0} /\ r.floor \in Int
         /\ r.upto \in Nat /\ r.fetchedAt \in Nat /\ r.mode \in Modes
    BY ONLY <2>1, PassFields
  <2>2. PICK p \in Nat \ {0} : p = r.pos /\ p + 1 \in Nat \ {0} /\ r.floor \in Int
                            /\ r.upto \in Nat /\ r.fetchedAt \in Nat /\ r.mode \in Modes
    BY ONLY <2>1a
  <2>3. p \in DOMAIN flash
    BY <2>1, <2>2, PassFields DEF TypeInv, TypeOK, PassBounds
  <2>4. /\ rec \in WorkerStates /\ rec.upto = r.upto /\ rec.floor = r.floor
        /\ rec.fetchedAt = r.fetchedAt /\ rec.pos = p + 1
    BY <2>2, PassType
  <2>5. /\ UNCHANGED <<now, flash, lastPass>> /\ worker' = [worker EXCEPT ![w] = rec]
        /\ Commit(flash[p].badge, flash[p].ts, flash[p].log, w)
    BY <1>9, <2>2 DEF Insert
  <2> HIDE DEF rec
  <2>6. ClockInv' /\ \A i \in DOMAIN flash : ~Stored(i)' => ~Stored(i)
    BY <2>5, StoredStable DEF ClockInv
  <2>7. UnsweptInv'
    BY <2>5, <2>6 DEF UnsweptInv, Due
  <2>8. QrApart'
    BY <2>5 DEF QrApart, Commit
  <2>9. Stored(p)'
    BY <2>3, <2>5, <2>8, InsertStores
  <2>10. \A i \in DOMAIN flash : i < p + 1 => i < p \/ i = p
    BY <2>2 DEF TypeInv, TypeOK
  <2>11. \A i \in DOMAIN flash :
           i < rec.pos /\ Due(i) /\ ~Stored(i)' => flash[i].ts >= rec.fetchedAt
    BY <2>1, <2>2, <2>4, <2>6, <2>9, <2>10 DEF SweptInv
  <2>. QED
    BY <2>1, <2>4, <2>5, <2>6, <2>7, <2>8, <2>11, CorePass DEF PassInv, LaterInv
<1>10. ASSUME NEW w \in Workers, Finish(w)
       PROVE  CoreInv'
  <2> DEFINE r == worker[w]
  <2>1. /\ r.fetchedAt \in Nat /\ r.upto \in Nat /\ r.pos \in Nat /\ r.pos > r.upto /\ Busy(w)
        /\ r.fetchedAt <= now
    BY <1>10, PassFields DEF Finish, Busy, TypeInv, TypeOK, PassInv
  <2>2. /\ UNCHANGED <<now, flash, rows>> /\ worker' = [worker EXCEPT ![w] = Idle]
        /\ lastPass' = IF r.fetchedAt > lastPass THEN r.fetchedAt ELSE lastPass
    BY <1>10 DEF Finish
  <2>3. ClockInv' /\ QrApart'
    BY <2>1, <2>2 DEF ClockInv, QrApart, TypeInv, TypeOK
  <2>4. \A i \in DOMAIN flash : Due(i) /\ ~Stored(i) => flash[i].ts >= r.fetchedAt
    <3> SUFFICES ASSUME NEW i \in DOMAIN flash, Due(i), ~Stored(i)
                 PROVE  flash[i].ts >= r.fetchedAt
      OBVIOUS
    <3>1. i \in Nat
      BY DEF TypeInv, TypeOK
    <3>2. i > r.upto \/ i < r.pos
      BY <2>1, <3>1
    <3>. QED
      BY <2>1, <3>2 DEF LaterInv, SweptInv
  <2>5. UnsweptInv'
    BY <2>2, <2>4 DEF UnsweptInv, Due, Stored, OnReader
  <2>. QED
    BY <2>2, <2>3, <2>5, IdleType, CorePass
<1>11. ASSUME NEW w \in Workers, NoDevice(w) \/ Abort(w)
       PROVE  CoreInv'
  <2>1. UNCHANGED <<now, flash, rows, lastPass>> /\ worker' = [worker EXCEPT ![w] = Idle]
    BY <1>11 DEF NoDevice, Abort
  <2>2. ClockInv' /\ QrApart' /\ UnsweptInv'
    BY <2>1 DEF ClockInv, QrApart, UnsweptInv, Due, Stored, OnReader
  <2>. QED
    BY <2>1, <2>2, IdleType, CorePass
<1>12. CASE UNCHANGED vars
  <2>1. QrApart'
    BY <1>12 DEF vars, QrApart
  <2>. QED
    BY <1>12, <2>1, CoreFrame DEF vars
<1>. QED
  BY <1>1, <1>2, <1>3, <1>4, <1>5, <1>6, <1>7, <1>8, <1>9, <1>10, <1>11, <1>12
  DEF Next, Realtime, Reconcile

-----------------------------------------------------------------------------
(* The catch-up stays armed. *)

LEMMA PhaseStep ==
  ASSUME TypeInv, PhaseInv, [Next]_vars
  PROVE  PhaseInv'
<1> USE IngestAssumption DEF PhaseInv, Busy
<1>1. worker \in [Workers -> WorkerStates] /\ Session \in Workers
  BY DEF TypeInv, TypeOK, Workers
<1>2. ASSUME NEW w \in Workers, NEW mode \in Modes, Fetch(w, mode)
      PROVE  PhaseInv'
  BY <1>1, <1>2 DEF Fetch
<1>3. ASSUME NEW w \in Workers, ReadFloor(w) \/ Check(w) \/ Insert(w)
      PROVE  PhaseInv'
  BY <1>1, <1>3 DEF ReadFloor, Check, Insert
<1>4. ASSUME NEW w \in Workers, NoDevice(w) \/ Finish(w) \/ Abort(w)
      PROVE  PhaseInv'
  BY <1>1, <1>4, IdleType DEF NoDevice, Finish, Abort
<1>5. ASSUME NEW b \in Badges, NEW ts \in Time, NEW live \in Bytes, NEW log \in Bytes,
             Scan(b, ts, live, log)
      PROVE  PhaseInv'
  BY <1>1, <1>5 DEF Scan
<1>6. ASSUME NEW b \in Badges, NEW p \in Bytes, QrCheckIn(b, p)
      PROVE  PhaseInv'
  BY <1>1, <1>6 DEF QrCheckIn
<1>7. CASE Realtime \/ Tick \/ SwitchDevice
  BY <1>1, <1>7 DEF Realtime, Tick, SwitchDevice, HandleCheck, HandleCommit, HandleFail, Kick, EndStream
<1>8. CASE ConnectOk \/ ConnectFail \/ OpsDone
  BY <1>1, <1>8 DEF ConnectOk, ConnectFail, OpsDone
<1>9. CASE UNCHANGED vars
  BY <1>1, <1>9 DEF vars
<1>. QED
  BY <1>2, <1>3, <1>4, <1>5, <1>6, <1>7, <1>8, <1>9 DEF Next, Reconcile

\* A step that keeps the set of dropped scans, the flag and the record of the
\* session thread's pass (or ends that pass) keeps the invariant.
LEMMA DroppedFrame ==
  ASSUME IngestInv, [Next]_vars, dropped' = dropped, needs => needs',
         now \in Nat, now' \in Nat, now <= now',
         Busy(Session)' => worker'[Session] = worker[Session] /\ Busy(Session)
  PROVE  DroppedInv'
<1>1. \A i \in dropped :
        /\ i \in DOMAIN flash /\ flash'[i] = flash[i] /\ flash[i].ts \in Nat
        /\ Stored(i) => Stored(i)'
  <2>1. \A i \in dropped : i \in DOMAIN flash /\ flash[i] \in Scans
    BY DEF IngestInv, TypeInv, TypeOK
  <2>. QED
    BY <2>1, StoredStable DEF IngestInv, Scans
<1>. QED
  BY <1>1, IngestAssumption DEF IngestInv, DroppedInv

\* Disruptions: new dropped scans, with the flag raised and no pass of the
\* session thread under way.
LEMMA DroppedRaise ==
  ASSUME IngestInv, [Next]_vars, NEW D, D \subseteq DOMAIN flash, dropped' = dropped \cup Sane(D),
         needs' = TRUE, now' = now, flash' = flash, ~Busy(Session)'
  PROVE  DroppedInv'
<1>1. \A i \in Sane(D) : flash[i].ts # 0 /\ flash[i].ts <= now + Ahead
  <2>1. \A i \in D : flash[i] \in Scans
    BY DEF IngestInv, TypeInv, TypeOK
  <2>2. now \in Nat /\ Ahead \in Nat
    BY IngestAssumption DEF IngestInv, TypeInv, TypeOK
  <2>. QED
    BY <2>1, <2>2 DEF Sane, Rejected, Scans
<1>. QED
  BY <1>1 DEF IngestInv, DroppedInv

LEMMA DroppedStep ==
  ASSUME ImportsKeepUp, IngestInv, [Next]_vars
  PROVE  DroppedInv'
<1> USE IngestAssumption DEF Busy
<1>1. /\ worker \in [Workers -> WorkerStates] /\ Session \in Workers
      /\ now \in Nat /\ dropped \subseteq DOMAIN flash /\ PhaseInv /\ DroppedInv
  BY DEF IngestInv, TypeInv, TypeOK, Workers
<1>2. CASE UNCHANGED <<dropped, needs, worker>>  /\ now' \in Nat /\ now <= now'
  BY <1>1, <1>2, DroppedFrame
<1>3. CASE Tick
  BY <1>1, <1>3, DroppedFrame DEF Tick
<1>4. CASE HandleFail
  <2>1. rt \in DOMAIN flash /\ worker[Session].pc = "idle"
    BY <1>1, <1>4 DEF HandleFail, PhaseInv, IngestInv, TypeInv, TypeOK
  <2>. QED
    BY <1>4, <2>1, DroppedRaise DEF HandleFail
<1>5. CASE Kick
  <2> DEFINE D == {events[k] : k \in DOMAIN events}
  <2>1. D \subseteq DOMAIN flash /\ worker[Session].pc = "idle"
    BY <1>1, <1>5 DEF Kick, PhaseInv, IngestInv, TypeInv, TypeOK
  <2>. QED
    BY <1>5, <2>1, DroppedRaise DEF Kick
<1>6. CASE ConnectFail
  <2>1. worker[Session].pc = "idle"
    BY <1>1, <1>6 DEF ConnectFail, PhaseInv
  <2>. QED
    BY <1>6, <2>1, DroppedRaise DEF ConnectFail
<1>7. ASSUME NEW w \in Workers, NEW mode \in Modes, Fetch(w, mode)
      PROVE  DroppedInv'
  <2>1. CASE w # Session
    BY <1>1, <1>7, <2>1, DroppedFrame DEF Fetch
  <2>2. CASE w = Session
    <3>1. Len(flash) \in Nat /\ DOMAIN flash = 1 .. Len(flash)
      BY DEF IngestInv, TypeInv, TypeOK
    <3> DEFINE rec == Pass("fetched", mode, now, Len(flash), NoFloor, 1)
    <3>2. rec.upto = Len(flash) /\ rec.pos = 1
      BY <1>1, <3>1, PassType DEF NoFloor
    <3>3. /\ worker'[Session] = rec
          /\ UNCHANGED <<now, flash, rows, needs, dropped>>
      BY <1>1, <1>7, <2>2 DEF Fetch
    <3> HIDE DEF rec
    <3>4. \A i \in dropped : i <= rec.upto /\ ~(i < rec.pos)
      BY <1>1, <3>1, <3>2
    <3>. QED
      BY <1>1, <3>3, <3>4 DEF DroppedInv, Stored, OnReader
  <2>. QED
    BY <2>1, <2>2
<1>8. ASSUME NEW w \in Workers, ReadFloor(w)
      PROVE  DroppedInv'
  <2>1. CASE w # Session
    BY <1>1, <1>8, <2>1, DroppedFrame DEF ReadFloor
  <2>2. CASE w = Session
    <3>1. PICK f \in Floors(worker[w].mode) \cup {NoFloor} :
            worker'[w] = Pass("check", worker[w].mode, worker[w].fetchedAt, worker[w].upto, f, worker[w].pos)
      BY <1>1, <1>8 DEF ReadFloor
    <3>2. f \in Int
      BY FloorBound DEF NoFloor, IngestInv
    <3>3. worker'[w].upto = worker[w].upto /\ worker'[w].pos = worker[w].pos
      BY <1>1, <3>1, <3>2, PassType, PassFields
    <3>4. UNCHANGED <<now, flash, rows, needs, dropped>> /\ worker[w].pc # "idle"
      BY <1>8 DEF ReadFloor
    <3>. QED
      BY <1>1, <2>2, <3>3, <3>4 DEF DroppedInv, Stored, OnReader
  <2>. QED
    BY <2>1, <2>2
<1>9. ASSUME NEW w \in Workers, Check(w)
      PROVE  DroppedInv'
  <2>1. CASE w # Session
    BY <1>1, <1>9, <2>1, DroppedFrame DEF Check
  <2>2. CASE w = Session
    <3> DEFINE r == worker[w]
               skip == Pass("check", r.mode, r.fetchedAt, r.upto, r.floor, r.pos + 1)
               keep == Pass("insert", r.mode, r.fetchedAt, r.upto, r.floor, r.pos)
    <3>1. r.pos \in Nat \ {0} /\ r.pos + 1 \in Nat \ {0} /\ r.floor \in Int
      BY <1>1, PassFields
    <3>2. skip.upto = r.upto /\ skip.pos = r.pos + 1 /\ keep.upto = r.upto /\ keep.pos = r.pos
      BY <1>1, <3>1, PassType, PassFields
    <3>3. /\ UNCHANGED <<now, flash, rows, needs, dropped>> /\ r.pc = "check"
          /\ worker'[w] = IF SkipRecord(flash[r.pos], r.floor) THEN skip ELSE keep
      BY <1>1, <1>9 DEF Check
    <3> HIDE DEF skip, keep
    <3>4. CASE ~SkipRecord(flash[r.pos], r.floor)
      BY <1>1, <2>2, <3>2, <3>3, <3>4 DEF DroppedInv, Stored, OnReader
    <3>5. CASE SkipRecord(flash[r.pos], r.floor)
      <4>1. ASSUME r.pos \in dropped, flash[r.pos].badge \in Enrolled
            PROVE  Stored(r.pos)
        <5>1. SUFFICES ASSUME ~Stored(r.pos) PROVE FALSE
          OBVIOUS
        <5>2. Due(r.pos) /\ r.pos \in DOMAIN flash /\ flash[r.pos].ts <= now + Ahead
          BY <1>1, <4>1 DEF Due, DroppedInv
        <5>3. flash[r.pos].ts \in Nat /\ flash[r.pos].ts > now - Lookback
          BY <5>1, <5>2, DueIsYoung
        <5>4. ~(flash[r.pos].ts <= r.floor)
          BY <1>1, <3>1, <3>3, <5>3 DEF IngestInv, CoreInv, PassInv, NoFloor
        <5>5. \A q \in rows : ~(q.badge = flash[r.pos].badge /\ q.ts = flash[r.pos].ts)
          BY <5>1, <5>2 DEF IngestInv, CoreInv, QrApart, Stored, OnReader
        <5>. QED
          BY <1>1, <3>5, <4>1, <5>2, <5>3, <5>4, <5>5 DEF SkipRecord, Rejected, Due
      <4>2. \A i \in dropped : i < r.pos + 1 => i < r.pos \/ i = r.pos
        BY <1>1, <3>1 DEF IngestInv, TypeInv, TypeOK
      <4>. QED
        BY <1>1, <2>2, <3>2, <3>3, <3>5, <4>1, <4>2 DEF DroppedInv, Stored, OnReader
    <3>. QED
      BY <3>4, <3>5
  <2>. QED
    BY <2>1, <2>2
<1>10. ASSUME NEW w \in Workers, Insert(w)
       PROVE  DroppedInv'
  <2>1. CASE w # Session
    BY <1>1, <1>10, <2>1, DroppedFrame DEF Insert
  <2>2. CASE w = Session
    <3> DEFINE r == worker[w]
               rec == Pass("check", r.mode, r.fetchedAt, r.upto, r.floor, r.pos + 1)
    <3>1. /\ r.pos \in Nat \ {0} /\ r.pos + 1 \in Nat \ {0} /\ r.pc = "insert"
          /\ r.pos \in DOMAIN flash
      <4>1. r.pc = "insert" /\ r.pos <= r.upto /\ r.upto <= Len(flash)
        BY <1>10 DEF Insert, IngestInv, TypeInv, PassBounds
      <4>2. r.pos \in Nat \ {0} /\ r.upto \in Nat
        BY <1>1, PassFields
      <4>3. flash \in Seq(Scans)
        BY DEF IngestInv, TypeInv, TypeOK
      <4>. QED
        BY ONLY <4>1, <4>2, <4>3
    <3>2. rec.upto = r.upto /\ rec.pos = r.pos + 1
      BY <1>1, <3>1, PassType, PassFields
    <3>3. /\ UNCHANGED <<now, flash, needs, dropped>> /\ worker'[w] = rec
          /\ Commit(flash[r.pos].badge, flash[r.pos].ts, flash[r.pos].log, w)
      BY <1>1, <1>10 DEF Insert
    <3> HIDE DEF rec
    <3>4. PICK p \in DOMAIN flash : p = r.pos
      BY <3>1
    <3>5. QrApart'
      BY CoreStep DEF CoreInv
    <3>6. Stored(p)'
      BY <3>3, <3>5, <3>4, InsertStores
    <3>7. \A i \in dropped : /\ i < r.pos + 1 => i < r.pos \/ i = p
                             /\ Stored(i) => Stored(i)'
      BY <1>1, <3>1, <3>4, StoredStable DEF IngestInv, TypeInv, TypeOK
    <3>. QED
      BY <1>1, <2>2, <3>1, <3>2, <3>3, <3>6, <3>7 DEF DroppedInv
  <2>. QED
    BY <2>1, <2>2
<1>11. ASSUME NEW w \in Workers, Finish(w)
       PROVE  DroppedInv'
  <2>1. worker' = [worker EXCEPT ![w] = Idle] /\ UNCHANGED <<now, flash, rows, dropped>>
    BY <1>11 DEF Finish
  <2>2. CASE w # Session
    BY <1>1, <1>11, <2>1, <2>2, DroppedFrame DEF Finish
  <2>3. CASE w = Session
    <3>1. worker'[Session].pc = "idle"
      BY <1>1, <2>1, <2>3, IdleType
    <3>2. \A i \in dropped : i < worker[w].pos
      <4>1. /\ worker[w].pos \in Nat /\ worker[w].upto \in Nat /\ worker[w].pos > worker[w].upto
            /\ worker[w].pc = "check"
        BY <1>1, <1>11, PassFields DEF Finish
      <4>2. \A i \in dropped : i \in Nat /\ i <= worker[w].upto
        BY <1>1, <2>3, <4>1 DEF DroppedInv, IngestInv, TypeInv, TypeOK
      <4>. QED
        BY <4>1, <4>2
    <3>3. worker[w].pc # "idle"
      BY <1>11 DEF Finish
    <3>. QED
      BY <1>1, <2>1, <2>3, <3>1, <3>2, <3>3 DEF DroppedInv, Stored, OnReader
  <2>. QED
    BY <2>2, <2>3
<1>12. ASSUME NEW w \in Workers, Abort(w)
       PROVE  DroppedInv'
  <2>1. worker' = [worker EXCEPT ![w] = Idle] /\ UNCHANGED <<now, dropped, needs>>
    BY <1>12 DEF Abort
  <2>2. worker'[Session].pc # "idle" => worker'[Session] = worker[Session]
    BY <1>1, <2>1, IdleType
  <2>. QED
    BY <1>1, <2>1, <2>2, DroppedFrame
<1>13. ASSUME NEW b \in Badges, NEW ts \in Time, NEW live \in Bytes, NEW log \in Bytes,
              Scan(b, ts, live, log)
       PROVE  DroppedInv'
  BY <1>1, <1>2, <1>13 DEF Scan
<1>14. ASSUME NEW b \in Badges, NEW p \in Bytes, QrCheckIn(b, p)
       PROVE  DroppedInv'
  BY <1>1, <1>2, <1>14 DEF QrCheckIn
<1>15. CASE \/ HandleCheck \/ HandleCommit \/ EndStream \/ ConnectOk \/ OpsDone
            \/ SwitchDevice \/ UNCHANGED vars
  BY <1>1, <1>2, <1>15
  DEF HandleCheck, HandleCommit, EndStream, ConnectOk, OpsDone, SwitchDevice, vars
<1>16. ASSUME NEW w \in Workers, NoDevice(w)
       PROVE  DroppedInv'
  <2>1. worker' = [worker EXCEPT ![w] = Idle] /\ now' = now
    BY <1>16 DEF NoDevice
  <2>2. CASE w = Session
    <3>1. dropped' = {}
      BY <1>16, <2>2 DEF NoDevice
    <3>. QED
      BY <3>1 DEF DroppedInv
  <2>3. CASE w # Session
    <3>1. UNCHANGED <<dropped, needs>>
      BY <1>16, <2>3 DEF NoDevice
    <3>2. worker'[Session] = worker[Session]
      BY <1>1, <2>1, <2>3
    <3>. QED
      BY <1>1, <2>1, <3>1, <3>2, DroppedFrame
  <2>. QED
    BY <2>2, <2>3
<1>. QED
  BY <1>3, <1>4, <1>5, <1>6, <1>7, <1>8, <1>9, <1>10, <1>11, <1>12, <1>13, <1>14, <1>15, <1>16
  DEF Next, Realtime, Reconcile

-----------------------------------------------------------------------------
(* A pass heals what it goes through. *)

LEMMA HealedFrame ==
  ASSUME TypeInv, [Next]_vars, HealedInv, flash' = flash, worker' = worker
  PROVE  HealedInv'
<1>1. \A i \in DOMAIN flash : (Stored(i) => Stored(i)') /\ (Due(i)' <=> Due(i))
  BY StoredStable
<1>. QED
  BY <1>1 DEF HealedInv, Busy

LEMMA HealedPass ==
  ASSUME TypeInv, [Next]_vars, HealedInv, NEW w \in Workers, NEW rec \in WorkerStates,
         worker' = [worker EXCEPT ![w] = rec], flash' = flash,
         rec.pc # "idle" =>
           /\ rec.pos <= Len(flash) + 1
           /\ \A i \in DOMAIN flash :
                i < rec.pos /\ Due(i) /\ flash[i].ts <= rec.fetchedAt + Ahead => Stored(i)'
  PROVE  HealedInv'
<1>1. \A i \in DOMAIN flash : (Stored(i) => Stored(i)') /\ (Due(i)' <=> Due(i))
  BY StoredStable
<1>2. \A v \in Workers : worker'[v] = IF v = w THEN rec ELSE worker[v]
  BY DEF TypeInv, TypeOK
<1>. QED
  BY <1>1, <1>2 DEF HealedInv, Busy

LEMMA HealedStep ==
  ASSUME ImportsKeepUp, IngestInv, [Next]_vars, HealedInv
  PROVE  HealedInv'
<1> USE IngestAssumption DEF Busy
<1>1. /\ TypeInv /\ CoreInv /\ worker \in [Workers -> WorkerStates] /\ now \in Nat
      /\ Len(flash) \in Nat /\ DOMAIN flash = 1 .. Len(flash)
  BY DEF IngestInv, TypeInv, TypeOK
<1>2. CASE UNCHANGED <<flash, worker>>
  BY <1>1, <1>2, HealedFrame
<1>3. ASSUME NEW b \in Badges, NEW ts \in Time, NEW live \in Bytes, NEW log \in Bytes,
             Scan(b, ts, live, log)
      PROVE  HealedInv'
  <2>1. flash \in Seq(Scans) /\ worker' = worker
    BY <1>3 DEF Scan, IngestInv, TypeInv, TypeOK
  <2>2. PICK s : flash' = Append(flash, s)
    BY <1>3 DEF Scan
  <2>3. Len(flash') = Len(flash) + 1 /\ \A i \in DOMAIN flash' : i \in DOMAIN flash \/ i = Len(flash) + 1
    BY <2>1, <2>2
  <2>4. \A i \in DOMAIN flash :
          flash'[i] = flash[i] /\ (Stored(i) => Stored(i)') /\ (Due(i)' <=> Due(i))
    BY <1>1, StoredStable
  <2>5. \A w \in Workers : worker[w].pos \in Nat
    BY <1>1, PassFields
  <2>. QED
    BY <1>1, <2>1, <2>3, <2>4, <2>5 DEF HealedInv
<1>4. ASSUME NEW w \in Workers, NEW mode \in Modes, Fetch(w, mode)
      PROVE  HealedInv'
  <2> DEFINE rec == Pass("fetched", mode, now, Len(flash), NoFloor, 1)
  <2>1. rec \in WorkerStates /\ rec.pos = 1
    BY <1>1, PassType DEF NoFloor
  <2>2. worker' = [worker EXCEPT ![w] = rec] /\ flash' = flash
    BY <1>4 DEF Fetch
  <2> HIDE DEF rec
  <2>3. rec.pos <= Len(flash) + 1 /\ \A i \in DOMAIN flash : ~(i < rec.pos)
    BY <1>1, <2>1
  <2>. QED
    BY <1>1, <2>1, <2>2, <2>3, HealedPass
<1>5. ASSUME NEW w \in Workers, ReadFloor(w)
      PROVE  HealedInv'
  <2> DEFINE r == worker[w]
             rec(f) == Pass("check", r.mode, r.fetchedAt, r.upto, f, r.pos)
  <2>1. PICK f \in Floors(r.mode) \cup {NoFloor} : worker' = [worker EXCEPT ![w] = rec(f)]
    BY <1>5 DEF ReadFloor
  <2>2. f \in Int
    BY <1>1, FloorBound DEF NoFloor
  <2>3. rec(f) \in WorkerStates /\ rec(f).fetchedAt = r.fetchedAt /\ rec(f).pos = r.pos
    BY <1>1, <2>2, PassType, PassFields
  <2>4. flash' = flash /\ r.pc # "idle"
    BY <1>5 DEF ReadFloor
  <2>5. \A i \in DOMAIN flash : Stored(i) => Stored(i)'
    BY <1>1, StoredStable
  <2> HIDE DEF rec
  <2>. QED
    BY <1>1, <2>1, <2>3, <2>4, <2>5, HealedPass DEF HealedInv
<1>6. ASSUME NEW w \in Workers, Check(w)
      PROVE  HealedInv'
  <2> DEFINE r == worker[w]
             skip == Pass("check", r.mode, r.fetchedAt, r.upto, r.floor, r.pos + 1)
             keep == Pass("insert", r.mode, r.fetchedAt, r.upto, r.floor, r.pos)
  <2>1. /\ r.pc = "check" /\ r.pos <= r.upto /\ UNCHANGED <<now, flash, rows>>
        /\ IF SkipRecord(flash[r.pos], r.floor) THEN worker' = [worker EXCEPT ![w] = skip]
                                                ELSE worker' = [worker EXCEPT ![w] = keep]
    BY <1>6 DEF Check
  <2>2. /\ r.pos \in Nat \ {0} /\ r.pos + 1 \in Nat \ {0} /\ r.upto \in Nat /\ r.mode \in Modes
        /\ r.fetchedAt \in Nat /\ r.floor \in Int
    BY <1>1, PassFields
  <2>3. skip \in WorkerStates /\ skip.fetchedAt = r.fetchedAt /\ skip.pos = r.pos + 1
    BY <2>2, PassType
  <2>4. keep \in WorkerStates /\ keep.fetchedAt = r.fetchedAt /\ keep.pos = r.pos
    BY <2>2, PassType
  <2>5. r.upto <= Len(flash) /\ r.pos \in DOMAIN flash
    BY <1>1, <2>1, <2>2 DEF TypeInv, PassBounds
  <2>6. \A i \in DOMAIN flash : Stored(i) => Stored(i)'
    BY <1>1, StoredStable
  <2> HIDE DEF skip, keep
  <2>7. CASE ~SkipRecord(flash[r.pos], r.floor)
    BY <1>1, <2>1, <2>4, <2>6, <2>7, HealedPass DEF HealedInv
  <2>8. CASE SkipRecord(flash[r.pos], r.floor)
    <3>1. ASSUME Due(r.pos), flash[r.pos].ts <= r.fetchedAt + Ahead
          PROVE  Stored(r.pos)
      <4>1. SUFFICES ASSUME ~Stored(r.pos) PROVE FALSE
        OBVIOUS
      <4>2. flash[r.pos].ts \in Nat /\ flash[r.pos].ts > now - Lookback
        BY <2>5, <3>1, <4>1, DueIsYoung
      <4>3. r.fetchedAt <= now /\ ~(flash[r.pos].ts <= r.floor)
        <5>1. now \in Nat /\ Lookback \in Nat
          BY <1>1, IngestAssumption DEF TypeInv, TypeOK
        <5>2. r.fetchedAt <= now /\ (r.floor # NoFloor => r.floor <= now - Lookback)
          BY <1>1, <2>1 DEF CoreInv, PassInv
        <5>. QED
          BY <2>2, <4>2, <5>1, <5>2 DEF NoFloor
      <4>4. \A q \in rows : ~(q.badge = flash[r.pos].badge /\ q.ts = flash[r.pos].ts)
        BY <1>1, <2>5, <4>1 DEF CoreInv, QrApart, Stored, OnReader
      <4>. QED
        BY <1>1, <2>2, <2>8, <3>1, <4>2, <4>3, <4>4 DEF SkipRecord, Rejected, Due
    <3>2. \A i \in DOMAIN flash : i < r.pos + 1 => i < r.pos \/ i = r.pos
      BY <1>1, <2>2
    <3>3. \A i \in DOMAIN flash :
            i < r.pos + 1 /\ Due(i) /\ flash[i].ts <= r.fetchedAt + Ahead => Stored(i)'
      BY <2>1, <2>6, <3>1, <3>2 DEF HealedInv
    <3>. QED
      BY <1>1, <2>1, <2>2, <2>3, <2>5, <2>8, <3>3, HealedPass
  <2>. QED
    BY <2>7, <2>8
<1>7. ASSUME NEW w \in Workers, Insert(w)
      PROVE  HealedInv'
  <2> DEFINE r == worker[w]
             rec == Pass("check", r.mode, r.fetchedAt, r.upto, r.floor, r.pos + 1)
  <2>1. PICK p \in Nat \ {0} : p = r.pos /\ p + 1 \in Nat \ {0} /\ r.floor \in Int
                            /\ r.upto \in Nat /\ r.fetchedAt \in Nat /\ r.mode \in Modes
    BY <1>1, PassFields
  <2>2. /\ r.pc = "insert" /\ flash' = flash /\ worker' = [worker EXCEPT ![w] = rec]
        /\ Commit(flash[p].badge, flash[p].ts, flash[p].log, w)
    BY <1>7, <2>1 DEF Insert
  <2>3. rec \in WorkerStates /\ rec.fetchedAt = r.fetchedAt /\ rec.pos = p + 1
    BY <2>1, PassType
  <2>4. p \in DOMAIN flash
    BY <1>1, <2>1, <2>2 DEF TypeInv, PassBounds
  <2>5. QrApart'
    BY CoreStep DEF CoreInv
  <2>6. Stored(p)'
    BY <2>2, <2>4, <2>5, InsertStores
  <2>7. \A i \in DOMAIN flash : Stored(i) => Stored(i)'
    BY <1>1, StoredStable
  <2>8. \A i \in DOMAIN flash : i < p + 1 => i < p \/ i = p
    BY <1>1, <2>1
  <2> HIDE DEF rec
  <2>9. \A i \in DOMAIN flash :
          i < rec.pos /\ Due(i) /\ flash[i].ts <= rec.fetchedAt + Ahead => Stored(i)'
    BY <2>1, <2>2, <2>3, <2>6, <2>7, <2>8 DEF HealedInv
  <2>10. rec.pos <= Len(flash) + 1
    BY <1>1, <2>1, <2>3, <2>4
  <2>. QED
    BY <1>1, <2>2, <2>3, <2>9, <2>10, HealedPass
<1>8. ASSUME NEW w \in Workers, NoDevice(w) \/ Finish(w) \/ Abort(w)
      PROVE  HealedInv'
  <2>1. worker' = [worker EXCEPT ![w] = Idle] /\ flash' = flash
    BY <1>8 DEF NoDevice, Finish, Abort
  <2>. QED
    BY <1>1, <2>1, IdleType, HealedPass
<1>9. ASSUME NEW b \in Badges, NEW p \in Bytes, QrCheckIn(b, p)
      PROVE  HealedInv'
  BY <1>2, <1>9 DEF QrCheckIn
<1>10. CASE Realtime \/ Tick \/ SwitchDevice \/ ConnectOk \/ ConnectFail \/ OpsDone \/ UNCHANGED vars
  BY <1>2, <1>10 DEF Realtime, Tick, SwitchDevice, HandleCheck, HandleCommit, HandleFail, Kick, EndStream,
                     ConnectOk, ConnectFail, OpsDone, vars
<1>. QED
  BY <1>3, <1>4, <1>5, <1>6, <1>7, <1>8, <1>9, <1>10 DEF Next, Reconcile

-----------------------------------------------------------------------------
(* Rows are matched with scans. *)

\* The live events are in hand of nobody else.
LEMMA LiveStep ==
  ASSUME TypeInv, PhaseInv, LiveInv, [Next]_vars
  PROVE  LiveInv'
<1> USE IngestAssumption DEF Busy
<1>1. /\ worker \in [Workers -> WorkerStates] /\ Session \in Workers
      /\ events \in Seq(DOMAIN flash) /\ rt \in {0} \cup DOMAIN flash
      /\ Len(flash) \in Nat /\ DOMAIN flash = 1 .. Len(flash)
  BY DEF TypeInv, TypeOK, Workers
<1>2. CASE UNCHANGED <<events, rt, worker, phase>>
  BY <1>1, <1>2 DEF LiveInv, Pending
<1>3. ASSUME NEW b \in Badges, NEW ts \in Time, NEW live \in Bytes, NEW log \in Bytes,
             Scan(b, ts, live, log)
      PROVE  LiveInv'
  <2> DEFINE n == Len(flash) + 1
  <2>1. /\ events' = IF phase = "streaming" THEN Append(events, n) ELSE events
        /\ UNCHANGED <<rt, worker, phase>>
    BY <1>3 DEF Scan
  <2>2. CASE phase # "streaming"
    BY <1>1, <1>2, <2>1, <2>2
  <2>3. CASE phase = "streaming"
    <3>1. n \in Nat /\ n \notin DOMAIN flash /\ n # rt /\ n \notin Pending
      BY <1>1 DEF Pending
    <3> HIDE DEF n
    <3>2. /\ DOMAIN events' = DOMAIN events \cup {Len(events) + 1}
          /\ Len(events) + 1 \notin DOMAIN events
          /\ \A k \in DOMAIN events : events'[k] = events[k]
          /\ events'[Len(events) + 1] = n
      BY <1>1, <2>1, <2>3
    <3>3. Pending' = Pending \cup {n}
      BY <3>2 DEF Pending
    <3>4. \A j, k \in DOMAIN events' : events'[j] = events'[k] => j = k
      BY <3>1, <3>2 DEF LiveInv, Pending
    <3>5. \A w \in Workers : Busy(w) => n > worker[w].upto
      BY <1>1, PassFields DEF n, TypeInv, PassBounds
    <3>. QED
      BY <2>1, <2>3, <3>1, <3>3, <3>4, <3>5 DEF LiveInv
  <2>. QED
    BY <2>2, <2>3
<1>4. CASE HandleCheck
  <2>1. /\ events # <<>> /\ events' = Tail(events) /\ rt' \in {0, Head(events)}
        /\ phase = "streaming" /\ UNCHANGED <<worker, phase>>
    BY <1>4 DEF HandleCheck
  <2>2. /\ \A k \in DOMAIN events' : k + 1 \in DOMAIN events /\ events'[k] = events[k + 1] /\ k + 1 # 1
        /\ 1 \in DOMAIN events /\ Head(events) = events[1]
        /\ \A j, k \in DOMAIN events' : j + 1 = k + 1 => j = k
    BY <1>1, <2>1
  <2>3. Pending' \subseteq Pending /\ Head(events) \in Pending \ Pending'
    BY <2>2 DEF LiveInv, Pending
  <2>4. \A j, k \in DOMAIN events' : events'[j] = events'[k] => j = k
    BY <2>2 DEF LiveInv
  <2>5. 0 \notin Pending
    BY <1>1 DEF Pending
  <2>. QED
    BY <2>1, <2>3, <2>4, <2>5 DEF LiveInv
<1>5. CASE HandleCommit \/ HandleFail
  <2>1. rt' = 0 /\ UNCHANGED <<events, phase, worker>>
    BY <1>5 DEF HandleCommit, HandleFail
  <2>2. 0 \notin Pending
    BY <1>1 DEF Pending
  <2>. QED
    BY <2>1, <2>2 DEF LiveInv, Pending
<1>6. CASE Kick \/ EndStream
  <2>1. events' = <<>> /\ rt = 0 /\ rt' = 0 /\ UNCHANGED worker
    BY <1>6 DEF Kick, EndStream
  <2>2. Pending' = {} /\ events' = <<>>
    BY <2>1 DEF Pending
  <2>. QED
    BY <2>1, <2>2 DEF LiveInv
<1>7. CASE ConnectOk \/ ConnectFail \/ OpsDone
  <2>1. events = <<>> /\ UNCHANGED <<events, rt, worker>>
    BY <1>7 DEF ConnectOk, ConnectFail, OpsDone, LiveInv
  <2>. QED
    BY <2>1 DEF LiveInv, Pending
<1>8. ASSUME NEW w \in Workers, NEW mode \in Modes, Fetch(w, mode)
      PROVE  LiveInv'
  <2>1. events = <<>> /\ rt = 0 /\ UNCHANGED <<events, rt>>
    BY <1>8 DEF Fetch, LiveInv, PhaseInv
  <2>2. Pending' = {}
    BY <2>1 DEF Pending
  <2>. QED
    BY <2>1, <2>2 DEF LiveInv
<1>9. ASSUME NEW w \in Workers, NEW rec \in WorkerStates, worker' = [worker EXCEPT ![w] = rec],
             rec.pc # "idle" => Busy(w) /\ rec.upto = worker[w].upto,
             UNCHANGED <<events, rt>>, events # <<>> => phase' = "streaming"
      PROVE  LiveInv'
  <2>1. \A v \in Workers : worker'[v] = IF v = w THEN rec ELSE worker[v]
    BY <1>1, <1>9
  <2>. QED
    BY <1>9, <2>1 DEF LiveInv, Pending
<1>10. ASSUME NEW w \in Workers, ReadFloor(w)
       PROVE  LiveInv'
  <2> DEFINE r == worker[w]
             rec(f) == Pass("check", r.mode, r.fetchedAt, r.upto, f, r.pos)
  <2>1. PICK f \in Floors(r.mode) \cup {NoFloor} : worker' = [worker EXCEPT ![w] = rec(f)]
    BY <1>10 DEF ReadFloor
  <2>2. f \in Int
    BY FloorBound DEF NoFloor
  <2>3. rec(f) \in WorkerStates /\ rec(f).upto = r.upto
    BY <1>1, <2>2, PassType, PassFields
  <2>4. UNCHANGED <<events, rt, phase>> /\ r.pc # "idle"
    BY <1>10 DEF ReadFloor
  <2> HIDE DEF rec
  <2>. QED
    BY <1>9, <2>1, <2>3, <2>4 DEF LiveInv
<1>11. ASSUME NEW w \in Workers, Check(w) \/ Insert(w)
       PROVE  LiveInv'
  <2> DEFINE r == worker[w]
             on == Pass("check", r.mode, r.fetchedAt, r.upto, r.floor, r.pos + 1)
             keep == Pass("insert", r.mode, r.fetchedAt, r.upto, r.floor, r.pos)
  <2>1. /\ worker' = [worker EXCEPT ![w] = on] \/ worker' = [worker EXCEPT ![w] = keep]
        /\ UNCHANGED <<events, rt, phase>> /\ r.pc # "idle"
    BY <1>11 DEF Check, Insert
  <2>2. /\ r.pos \in Nat \ {0} /\ r.pos + 1 \in Nat \ {0} /\ r.mode \in Modes
        /\ r.fetchedAt \in Nat /\ r.upto \in Nat /\ r.floor \in Int
    BY <1>1, PassFields
  <2>3. on \in WorkerStates /\ on.upto = r.upto
    BY ONLY <2>2 DEF Pass, WorkerStates
  <2>4. keep \in WorkerStates /\ keep.upto = r.upto
    BY ONLY <2>2 DEF Pass, WorkerStates
  <2> HIDE DEF on, keep
  <2>. QED
    BY <1>9, <2>1, <2>3, <2>4 DEF LiveInv
<1>12. ASSUME NEW w \in Workers, NoDevice(w) \/ Finish(w) \/ Abort(w)
       PROVE  LiveInv'
  <2>1. /\ worker' = [worker EXCEPT ![w] = Idle]
        /\ UNCHANGED <<events, rt>> /\ phase' \in {phase, "streaming"}
    BY <1>12 DEF NoDevice, Finish, Abort
  <2>. QED
    BY <1>9, <2>1, IdleType DEF LiveInv
<1>13. ASSUME NEW b \in Badges, NEW p \in Bytes, QrCheckIn(b, p)
       PROVE  LiveInv'
  BY <1>2, <1>13 DEF QrCheckIn
<1>14. CASE Tick \/ SwitchDevice \/ UNCHANGED vars
  BY <1>2, <1>14 DEF Tick, SwitchDevice, vars
<1>. QED
  BY <1>3, <1>4, <1>5, <1>6, <1>7, <1>8, <1>10, <1>11, <1>12, <1>13, <1>14
  DEF Next, Realtime, Reconcile

\* A matching survives a step that adds no row of the reader, if the stream
\* takes nothing up that it had not been sent and no pass turns to a scan
\* that has a row of its stamp.
LEMMA MatchKeep ==
  ASSUME TypeInv, [Next]_vars, MatchInv, ReaderRows' = ReaderRows,
         \A n \in DOMAIN flash : n \in (Pending \cup {rt})' => n \in Pending \cup {rt},
         \A w \in Workers : worker'[w].pc = "insert" =>
           \/ worker[w] = worker'[w]
           \/ /\ worker'[w].pos \in DOMAIN flash
              /\ \A q \in rows : ~(/\ q.badge = flash[worker'[w].pos].badge
                                   /\ q.ts = flash[worker'[w].pos].ts)
  PROVE  MatchInv'
<1>1. PICK f \in [ReaderRows -> DOMAIN flash] : Matching(f)
  BY DEF MatchInv
<1>2. DOMAIN flash \subseteq DOMAIN flash' /\ \A i \in DOMAIN flash : flash'[i] = flash[i]
  BY Growth
<1>3. \A r \in ReaderRows : f[r] \in DOMAIN flash /\ flash'[f[r]] = flash[f[r]] /\ r \in rows
  BY <1>1, <1>2 DEF ReaderRows
<1>4. f \in [ReaderRows' -> DOMAIN flash']
  BY <1>2
<1>5. /\ \A r \in ReaderRows : flash'[f[r]].badge = r.badge /\ flash'[f[r]].ts = r.ts
      /\ \A q, r \in ReaderRows : f[q] = f[r] => q = r
      /\ \A r \in ReaderRows : f[r] \notin (Pending \cup {rt})'
  BY <1>1, <1>3 DEF Matching
<1>6. ASSUME NEW r \in ReaderRows, NEW w \in Workers, worker'[w].pc = "insert", worker'[w].pos = f[r]
      PROVE  r.punch = flash'[f[r]].log
  BY <1>1, <1>3, <1>6 DEF Matching
<1>. QED
  BY <1>4, <1>5, <1>6 DEF MatchInv, Matching

\* A new row of the reader that stands for a scan no row stood for.
LEMMA MatchGrow ==
  ASSUME TypeInv, NEW q, NEW n \in DOMAIN flash, flash' = flash,
         NEW f \in [ReaderRows -> DOMAIN flash], Matching(f),
         ReaderRows' = ReaderRows \cup {q}, q \notin ReaderRows,
         \A r \in ReaderRows : f[r] # n,
         flash[n].badge = q.badge, flash[n].ts = q.ts,
         n \notin (Pending \cup {rt})', (Pending \cup {rt})' \subseteq Pending \cup {rt, 0},
         \A w \in Workers : worker'[w].pc = "insert" =>
           worker'[w] = worker[w] /\ (worker[w].pos = n => q.punch = flash[n].log)
  PROVE  MatchInv'
<1> DEFINE g == [r \in ReaderRows' |-> IF r = q THEN n ELSE f[r]]
<1>1. g \in [ReaderRows' -> DOMAIN flash']
  OBVIOUS
<1>2. \A r \in ReaderRows' : IF r = q THEN g[r] = n ELSE r \in ReaderRows /\ g[r] = f[r]
  OBVIOUS
<1>3. 0 \notin DOMAIN flash
  BY DEF TypeInv, TypeOK
<1>4. \A r \in ReaderRows : f[r] \in DOMAIN flash
  OBVIOUS
<1> HIDE DEF g
<1>5. /\ \A r \in ReaderRows' : flash'[g[r]].badge = r.badge /\ flash'[g[r]].ts = r.ts
      /\ \A r, s \in ReaderRows' : g[r] = g[s] => r = s
      /\ \A r \in ReaderRows' : g[r] \notin (Pending \cup {rt})'
  BY <1>2, <1>3, <1>4 DEF Matching
<1>6. ASSUME NEW r \in ReaderRows', NEW w \in Workers, worker'[w].pc = "insert", worker'[w].pos = g[r]
      PROVE  r.punch = flash'[g[r]].log
  BY <1>2, <1>6 DEF Matching
<1>. QED
  BY <1>1, <1>5, <1>6 DEF MatchInv, Matching

\* A commit leaves the table alone or adds the one row it is about.
LEMMA CommitAdds ==
  ASSUME NEW b, NEW t, NEW p, NEW src, Commit(b, t, p, src), rows' # rows
  PROVE  \E q : /\ q.badge = b /\ q.ts = t /\ q.punch = p /\ q.src = src
                /\ rows' = rows \cup {q} /\ ~Conflicts(b, t, p)
<1> DEFINE q == [badge |-> b, ts |-> t, punch |-> p, src |-> src]
<1>1. q.badge = b /\ q.ts = t /\ q.punch = p /\ q.src = src
  OBVIOUS
<1>2. rows' = rows \cup {q} /\ ~Conflicts(b, t, p)
  BY DEF Commit
<1> HIDE DEF q
<1>. QED
  BY <1>1, <1>2

LEMMA MatchStep ==
  ASSUME TypeInv, PhaseInv, LiveInv, MatchInv, [Next]_vars
  PROVE  MatchInv'
<1> USE IngestAssumption
<1>1. /\ worker \in [Workers -> WorkerStates] /\ rt \in {0} \cup DOMAIN flash
      /\ events \in Seq(DOMAIN flash) /\ Len(flash) \in Nat /\ DOMAIN flash = 1 .. Len(flash)
  BY DEF TypeInv, TypeOK
<1>2. CASE UNCHANGED <<rows, events, rt, worker>>
  BY <1>2, MatchKeep DEF ReaderRows, Pending
<1>3. ASSUME NEW b \in Badges, NEW ts \in Time, NEW live \in Bytes, NEW log \in Bytes,
             Scan(b, ts, live, log)
      PROVE  MatchInv'
  <2>1. /\ events' \in {events, Append(events, Len(flash) + 1)}
        /\ UNCHANGED <<rows, rt, worker>>
    BY <1>3 DEF Scan
  <2>2. CASE events' = events
    BY <2>1, <2>2, MatchKeep DEF ReaderRows, Pending
  <2>3. CASE events' = Append(events, Len(flash) + 1)
    <3>1. \A k \in DOMAIN events' :
            IF k \in DOMAIN events THEN events'[k] = events[k] ELSE events'[k] = Len(flash) + 1
      BY <1>1, <2>3
    <3>2. \A n \in DOMAIN flash : n \in Pending' => n \in Pending
      BY <1>1, <3>1 DEF Pending
    <3>. QED
      BY <2>1, <3>2, MatchKeep DEF ReaderRows
  <2>. QED
    BY <2>1, <2>2, <2>3
<1>4. ASSUME NEW b \in Badges, NEW p \in Bytes, QrCheckIn(b, p)
      PROVE  MatchInv'
  <2>1. ReaderRows' = ReaderRows /\ UNCHANGED <<events, rt, worker>>
    BY <1>4 DEF QrCheckIn, Commit, ReaderRows, OnReader
  <2>. QED
    BY <2>1, MatchKeep DEF Pending
<1>5. CASE HandleCheck
  <2>1. /\ events # <<>> /\ events' = Tail(events) /\ rt' \in {0, Head(events)}
        /\ UNCHANGED <<rows, worker>>
    BY <1>5 DEF HandleCheck
  <2>2. Pending' \subseteq Pending /\ Head(events) \in Pending
    BY <1>1, <2>1 DEF Pending
  <2>. QED
    BY <1>1, <2>1, <2>2, MatchKeep DEF ReaderRows
<1>6. CASE HandleCommit
  <2>1. /\ rt \in DOMAIN flash /\ rt # 0 /\ rt' = 0 /\ UNCHANGED <<flash, events, worker>>
        /\ Commit(flash[rt].badge, flash[rt].ts, flash[rt].live, "live")
    BY <1>1, <1>6 DEF HandleCommit
  <2>2. CASE rows' = rows
    BY <1>1, <2>1, <2>2, MatchKeep DEF ReaderRows, Pending
  <2>3. CASE rows' # rows
    <3>1. PICK n \in DOMAIN flash : n = rt
      BY <2>1
    <3>2. PICK q : /\ q.badge = flash[n].badge /\ q.ts = flash[n].ts /\ q.punch = flash[n].live
                   /\ q.src = "live" /\ rows' = rows \cup {q}
                   /\ ~Conflicts(flash[n].badge, flash[n].ts, flash[n].live)
      BY <2>1, <2>3, <3>1, CommitAdds
    <3>3. ReaderRows' = ReaderRows \cup {q} /\ q \notin ReaderRows
      BY <3>2 DEF ReaderRows, OnReader, Conflicts
    <3>4. PICK f \in [ReaderRows -> DOMAIN flash] : Matching(f)
      BY DEF MatchInv
    <3>5. \A r \in ReaderRows : f[r] # n
      BY <3>1, <3>4 DEF Matching
    <3>6. n \notin (Pending \cup {rt})' /\ (Pending \cup {rt})' \subseteq Pending \cup {rt, 0}
      BY <2>1, <3>1 DEF LiveInv, Pending
    <3>7. \A w \in Workers : worker[w].pc = "insert" => worker[w].pos # n
      BY <1>1, <2>1, <3>1, PassFields DEF LiveInv, TypeInv, PassBounds, Busy
    <3>. QED
      BY <2>1, <3>2, <3>3, <3>4, <3>5, <3>6, <3>7, MatchGrow
  <2>. QED
    BY <2>2, <2>3
<1>7. CASE HandleFail \/ Kick \/ EndStream
  <2>1. rt' = 0 /\ events' \in {events, <<>>} /\ UNCHANGED <<rows, worker>>
    BY <1>7 DEF HandleFail, Kick, EndStream
  <2>2. Pending' \subseteq Pending
    BY <2>1 DEF Pending
  <2>. QED
    BY <1>1, <2>1, <2>2, MatchKeep DEF ReaderRows
<1>8. ASSUME NEW w \in Workers, NEW rec \in WorkerStates, worker' = [worker EXCEPT ![w] = rec],
             UNCHANGED <<rows, events, rt>>,
             rec.pc = "insert" =>
               /\ rec.pos \in DOMAIN flash
               /\ \A q \in rows : ~(q.badge = flash[rec.pos].badge /\ q.ts = flash[rec.pos].ts)
      PROVE  MatchInv'
  <2>1. \A v \in Workers : worker'[v] = IF v = w THEN rec ELSE worker[v]
    BY <1>1, <1>8
  <2>. QED
    BY <1>8, <2>1, MatchKeep DEF ReaderRows, Pending
<1>9. ASSUME NEW w \in Workers, NEW mode \in Modes, Fetch(w, mode)
      PROVE  MatchInv'
  <2> DEFINE rec == Pass("fetched", mode, now, Len(flash), NoFloor, 1)
  <2>1. rec \in WorkerStates /\ rec.pc = "fetched"
    BY <1>1, PassType DEF NoFloor, TypeInv, TypeOK
  <2>2. worker' = [worker EXCEPT ![w] = rec] /\ UNCHANGED <<rows, events, rt>>
    BY <1>9 DEF Fetch
  <2> HIDE DEF rec
  <2>. QED
    BY <1>8, <2>1, <2>2
<1>10. ASSUME NEW w \in Workers, ReadFloor(w)
       PROVE  MatchInv'
  <2> DEFINE r == worker[w]
             rec(f) == Pass("check", r.mode, r.fetchedAt, r.upto, f, r.pos)
  <2>1. PICK f \in Floors(r.mode) \cup {NoFloor} : worker' = [worker EXCEPT ![w] = rec(f)]
    BY <1>10 DEF ReadFloor
  <2>2. f \in Int
    BY FloorBound DEF NoFloor
  <2>3. rec(f) \in WorkerStates /\ rec(f).pc = "check"
    BY <1>1, <2>2, PassType, PassFields
  <2>4. UNCHANGED <<rows, events, rt>>
    BY <1>10 DEF ReadFloor
  <2> HIDE DEF rec
  <2>. QED
    BY <1>8, <2>1, <2>3, <2>4
<1>11. ASSUME NEW w \in Workers, Check(w)
       PROVE  MatchInv'
  <2> DEFINE r == worker[w]
             skip == Pass("check", r.mode, r.fetchedAt, r.upto, r.floor, r.pos + 1)
             keep == Pass("insert", r.mode, r.fetchedAt, r.upto, r.floor, r.pos)
  <2>1. /\ r.pc = "check" /\ r.pos <= r.upto /\ UNCHANGED <<rows, events, rt>>
        /\ IF SkipRecord(flash[r.pos], r.floor) THEN worker' = [worker EXCEPT ![w] = skip]
                                                ELSE worker' = [worker EXCEPT ![w] = keep]
    BY <1>11 DEF Check
  <2>2. /\ r.pos \in Nat \ {0} /\ r.pos + 1 \in Nat \ {0} /\ r.mode \in Modes
        /\ r.fetchedAt \in Nat /\ r.upto \in Nat /\ r.floor \in Int
    BY <1>1, PassFields
  <2>3. skip \in WorkerStates /\ skip.pc = "check"
    BY <2>2, PassType
  <2>5. keep \in WorkerStates /\ keep.pos = r.pos
    BY <2>2, PassType
  <2>4. r.pos \in DOMAIN flash
    BY <1>1, <2>1, <2>2 DEF TypeInv, PassBounds, Busy
  <2> HIDE DEF skip, keep
  <2>. QED
    BY <1>8, <2>1, <2>3, <2>4, <2>5 DEF SkipRecord
<1>12. ASSUME NEW w \in Workers, Insert(w)
       PROVE  MatchInv'
  <2> DEFINE r == worker[w]
             rec == Pass("check", r.mode, r.fetchedAt, r.upto, r.floor, r.pos + 1)
  <2>1. PICK p \in Nat \ {0} : p = r.pos /\ r.pos + 1 \in Nat \ {0} /\ r.floor \in Int
                            /\ r.upto \in Nat /\ r.fetchedAt \in Nat /\ r.mode \in Modes
    BY <1>1, PassFields
  <2>2. /\ r.pc = "insert" /\ worker' = [worker EXCEPT ![w] = rec]
        /\ UNCHANGED <<flash, events, rt>>
        /\ Commit(flash[p].badge, flash[p].ts, flash[p].log, w)
    BY <1>12, <2>1 DEF Insert
  <2>3. rec \in WorkerStates /\ rec.pc = "check"
    BY <2>1, PassType
  <2>4. r.pc # "idle" /\ r.pos <= r.upto /\ r.upto <= Len(flash)
    <3>1. r.pc = "insert"
      BY <2>2
    <3>. QED
      BY <3>1 DEF TypeInv, PassBounds, Busy
  <2>5. p \in DOMAIN flash /\ p <= r.upto
    BY <1>1, <2>1, <2>4
  <2> HIDE DEF rec
  <2>6. CASE rows' = rows
    BY <1>8, <2>2, <2>3, <2>6
  <2>7. CASE rows' # rows
    <3>1. PICK q : /\ q.badge = flash[p].badge /\ q.ts = flash[p].ts /\ q.punch = flash[p].log
                   /\ q.src = w /\ rows' = rows \cup {q}
                   /\ ~Conflicts(flash[p].badge, flash[p].ts, flash[p].log)
      BY <2>2, <2>7, CommitAdds
    <3>2. ReaderRows' = ReaderRows \cup {q} /\ q \notin ReaderRows
      BY <3>1 DEF ReaderRows, OnReader, Conflicts, Workers
    <3>3. PICK f \in [ReaderRows -> DOMAIN flash] : Matching(f)
      BY DEF MatchInv
    <3>4. \A s \in ReaderRows : f[s] # p
      BY <2>1, <2>2, <3>1, <3>3 DEF Matching, Conflicts, ReaderRows
    <3>5. p \notin Pending \cup {rt}
      <4>1. \A n \in Pending \cup ({rt} \ {0}) : n > r.upto
        BY <2>4 DEF LiveInv, Busy
      <4>. QED
        BY <2>1, <2>5, <4>1
    <3>6. \A v \in Workers : worker'[v] = IF v = w THEN rec ELSE worker[v]
      BY <1>1, <2>2
    <3>7. Pending' = Pending
      BY <2>2 DEF Pending
    <3>. QED
      BY <2>2, <2>3, <2>5, <3>1, <3>2, <3>3, <3>4, <3>5, <3>6, <3>7, MatchGrow
  <2>. QED
    BY <2>6, <2>7
<1>13. ASSUME NEW w \in Workers, NoDevice(w) \/ Finish(w) \/ Abort(w)
       PROVE  MatchInv'
  <2>1. worker' = [worker EXCEPT ![w] = Idle] /\ UNCHANGED <<rows, events, rt>>
    BY <1>13 DEF NoDevice, Finish, Abort
  <2>. QED
    BY <1>8, <2>1, IdleType
<1>14. CASE Tick \/ SwitchDevice \/ ConnectOk \/ ConnectFail \/ OpsDone \/ UNCHANGED vars
  BY <1>2, <1>14 DEF Tick, SwitchDevice, ConnectOk, ConnectFail, OpsDone, vars
<1>. QED
  BY <1>3, <1>4, <1>5, <1>6, <1>7, <1>9, <1>10, <1>11, <1>12, <1>13, <1>14
  DEF Next, Realtime, Reconcile

\* What can be told apart by the scans it stands for is no more than the scans.
LEMMA MatchBounds ==
  ASSUME TypeInv, MatchInv
  PROVE  NoScanRecordedTwice
<1> SUFFICES ASSUME NEW r \in rows, OnReader(r)
             PROVE  Cardinality({q \in rows : OnReader(q) /\ q.badge = r.badge /\ q.ts = r.ts})
                      <= Cardinality({i \in DOMAIN flash : flash[i].badge = r.badge /\ flash[i].ts = r.ts})
  BY DEF NoScanRecordedTwice
<1> DEFINE S == {q \in rows : OnReader(q) /\ q.badge = r.badge /\ q.ts = r.ts}
           T == {i \in DOMAIN flash : flash[i].badge = r.badge /\ flash[i].ts = r.ts}
<1>1. PICK f \in [ReaderRows -> DOMAIN flash] : Matching(f)
  BY DEF MatchInv
<1>2. S \subseteq ReaderRows
  BY DEF ReaderRows
<1>3. \A q \in S : f[q] \in T
  BY <1>1, <1>2 DEF Matching
<1>4. \A p, q \in S : f[p] = f[q] => p = q
  BY <1>1, <1>2 DEF Matching
<1>5. IsFiniteSet(T)
  <2>1. Len(flash) \in Nat /\ DOMAIN flash = 1 .. Len(flash)
    BY DEF TypeInv, TypeOK
  <2>2. IsFiniteSet(1 .. Len(flash))
    BY <2>1, FS_Interval
  <2>. QED
    BY <2>1, <2>2, FS_Subset
<1> DEFINE g == [q \in S |-> f[q]]
<1> HIDE DEF S, T
<1>6. g \in Injection(S, T)
  BY <1>3, <1>4 DEF Injection, IsInjective
<1>7. Cardinality(S) <= Cardinality(T)
  BY <1>5, <1>6, FS_Injection
<1>. QED
  BY <1>7 DEF S, T

-----------------------------------------------------------------------------
(* The theorems. *)

LEMMA IngestInit == Init => IngestInv
<1> SUFFICES ASSUME Init PROVE IngestInv
  OBVIOUS
<1> USE IngestAssumption DEF Init
<1>1. TypeInv
  BY TypeInit
<1>2. \A w \in Workers : ~Busy(w)
  BY IdleType DEF Busy
<1>3. Session \in Workers
  BY DEF Workers
<1>. QED
  BY <1>1, <1>2, <1>3
  DEF IngestInv, CoreInv, ClockInv, QrApart, PassInv, UnsweptInv, LaterInv, SweptInv,
      PhaseInv, DroppedInv

LEMMA IngestStep ==
  ASSUME ImportsKeepUp, IngestInv, [Next]_vars
  PROVE  IngestInv'
  BY TypeStep, CoreStep, PhaseStep, DroppedStep DEF IngestInv

LEMMA OwedIsDue ==
  ASSUME TypeInv, NEW i \in DOMAIN flash, Owed(i)
  PROVE  Due(i)
  BY DEF Owed, Due, Rejected

\* While a pass that finds an active device completes in every look-back
\* window, the floor of the next incremental pass stays below every owed scan
\* that has no row, whatever the stream and concurrent passes have inserted in
\* the meantime.
THEOREM FloorNeverOvertakes ==
  ASSUME ImportsKeepUp
  PROVE  Spec => []MissedScanStaysAboveFloor
<1>1. IngestInv /\ [Next]_vars => IngestInv'
  BY IngestStep
<1>2. IngestInv => MissedScanStaysAboveFloor
  <2> SUFFICES ASSUME IngestInv, NEW i \in DOMAIN flash, Owed(i), ~Stored(i),
                      NEW f \in Floors("incremental")
               PROVE  flash[i].ts > f
    BY DEF MissedScanStaysAboveFloor
  <2>1. flash[i].ts \in Nat /\ flash[i].ts > now - Lookback
    BY OwedIsDue, DueIsYoung DEF IngestInv
  <2>2. f \in Int /\ f <= now - Lookback /\ now \in Nat
    BY FloorBound DEF IngestInv, TypeInv, TypeOK
  <2>. QED
    BY <2>1, <2>2, IngestAssumption
<1>. QED
  BY IngestInit, <1>1, <1>2, PTL DEF Spec

\* Under the same assumption the catch-up flag stays up for every scan a
\* disruption of the session has cost, until the scan has its row or a
\* catch-up of the session thread finds no active device and gives it up.
THEOREM CatchUpStaysArmed ==
  ASSUME ImportsKeepUp
  PROVE  Spec => []DisruptionArmsCatchUp
<1>1. IngestInv /\ [Next]_vars => IngestInv'
  BY IngestStep
<1>2. IngestInv => DisruptionArmsCatchUp
  BY DEF DisruptionArmsCatchUp, IngestInv, DroppedInv, Owed
<1>. QED
  BY IngestInit, <1>1, <1>2, PTL DEF Spec

\* Under the same assumption a pass that has gone through the log it fetched
\* leaves a row behind for every scan of it the system owed one.
THEOREM SweepHeals ==
  ASSUME ImportsKeepUp
  PROVE  Spec => []SweepHealsMissedScans
<1>1. IngestInv /\ [Next]_vars => IngestInv'
  BY IngestStep
<1>2. IngestInv /\ HealedInv /\ [Next]_vars => HealedInv'
  BY HealedStep
<1>3. Init => HealedInv
  BY IdleType DEF Init, HealedInv, Busy
<1>4. IngestInv /\ HealedInv => SweepHealsMissedScans
  <2> SUFFICES ASSUME IngestInv, HealedInv, NEW w \in Workers, worker[w].pc = "check",
                      worker[w].pos > worker[w].upto, NEW i \in 1 .. worker[w].upto,
                      Owed(i), flash[i].ts <= worker[w].fetchedAt + Ahead
               PROVE  Stored(i)
    BY DEF SweepHealsMissedScans
  <2>1. worker[w].upto \in Nat /\ worker[w].pos \in Nat
    BY PassFields DEF IngestInv, TypeInv, TypeOK
  <2>2. i \in DOMAIN flash /\ i < worker[w].pos
    BY <2>1 DEF IngestInv, TypeInv, TypeOK, PassBounds, Busy
  <2>. QED
    BY <2>2, OwedIsDue DEF HealedInv, Busy, IngestInv
<1>. QED
  BY IngestInit, <1>1, <1>2, <1>3, <1>4, PTL DEF Spec

\* Whatever the interleaving of the real-time handler with any number of
\* passes, and however often passes complete, the reader never gets more rows
\* for a badge and an instant than scans were made there.
THEOREM ScansRecordedOnce == Spec => []NoScanRecordedTwice
<1> DEFINE Inv == TypeInv /\ PhaseInv /\ LiveInv /\ MatchInv
<1>1. Init => Inv
  <2> SUFFICES ASSUME Init PROVE Inv
    OBVIOUS
  <2>1. \A w \in Workers : ~Busy(w) /\ worker[w].pc = "idle"
    BY IdleType DEF Init, Busy
  <2>2. LiveInv
    BY <2>1 DEF Init, LiveInv, Pending
  <2>3. MatchInv
    <3> DEFINE f == [r \in ReaderRows |-> 1]
    <3>1. ReaderRows = {}
      BY DEF Init, ReaderRows
    <3>2. f \in [ReaderRows -> DOMAIN flash] /\ Matching(f)
      BY <3>1 DEF Matching
    <3>. QED
      BY <3>2 DEF MatchInv
  <2>4. PhaseInv
    BY <2>1, IngestAssumption DEF Init, PhaseInv, Workers
  <2>. QED
    BY <2>2, <2>3, <2>4, TypeInit
<1>2. Inv /\ [Next]_vars => Inv'
  BY TypeStep, PhaseStep, LiveStep, MatchStep
<1>3. Inv => NoScanRecordedTwice
  BY MatchBounds
<1>. QED
  BY <1>1, <1>2, <1>3, PTL DEF Spec

=============================================================================
