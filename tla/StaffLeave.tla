------------------------------- MODULE StaffLeave -------------------------------
(***************************************************************************)
(* One employee's leave requests, filed over LINE, reviewed by managers    *)
(* and edited on the roster page: app/services/staff_leave.py with the     *)
(* overrides that staff_leave_options.py (half days) and                   *)
(* staff_leave_manage.py (edit, cancel) install on it,                     *)
(* staff_leave_roster.py, and the roster writes of app/api/leaves.py.      *)
(*                                                                         *)
(* A handler runs on a worker thread with a session of its own.  Its       *)
(* SELECTs come first and see what is committed then; SQLite takes the     *)
(* write lock at its first INSERT, UPDATE or DELETE and keeps it until     *)
(* commit or rollback.  So a handler is a read step followed by one atomic *)
(* write step, and the read may be old by then.                            *)
(***************************************************************************)
EXTENDS Integers, FiniteSets

CONSTANTS
  Requests,    \* form ids (uuid4)
  Workers,     \* handlers that may run at the same time
  LastDay,     \* the calendar is 1 .. LastDay
  Filed,       \* the leaves that are filed or edited to
  LongSick,    \* a sick leave of more days needs a certificate (3 in the code)
  Settings,    \* the values STAFF_LEAVE_AUTO_APPROVE may have
  Operations,  \* the operations that happen
  Overlapping, \* by setting: the operations that may run beside each other
  MaxCalls,    \* bound: handlers started
  Nobody,      \* no request
  Admin        \* the roster page

Days == 1 .. LastDay
Portions == {"full", "half"}   \* "am" and "pm" are one value here
Leaves == [sick : BOOLEAN, from : Days, to : Days, portion : Portions]

Span(leave) == leave.from .. leave.to
AsPortion(leave, portion) == [leave EXCEPT !.portion = portion]

\* The CHECK constraints of staff_leave_requests.
WellFormed(leave) ==
  leave.from <= leave.to /\ (leave.portion = "full" \/ leave.from = leave.to)

ASSUME LeaveAssumption ==
  /\ LastDay \in Nat \ {0} /\ LongSick \in Nat \ {0} /\ MaxCalls \in Nat
  /\ Settings \subseteq BOOLEAN /\ Overlapping \in [BOOLEAN -> SUBSET Operations]
  /\ Filed \subseteq Leaves /\ \A leave \in Filed : WellFormed(leave)
  /\ Nobody # Admin /\ {Nobody, Admin} \cap Requests = {}

VARIABLES
  request,  \* staff_leave_requests, by id
  reserved, \* staff_leave_days: the request that holds a day, or Nobody
  roster,   \* employee_leaves: by day, whose note it carries and the portion
  job,      \* the handler a worker runs
  calls,    \* handlers started so far
  auto,     \* auto_approve_enabled()
  stray     \* history: requests an edit wrote over a row it had not read

vars == <<request, reserved, roster, job, calls, auto, stray>>

Blank == [sick |-> FALSE, from |-> 1, to |-> 1, portion |-> "full"]

\* A photo of a certificate is named by the leave it was sent for.
NoPhoto == Nobody
Absent == [status |-> "none", leave |-> Blank, version |-> 0,
           reviewer |-> "nobody", certificate |-> NoPhoto]

\* What the writes make of a row.
New(leave) == [Absent EXCEPT !.status = "pending", !.leave = leave, !.version = 1]
Halved(row) == [row EXCEPT !.leave = AsPortion(row.leave, "half")]
Decided(row, status, reviewer) ==
  [row EXCEPT !.status = status, !.version = row.version + 1, !.reviewer = reviewer]
Cancelled(row) ==
  [row EXCEPT !.status = "cancelled", !.version = row.version + 1, !.certificate = NoPhoto]
TakenOff(row) == [Cancelled(row) EXCEPT !.reviewer = "roster"]
Edited(row, leave, version, photo) ==
  [row EXCEPT !.leave = leave, !.version = version, !.certificate = photo]
Certified(row) == [row EXCEPT !.certificate = row.leave, !.version = row.version + 1]

Free == [by |-> Nobody, portion |-> "full"]
AdminRow == [by |-> Admin, portion |-> "full"]

\* op: what was called; pc: the next write (or, for "approve", the next read);
\* row: the request as it was read; old: the roster row as it was read.
NoJob == [op |-> "none", pc |-> "idle", id |-> Nobody, leave |-> Blank, row |-> Absent,
          day |-> 1, old |-> Free]

Init ==
  /\ request = [r \in Requests |-> Absent]
  /\ reserved = [d \in Days |-> Nobody]
  /\ roster = [d \in Days |-> Free]
  /\ job = [w \in Workers |-> NoJob]
  /\ calls = 0
  /\ auto \in Settings
  /\ stray = {}

LinkedDays(r) == {d \in Days : roster[d].by = r}   \* roster_rows_for_request
ReservedDays(r) == {d \in Days : reserved[d] = r}
RosterFree(leave) == \A d \in Span(leave) : roster[d] = Free
Released(r) == [d \in Days |-> IF reserved[d] = r THEN Nobody ELSE reserved[d]]

\* The primary key (badge, date) of staff_leave_days.
NotReserved(leave, r) == \A d \in Span(leave) : reserved[d] \in {r, Nobody}

NeedsCertificate(row) ==
  /\ row.leave.sick /\ row.leave.to - row.leave.from + 1 > LongSick
  /\ row.certificate = NoPhoto

Busy == {w \in Workers : job[w].pc # "idle"}

\* The overlaps are a bound: operations outside Overlapping run alone.
Call(w, op) ==
  /\ op \in Operations /\ w \notin Busy /\ calls < MaxCalls
  /\ Busy = {} \/ {op} \cup {job[v].op : v \in Busy} \subseteq Overlapping[auto]
Goes(w, next) == job' = [job EXCEPT ![w] = next] /\ UNCHANGED auto
Run(w, next) == Goes(w, next) /\ UNCHANGED stray
Done(w) == Run(w, NoJob)
NoWrite == UNCHANGED <<request, reserved, roster>>

\* A call whose reads end it at once (refusals, no-ops) changes nothing and is
\* left out; one that goes on counts.
Starts(w, op, next) == Run(w, [next EXCEPT !.op = op]) /\ calls' = calls + 1 /\ NoWrite

-----------------------------------------------------------------------------
(* The confirmation of a new leave: submit, _submit_half. *)

SubmitOf(leave) == IF leave.portion = "half" THEN "submit half" ELSE "submit"

\* The reads.  A form id that exists is answered with its request, which may
\* still be recorded now: a half-day form only if the portion is the same.
ReadSubmit(w, r, leave) ==
  LET op == SubmitOf(leave)
  IN /\ Call(w, op)
     /\ IF request[r] = Absent
        THEN /\ RosterFree(leave)
             /\ Starts(w, op, [NoJob EXCEPT !.pc = "insert", !.id = r, !.leave = leave])
        ELSE /\ IF leave.portion = "half" THEN request[r].leave.portion = "half"
                ELSE AsPortion(request[r].leave, "full") = leave
             /\ Starts(w, op, [NoJob EXCEPT !.pc = "approve", !.id = r])

\* Request and reserved days in one transaction, always as a full day; a key
\* that is taken rolls both back.  The same request then counts as success.
Insert(w) ==
  LET r == job[w].id
      leave == AsPortion(job[w].leave, "full")
      half == job[w].leave.portion = "half"
      onwards == [job[w] EXCEPT !.pc = IF half THEN "portion" ELSE "approve"]
  IN /\ job[w].pc = "insert" /\ UNCHANGED <<roster, calls>>
     /\ \/ /\ request[r] = Absent /\ NotReserved(leave, Nobody)
           /\ request' = [request EXCEPT ![r] = New(leave)]
           /\ reserved' = [d \in Days |-> IF d \in Span(leave) THEN r ELSE reserved[d]]
           /\ Run(w, onwards)
        \/ /\ request[r] # Absent \/ ~NotReserved(leave, Nobody)
           /\ IF request[r] # Absent /\ AsPortion(request[r].leave, "full") = leave
              THEN Run(w, onwards) ELSE Done(w)
           /\ UNCHANGED <<request, reserved>>

\* The second commit of a half day.  It asks nothing of the row; if the dates
\* are no single day by now the CHECK fails and the handler dies.
SetPortion(w) ==
  /\ job[w].pc = "portion"
  /\ WellFormed(Halved(request[job[w].id]).leave)
  /\ request' = [request EXCEPT ![job[w].id] = Halved(request[job[w].id])]
  /\ Run(w, [job[w] EXCEPT !.pc = "approve"])
  /\ UNCHANGED <<reserved, roster, calls>>

-----------------------------------------------------------------------------
(* decide, and _maybe_auto_approve, which calls it. *)

\* The reads of _maybe_auto_approve and of the decide in it.
ReadAutoApprove(w) ==
  LET row == request[job[w].id]
  IN /\ job[w].pc = "approve" /\ UNCHANGED calls /\ NoWrite
     /\ IF auto /\ row.status = "pending" /\ ~NeedsCertificate(row)
        THEN Run(w, [job[w] EXCEPT !.pc = "auto", !.row = row])
        ELSE Done(w)

\* A manager decides what an earlier page showed: any version up to now, of
\* which all but the current one fail.
ReadDecide(w, r, verdict) ==
  /\ Call(w, "decide") /\ request[r] # Absent
  /\ verdict = "approved" => ~NeedsCertificate(request[r])
  /\ \E version \in 1 .. request[r].version :
       Starts(w, "decide", [NoJob EXCEPT !.pc = verdict, !.id = r,
                               !.row = [request[r] EXCEPT !.version = version]])

Undecided(w) ==
  /\ request[job[w].id].status = "pending"
  /\ request[job[w].id].version = job[w].row.version

Decide(r, status, reviewer) ==
  request' = [request EXCEPT ![r] = Decided(request[r], status, reviewer)]

\* The conditional UPDATE and the roster rows, for the dates and the portion
\* that were read; a roster row on one of the days rolls all back.
Approve(w) ==
  LET r == job[w].id
      leave == job[w].row.leave
  IN /\ job[w].pc \in {"approved", "auto"} /\ Done(w) /\ UNCHANGED <<reserved, calls>>
     /\ IF Undecided(w) /\ RosterFree(leave)
        THEN /\ Decide(r, "approved", IF job[w].pc = "auto" THEN "auto" ELSE "manager")
             /\ roster' = [d \in Days |-> IF d \in Span(leave)
                  THEN [by |-> r, portion |-> leave.portion] ELSE roster[d]]
        ELSE UNCHANGED <<request, roster>>

Reject(w) ==
  /\ job[w].pc = "rejected" /\ Done(w) /\ UNCHANGED <<roster, calls>>
  /\ IF Undecided(w)
     THEN Decide(job[w].id, "rejected", "manager") /\ reserved' = Released(job[w].id)
     ELSE UNCHANGED <<request, reserved>>

-----------------------------------------------------------------------------
(* cancel, behind the picker of staff_leave_manage. *)

\* Mutant: whoever reviewed it.
RecordedByAnyone(row) == row.status = "approved"

AutoRecorded(row) == row.status = "approved" /\ row.reviewer = "auto"

\* _is_cancellable.  A button of an older version is refused here.
ReadCancel(w, r) ==
  /\ Call(w, "cancel")
  /\ request[r].status = "pending" \/ (AutoRecorded(request[r]) /\ LinkedDays(r) # {})
  /\ Starts(w, "cancel", [NoJob EXCEPT !.pc = "cancel", !.id = r, !.row = request[r]])

\* The condition of the UPDATE: it has no version.
Cancellable(row) == row.status = "pending" \/ AutoRecorded(row)

\* Mutant: the roster rows are left behind.
CancelKeepsRoster(w) ==
  /\ job[w].pc = "cancel" /\ Done(w) /\ UNCHANGED <<roster, calls>>
  /\ Cancellable(request[job[w].id])
  /\ request' = [request EXCEPT ![job[w].id] = Cancelled(request[job[w].id])]
  /\ reserved' = Released(job[w].id)

\* Whether there are roster rows to delete is known from the row as it was
\* read (auto_recorded).
Cancel(w) ==
  LET r == job[w].id
      row == job[w].row
  IN /\ job[w].pc = "cancel" /\ Done(w) /\ UNCHANGED calls
     /\ IF Cancellable(request[r])
        THEN /\ request' = [request EXCEPT ![r] = Cancelled(request[r])]
             /\ reserved' = Released(r)
             /\ roster' = [d \in Days |->
                  IF AutoRecorded(row) /\ d \in LinkedDays(r) \cap Span(row.leave)
                  THEN Free ELSE roster[d]]
        ELSE NoWrite

-----------------------------------------------------------------------------
(* _edit_request. *)

\* A repeated confirmation finds the row as it wants it and may still have it
\* recorded.
ReadEdit(w, r, leave) ==
  /\ Call(w, "edit") /\ request[r].status = "pending"
  /\ IF request[r].leave = leave
     THEN Starts(w, "edit", [NoJob EXCEPT !.pc = "approve", !.id = r])
     ELSE /\ RosterFree(leave)
          /\ Starts(w, "edit", [NoJob EXCEPT !.pc = "edit", !.id = r, !.leave = leave,
                                     !.row = request[r]])

\* The session writes the columns it changed, under the id alone: no status
\* and no version is asked for, and the version is the one read, plus one.
Column(was, wanted, current) == IF wanted # was THEN wanted ELSE current
Written(w) ==
  LET was == job[w].row.leave
      wanted == job[w].leave
      now == request[job[w].id].leave
  IN [sick |-> Column(was.sick, wanted.sick, now.sick),
      from |-> Column(was.from, wanted.from, now.from),
      to |-> Column(was.to, wanted.to, now.to),
      portion |-> Column(was.portion, wanted.portion, now.portion)]

\* The column of the photo is written if there was one to clear.
KeptPhoto(w) ==
  IF job[w].row.certificate = NoPhoto THEN request[job[w].id].certificate ELSE NoPhoto

\* A row that was decided, cancelled, edited or certified since it was read is
\* written over all the same.
Strays(w) ==
  stray' = IF job[w].row = request[job[w].id] THEN stray ELSE stray \cup {job[w].id}

\* Mutant: an edited leave keeps the certificate of the old one.
EditKeepsCertificate(w) ==
  LET r == job[w].id
  IN /\ job[w].pc = "edit" /\ UNCHANGED <<roster, calls>>
     /\ NotReserved(job[w].leave, r)
     /\ request' = [request EXCEPT ![r] =
          Edited(request[r], Written(w), job[w].row.version + 1, request[r].certificate)]
     /\ reserved' = [d \in Days |-> IF d \in Span(job[w].leave) THEN r ELSE Released(r)[d]]
     /\ Goes(w, [job[w] EXCEPT !.pc = "approve"]) /\ Strays(w)

Edit(w) ==
  LET r == job[w].id
      fits == WellFormed(Written(w)) /\ NotReserved(job[w].leave, r)
  IN /\ job[w].pc = "edit" /\ UNCHANGED <<roster, calls>>
     /\ IF fits
        THEN /\ request' = [request EXCEPT ![r] =
                  Edited(request[r], Written(w), job[w].row.version + 1, KeptPhoto(w))]
             /\ reserved' = [d \in Days |-> IF d \in Span(job[w].leave) THEN r ELSE Released(r)[d]]
             /\ Goes(w, [job[w] EXCEPT !.pc = "approve"]) /\ Strays(w)
        ELSE Done(w) /\ UNCHANGED <<request, reserved>>

-----------------------------------------------------------------------------
(* attach_medical_certificate, for the request _medical_target finds. *)

ReadCertificate(w, r) ==
  /\ Call(w, "certificate")
  /\ request[r].status = "pending" /\ request[r].leave.sick /\ request[r].certificate = NoPhoto
  /\ Starts(w, "certificate", [NoJob EXCEPT !.pc = "certificate", !.id = r])

Attach(w) ==
  LET r == job[w].id
  IN /\ job[w].pc = "certificate" /\ UNCHANGED <<reserved, roster, calls>>
     /\ IF request[r].status = "pending" /\ request[r].certificate = NoPhoto
        THEN /\ request' = [request EXCEPT ![r] = Certified(request[r])]
             /\ Run(w, [job[w] EXCEPT !.pc = "approve"])
        ELSE Done(w) /\ UNCHANGED request

-----------------------------------------------------------------------------
(* The roster page: delete_employee_leave, create_employee_leaves. *)

ReadRoster(w, d, op) ==
  /\ Call(w, op)
  /\ Starts(w, op, [NoJob EXCEPT !.pc = op, !.day = d, !.old = roster[d]])

ReleasedOnRemoval(r, d, left) ==
  IF left = {} /\ request[r].status = "approved" THEN Released(r)
  ELSE [reserved EXCEPT ![d] = IF @ = r THEN Nobody ELSE @]

\* on_roster_leave_removed(old): the day is released, and an approved request
\* without a roster row is cancelled.
OnRosterLeaveRemoved(old, d) ==
  LET r == old.by
      left == {e \in Days : roster'[e].by = r}
  IN IF r \notin Requests THEN UNCHANGED <<request, reserved>>
     ELSE /\ reserved' = ReleasedOnRemoval(r, d, left)
          /\ request' = IF left # {} \/ request[r].status # "approved" THEN request
               ELSE [request EXCEPT ![r] = TakenOff(request[r])]

RosterDelete(w) ==
  /\ job[w].pc = "delete" /\ Done(w) /\ UNCHANGED calls
  /\ roster' = [roster EXCEPT ![job[w].day] = Free]
  /\ OnRosterLeaveRemoved(job[w].old, job[w].day)

\* One day, with a note of the admin's own; or with none, or with the reference
\* the row carries, and then the row of a request stays that request's.  A row
\* that appeared or vanished since the read fails the flush.
RosterWrite(w) ==
  LET d == job[w].day
  IN /\ job[w].pc = "write" /\ Done(w) /\ UNCHANGED calls
     /\ IF (job[w].old = Free) = (roster[d] = Free)
        THEN \/ roster' = [roster EXCEPT ![d] = AdminRow] /\ OnRosterLeaveRemoved(job[w].old, d)
             \/ job[w].old.by \in Requests /\ NoWrite
        ELSE NoWrite

-----------------------------------------------------------------------------
\* The process stops, or the database stays locked too long: what the handler
\* has not committed is lost.
Dies(w) == job[w].pc # "idle" /\ Done(w) /\ UNCHANGED calls /\ NoWrite

\* The switch is read live; it is flipped between calls.
FlipSwitch ==
  Busy = {} /\ auto' \in Settings \ {auto} /\ NoWrite /\ UNCHANGED <<job, calls, stray>>

Commits(w) ==
  \/ Insert(w) \/ SetPortion(w) \/ ReadAutoApprove(w) \/ Approve(w) \/ Reject(w)
  \/ Cancel(w) \/ Edit(w) \/ Attach(w) \/ RosterDelete(w) \/ RosterWrite(w)

Employee(w, r) ==
  \/ \E leave \in Filed : ReadSubmit(w, r, leave) \/ ReadEdit(w, r, leave)
  \/ ReadCancel(w, r) \/ ReadCertificate(w, r)

Manager(w, r) == \E verdict \in {"approved", "rejected"} : ReadDecide(w, r, verdict)
RosterPage(w, d) == ReadRoster(w, d, "delete") \/ ReadRoster(w, d, "write")

Next ==
  \/ \E w \in Workers :
       \/ \E r \in Requests : Employee(w, r) \/ Manager(w, r)
       \/ \E d \in Days : RosterPage(w, d)
       \/ Commits(w) \/ Dies(w)
  \/ FlipSwitch

Spec == Init /\ [][Next]_vars

-----------------------------------------------------------------------------
(* Properties. *)

Rows == [status : {"none", "pending", "approved", "rejected", "cancelled"}, leave : Leaves,
         version : Nat, reviewer : {"nobody", "auto", "manager", "roster"},
         certificate : Leaves \cup {NoPhoto}]
RosterRows == [by : Requests \cup {Nobody, Admin}, portion : Portions]
Pcs == {"idle", "insert", "portion", "approve", "approved", "auto", "rejected", "cancel",
        "edit", "certificate", "delete", "write"}

TypeOK ==
  /\ request \in [Requests -> Rows]
  /\ reserved \in [Days -> Requests \cup {Nobody}]
  /\ roster \in [Days -> RosterRows]
  /\ job \in [Workers -> [op : Operations \cup {"none"}, pc : Pcs, id : Requests \cup {Nobody},
                          leave : Leaves, row : Rows, day : Days, old : RosterRows]]
  /\ calls \in 0 .. MaxCalls /\ auto \in Settings /\ stray \subseteq Requests
  /\ \A r \in Requests : WellFormed(request[r].leave)

\* What no edit wrote over a row that had changed since it was read.
Tracked == Requests \ stray

\* Exactly the approved requests mark the employee off: each has a row on the
\* roster, within its dates and of its portion, and no other request has one.
RosterFollowsRequests ==
  \A r \in Tracked :
    /\ (LinkedDays(r) # {}) = (request[r].status = "approved")
    /\ LinkedDays(r) \subseteq Span(request[r].leave)
    /\ \A d \in LinkedDays(r) : roster[d].portion = request[r].leave.portion

\* A pending request holds the days it asks for, an approved one the days the
\* roster still gives it, any other request none: days of a partly removed or
\* ended leave can be filed again, and no day of a live one can.
DaysFollowRequests ==
  \A r \in Tracked :
    ReservedDays(r) = CASE request[r].status = "pending"  -> Span(request[r].leave)
                        [] request[r].status = "approved" -> LinkedDays(r)
                        [] OTHER                          -> {}

\* Roster, reserved days and requests tell one story after every commit, with
\* handlers that die between their commits and others that interleave; an edit
\* that wrote over what had changed spoils its own request and no other.
LeavesAgree == TypeOK /\ RosterFollowsRequests /\ DaysFollowRequests

\* No way of approving - by a manager, on confirmation, after an edit or a
\* photo - records a long sick leave without a certificate that was sent for
\* these dates: the photo of a leave that was edited since does not count.
\* (Only an edit that wrote over what had changed can bring it about.)
LongSickIsCertified ==
  \A r \in Tracked : LET row == request[r] IN
    row.status = "approved" /\ row.leave.sick /\ row.leave.to - row.leave.from + 1 > LongSick =>
      row.certificate # NoPhoto /\ Span(row.certificate) = Span(row.leave)

\* An edit that read the request while it was pending.
EditOf(w, r) == job[w].pc = "edit" /\ job[w].id = r /\ job[w].row.status = "pending"

\* What a manager decided stays decided: only the roster page may end it, and
\* only an edit that read the request before may still change its dates, its
\* portion, its version or its photo - never the verdict or whose it is.
DecisionsAreFinal ==
  [][\A r \in Requests : request[r].reviewer = "manager" =>
       \/ request'[r] = request[r]
       \/ request'[r].status = "cancelled" /\ request'[r].reviewer = "roster"
       \/ /\ \E w \in Workers : EditOf(w, r)
          /\ request'[r].status = request[r].status /\ request'[r].reviewer = "manager"]_vars

\* "Pending/rejected/cancelled requests never mark the employee off."
\* (docs/staff-leave.md)
OnlyApprovedMarksOff ==
  \A r \in Requests : LinkedDays(r) # {} => request[r].status = "approved"

=============================================================================
