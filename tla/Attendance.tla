------------------------------- MODULE Attendance -------------------------------
(***************************************************************************)
(* An employee's month: schedules, punches and leave come and go while the *)
(* clock moves; and, apart from it, a QR terminal.                         *)
(***************************************************************************)
EXTENDS AttendanceDay, QrCheckIn

vars == <<scheduleVars, dayVars, qrVars>>

Init == ScheduleInit /\ DayInit /\ QrInit

Schedules ==
  /\ UNCHANGED dayVars
  /\ \/ \E d \in Days, v \in plan.versions : UpsertSchedule(d, v.role, v.days, v.hours)
     \/ \E d \in Days : DeleteSchedule(d) \/ DeleteAssignment(d)
     \/ \E of \in plan.roles, hours \in plan.hours \cup {NoHours} : UpdateShift(of, hours)
     \/ \E d \in Days, hours \in plan.hours \cup {Off} : PutAssignment(d, hours)

Records ==
  \/ \E at \in plan.instants, type \in PunchTypes : PunchStored(at, type)
  \/ \E d \in Days : HolidayChanges(d)
  \/ \E d \in Days, leave \in {"none", "half", "full"} : LeaveChanges(d, leave)

MonthStep == (Schedules \/ Records \/ (ClockMoves /\ UNCHANGED dayVars)) /\ UNCHANGED qrVars

TerminalStep ==
  /\ "qr" \in plan.kinds /\ UNCHANGED <<scheduleVars, dayVars>>
  /\ \/ Fetch \/ Show \/ FetchFails \/ SecondPasses
     \/ \E s \in Submits : ScanCode(s) \/ \E badge \in Staff : Submit(s, badge)
     \/ \E badge \in Staff : StaffChanges(badge)

Next == MonthStep \/ TerminalStep

Spec == Init /\ [][Next]_vars

-----------------------------------------------------------------------------
(* Properties. *)

\* The two pages say the same of a day that has come, though each derives it by
\* itself, one from all punches and one from those fetched for the month; who is
\* late by the month is late by the day.  In the totals such a day counts as one
\* day, off as a whole only if the day's page shows it as off, worked in part
\* only if that page shows an arrival, also when half of it is leave.
PagesAgree ==
  \A day \in MonthDays :
    LET byDate == ByDate(day)
        row == MonthDay(day)
        halves == Halves(day)
    IN day <= Today /\ byDate # "omitted" =>
         /\ byDate = "off" <=> row.status \in {"off", "leave"}
         /\ byDate = "absent" <=> row.status \in {"absent", "pending"}
         /\ CountsAsLate(row) => byDate = "late"
         /\ row.status # "pending" =>
              halves["present"] + halves["absent"] + halves["off"] + halves["leave"] = 2
         /\ byDate = "off" <=> halves["off"] + halves["leave"] = 2
         /\ byDate \in {"late", "on_time"} <=> halves["present"] > 0
         /\ row.status = "present" =>
              LET hours == EffectiveShift(day).hours
              IN Worked(row) < ShiftEnd(hours, day) - ShiftStart(hours, day) + 2 * Buffer

\* "A May report keeps May's schedule": a change of later versions or of the row
\* leaves a day alone that has a version.
HistoryStands ==
  [][\A day \in Days :
       /\ AsOf(versions, day) # NoVersion /\ assignments'[day] = assignments[day]
       /\ \A d \in Days : d <= day => versions'[d] = versions[d]
       => EffectiveShift(day)' = EffectiveShift(day)]_vars

Over(day) ==
  LET hours == EffectiveShift(day).hours
  IN day < Today /\ (hours # NoHours => ShiftEnd(hours, day) <= now)

\* A day that is over does not change by itself: no assumed departure, no late
\* or missing arrival comes or goes as time passes.
DaysSettle ==
  [][now' # now => \A day \in MonthDays : Over(day) => MonthDay(day)' = MonthDay(day)]_vars

=============================================================================
