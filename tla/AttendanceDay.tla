----------------------------- MODULE AttendanceDay -----------------------------
(***************************************************************************)
(* What the by-date and the monthly pages make of an employee's punches:   *)
(* app/api/consolidated_attendance.py, with the punch windows of           *)
(* app/services/shift_service.py.  Each page derives a day of its own.  A  *)
(* half day of leave is no leave to either (app/services/                  *)
(* staff_leave_options.py replaces their functions when it is imported):   *)
(* it only splits the day in the month's totals.                           *)
(***************************************************************************)
EXTENDS WorkSchedule

CONSTANTS
  Month,      \* the days of the month, first and last
  Buffer,     \* minutes around a shift in which punches count (120)
  Around,     \* minutes around the middle in which the type decides (60)
  Grace, Severe, \* minutes of lateness that are forgiven (5), and are severe (30)
  Before,     \* minutes before the month whose punches are fetched (180)
  PunchTypes, \* "in", "out" and unspecified ones
  None

MonthDays == Month[1] .. Month[2]

ASSUME DayAssumption ==
  /\ MonthDays \subseteq Days /\ {Buffer, Around, Grace, Severe, Before} \subseteq Nat
  /\ Grace > 0 /\ Buffer > 0
  /\ Month[1] \in Nat /\ Month[2] \in Nat
  /\ Buffer <= Before /\ Buffer <= DayLength

VARIABLES
  punches,  \* attendance_records of the employee: [at, type]
  holidays, \* public_holidays
  leaves    \* employee_leaves of the employee, by date: "full", "half" or "none"

dayVars == <<punches, holidays, leaves>>

DayInit == punches = {} /\ holidays = {} /\ leaves = [d \in Days |-> "none"]

-----------------------------------------------------------------------------
(* Windows. *)

ShiftStart(hours, day) == day * DayLength + hours.start
ShiftEnd(hours, day) ==
  (IF hours.end <= hours.start THEN day + 1 ELSE day) * DayLength + hours.end

\* shift_window_for
InWindow(at, hours, day) ==
  ShiftStart(hours, day) - Buffer <= at /\ at < ShiftEnd(hours, day) + Buffer

-----------------------------------------------------------------------------
(* The by-date page. *)

Least(times) == CHOOSE t \in times : \A other \in times : t <= other
Greatest(times) == CHOOSE t \in times : \A other \in times : other <= t

\* get_attendance_by_date, _build_shift_row
ByDate(day) ==
  LET eff == EffectiveShift(day)
      at == {p.at : p \in {q \in punches : InWindow(q.at, eff.hours, day)}}
  IN IF eff.status = "untracked" THEN "omitted"
     ELSE IF \/ day \in holidays /\ eff.role # Reception
             \/ leaves[day] = "full" \/ eff.status = "off" THEN "off"
     ELSE IF at = {} THEN "absent"
     ELSE IF Least(at) > ShiftStart(eff.hours, day) THEN "late" ELSE "on_time"

-----------------------------------------------------------------------------
(* The monthly page. *)

\* Mutant: to the end of the last day only.
FetchedToMonthEnd ==
  {p \in punches : Month[1] * DayLength - Before <= p.at /\ p.at < (Month[2] + 1) * DayLength}

Fetched ==
  {p \in punches : Month[1] * DayLength - Before <= p.at /\ p.at < (Month[2] + 2) * DayLength}

\* The position in the shift tells arrivals from departures, the type only near
\* the middle.
Arrival(p, hours, day) ==
  LET twice == 2 * p.at - (ShiftStart(hours, day) + ShiftEnd(hours, day))
      near == -2 * Around <= twice /\ twice <= 2 * Around
  IN IF near /\ p.type \in {"in", "out"} THEN p.type = "in" ELSE twice <= 0

DayRow(status) == [status |-> status, in |-> None, out |-> None, assumed |-> {}, late |-> 0]

Present(day, hours, counted) ==
  LET arrivals == {p.at : p \in {q \in counted : Arrival(q, hours, day)}}
      departures == {p.at : p \in {q \in counted : ~Arrival(q, hours, day)}}
      start == ShiftStart(hours, day)
      end == ShiftEnd(hours, day)
      in == IF arrivals = {} THEN start ELSE Least(arrivals)
  IN [status |-> "present", in |-> in,
      out |-> IF departures # {} THEN Greatest(departures) ELSE IF now >= end THEN end ELSE None,
      assumed |-> (IF arrivals = {} THEN {"in"} ELSE {})
                    \cup (IF departures = {} /\ now >= end THEN {"out"} ELSE {}),
      late |-> IF in > start THEN in - start ELSE 0]

\* Mutant: a shift that has not begun is pending on any day.
WithoutPunchAnyDay(day, hours) ==
  IF (now % DayLength) < hours.start THEN "pending" ELSE "absent"

WithoutPunch(day, hours) ==
  IF day = Today /\ now < ShiftStart(hours, day) THEN "pending" ELSE "absent"

\* _build_month_day
MonthDay(day) ==
  LET eff == EffectiveShift(day)
      counted == {p \in Fetched : InWindow(p.at, eff.hours, day)}
  IN IF day > Today THEN DayRow("future")
     ELSE IF day \in holidays /\ eff.role # Reception THEN DayRow("off")
     ELSE IF leaves[day] = "full" THEN DayRow("leave")
     ELSE IF eff.status \in {"off", "untracked"} THEN DayRow(eff.status)
     ELSE IF counted = {} THEN DayRow(WithoutPunch(day, eff.hours))
     ELSE Present(day, eff.hours, counted)

\* The row's part in get_attendance_monthly's totals.
Worked(row) == IF row.status = "present" /\ row.out # None /\ row.out > row.in THEN row.out - row.in ELSE 0
CountsAsLate(row) == row.late >= Grace
CountsAsSevere(row) == row.late >= Severe

\* recount_monthly_day_totals: how many halves of the day count as what.
Halves(day) ==
  LET status == MonthDay(day).status
      half == IF leaves[day] = "half" THEN 1 ELSE 0
  IN [counted \in {"present", "absent", "off", "leave"} |->
        IF status \in {"untracked", "future", "pending"} THEN 0
        ELSE (IF counted = status THEN 2 - half ELSE 0) + (IF counted = "leave" THEN half ELSE 0)]

-----------------------------------------------------------------------------

\* A record appears: at once, or when the reader is read later.
PunchStored(at, type) ==
  /\ Changes("punch") /\ at <= now
  /\ punches' = punches \cup {[at |-> at, type |-> type]}
  /\ UNCHANGED <<now, role, default, versions, assignments, plan, holidays, leaves>>

\* POST and DELETE holidays; POST and DELETE of roster leaves, and approvals
\* of whole and half days.
HolidayChanges(day) ==
  /\ Changes("holiday")
  /\ holidays' = IF day \in holidays THEN holidays \ {day} ELSE holidays \cup {day}
  /\ UNCHANGED <<now, role, default, versions, assignments, plan, punches, leaves>>

LeaveChanges(day, leave) ==
  /\ Changes("leave") /\ leave # leaves[day]
  /\ leaves' = [leaves EXCEPT ![day] = leave]
  /\ UNCHANGED <<now, role, default, versions, assignments, plan, punches, holidays>>

=============================================================================
