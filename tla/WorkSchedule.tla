------------------------------ MODULE WorkSchedule ------------------------------
(***************************************************************************)
(* When an employee is to work: the schedule versions, the default shift   *)
(* and role on the employees row (app/api/consolidated_employees.py), the  *)
(* per-day assignments (app/api/shifts.py), and how they are resolved      *)
(* (app/services/shift_service.py).  One employee: nothing is shared.      *)
(* Times are minutes of Bangkok since the beginning of day 0.              *)
(***************************************************************************)
EXTENDS Integers, Sequences, FiniteSets

CONSTANTS
  Days,       \* the days that can be scheduled
  DayLength,  \* minutes of a day (1440)
  WeekLength, \* days of a week (7)
  RoleHours,  \* by role with a default shift: its hours
  NoRole, NoHours, NoVersion, NoAssignment, Off,
  Plans       \* bounds: what is done and when; each behaviour has one

\* Working hours [start, end] of a day; an end not after the start is on the next.
Hours == [start : 0 .. DayLength - 1, end : 0 .. DayLength - 1]
Reception == "reception"
Roles == DOMAIN RoleHours \cup {Reception}

ASSUME ScheduleAssumption ==
  /\ Days \subseteq Nat /\ {DayLength, WeekLength} \subseteq Nat \ {0}
  /\ \A role \in DOMAIN RoleHours : RoleHours[role] \in Hours
  /\ Reception \notin DOMAIN RoleHours /\ NoHours \notin Hours
  /\ \A p \in Plans :
       /\ p.from \in Nat /\ p.instants \subseteq Nat /\ p.hours \subseteq Hours
       /\ \A v \in p.versions : v.hours \in Hours \cup {NoHours}

VARIABLES
  now,          \* the clock
  role,         \* employees.role
  default,      \* the hours of employees.default_shift_id
  versions,     \* employee_schedules, by effective_from
  assignments,  \* shift_assignments, by date
  plan, changes \* the bounds of this behaviour, and the changes so far

scheduleVars == <<now, role, default, versions, assignments, plan, changes>>

Today == now \div DayLength
Weekday(day) == day % WeekLength

Changes(kind) == kind \in plan.kinds /\ changes < plan.changes /\ changes' = changes + 1

ScheduleInit ==
  /\ plan \in Plans /\ changes = 0
  /\ now = plan.from /\ role = plan.role /\ default = NoHours
  /\ versions = [d \in Days |-> NoVersion] /\ assignments = [d \in Days |-> NoAssignment]

-----------------------------------------------------------------------------
(* Resolution. *)

\* _schedule_as_of
AsOf(table, day) ==
  LET started == {d \in Days : d <= day /\ table[d] # NoVersion}
  IN IF started = {} THEN NoVersion
     ELSE table[CHOOSE d \in started : \A other \in started : other <= d]

At(hours, of) == [status |-> "shift", hours |-> hours, role |-> of]
Resting(of) == [status |-> "off", hours |-> NoHours, role |-> of]
Untracked(of) == [status |-> "untracked", hours |-> NoHours, role |-> of]
ByRole(of) == IF of \in DOMAIN RoleHours THEN At(RoleHours[of], of) ELSE Untracked(of)

\* _resolve_from_schedule
FromSchedule(version, day) ==
  IF version.role = Reception THEN Resting(Reception)
  ELSE IF version.hours = NoHours \/ version.days = {} THEN ByRole(version.role)
  ELSE IF Weekday(day) \in version.days THEN At(version.hours, version.role)
  ELSE Resting(version.role)

\* Employees without a version on that day.
FromEmployee ==
  IF default # NoHours THEN At(default, role)
  ELSE IF role = Reception THEN Resting(Reception) ELSE ByRole(role)

\* Mutant: the role of the row instead of the version's.
EffectiveShiftOfNow(day) ==
  LET version == AsOf(versions, day)
      assigned == assignments[day]
      resolved == IF version = NoVersion THEN FromEmployee ELSE FromSchedule(version, day)
  IN CASE assigned = Off -> Resting(role)
       [] assigned \notin {Off, NoAssignment} -> At(assigned, role)
       [] OTHER -> [resolved EXCEPT !.role = role]

\* effective_shift: an assignment, the version of the day, the row; the role is
\* the version's under an assignment, too.
EffectiveShift(day) ==
  LET version == AsOf(versions, day)
      assigned == assignments[day]
      of == IF version = NoVersion THEN role ELSE version.role
  IN CASE assigned = Off -> Resting(of)
       [] assigned \notin {Off, NoAssignment} -> At(assigned, of)
       [] version # NoVersion -> FromSchedule(version, day)
       [] OTHER -> FromEmployee

-----------------------------------------------------------------------------
(* The pages. *)

\* _recompute_current_role
CurrentRole(table) ==
  LET version == AsOf(table, Today) IN IF version = NoVersion THEN NoRole ELSE version.role

Stored(of, days, hours) ==
  IF of = Reception THEN [role |-> of, days |-> {}, hours |-> NoHours]
  ELSE [role |-> of, days |-> days, hours |-> hours]

UpsertSchedule(from, of, days, hours) ==
  /\ Changes("schedule")
  /\ versions' = [versions EXCEPT ![from] = Stored(of, days, hours)]
  /\ role' = CurrentRole(versions')
  /\ UNCHANGED <<now, default, assignments, plan>>

DeleteSchedule(from) ==
  /\ Changes("schedule") /\ versions[from] # NoVersion
  /\ versions' = [versions EXCEPT ![from] = NoVersion]
  /\ role' = CurrentRole(versions')
  /\ UNCHANGED <<now, default, assignments, plan>>

\* PUT shift: the row alone, whatever the versions say.
UpdateShift(of, hours) ==
  /\ Changes("row")
  /\ role' = of /\ default' = hours
  /\ UNCHANGED <<now, versions, assignments, plan>>

PutAssignment(day, hours) ==
  /\ Changes("assign")
  /\ assignments' = [assignments EXCEPT ![day] = hours]
  /\ UNCHANGED <<now, role, default, versions, plan>>

DeleteAssignment(day) ==
  /\ Changes("assign") /\ assignments[day] # NoAssignment
  /\ assignments' = [assignments EXCEPT ![day] = NoAssignment]
  /\ UNCHANGED <<now, role, default, versions, plan>>

\* The clock goes from one instant of interest to the next.
ClockMoves ==
  /\ \E at \in plan.instants :
       /\ now < at /\ \A other \in plan.instants : other <= now \/ at <= other
       /\ now' = at
  /\ UNCHANGED <<role, default, versions, assignments, plan, changes>>

=============================================================================
