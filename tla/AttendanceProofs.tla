---------------------------- MODULE AttendanceProofs ----------------------------
(***************************************************************************)
(* That the code on a QR terminal is good, for every length of a token, of *)
(* the grace period, of a fetch and of the difference between the clocks   *)
(* that QrAssumption allows; and that the attendance pages agree and leave *)
(* history alone, for every calendar, catalogue of shifts and set of       *)
(* schedules, assignments and punches.                                     *)
(***************************************************************************)
EXTENDS Attendance, FiniteSetTheorems, WellFoundedInduction, TLAPS

(* ShownIsAccepted is not inductive: it does not say when the next fetch is *)
(* due.  CodeInv bounds that time by the expiry of the code (DueInv), and  *)
(* the clock by that time (ClockInv).                                      *)
TimeInv ==
  /\ second \in Nat /\ due \in Int /\ failed \in BOOLEAN
  /\ code \in Int \cup {NoCode}
  /\ pending \in Nat \cup {NoCode}

DueInv == code # NoCode => due + Delay <= code + GraceTime

ClockInv ==
  /\ pending = NoCode /\ ~failed => second <= due
  /\ pending # NoCode => pending <= second /\ second <= pending + Delay
  /\ pending # NoCode /\ ~failed => pending = due

CodeInv == TimeInv /\ DueInv /\ ClockInv

LEMMA CodeInvImplies == CodeInv => ShownIsAccepted
<1> SUFFICES ASSUME CodeInv, code # NoCode, ~failed
             PROVE  second <= code + GraceTime
  BY DEF ShownIsAccepted, Valid
<1> USE QrAssumption DEF CodeInv, TimeInv, DueInv, ClockInv
<1>1. code \in Int /\ GraceTime \in Nat /\ Delay \in Nat /\ due + Delay <= code + GraceTime
  OBVIOUS
<1>2. second <= due + Delay
  <2>1. CASE pending = NoCode
    BY <1>1, <2>1
  <2>2. CASE pending # NoCode
    BY <1>1, <2>2
  <2> QED BY <2>1, <2>2
<1> QED BY <1>1, <1>2

LEMMA CodeInvInit == Init => CodeInv
<1> SUFFICES ASSUME QrInit PROVE CodeInv
  BY DEF Init
<1>1. second = 0 /\ code = NoCode /\ due = 0 /\ pending = NoCode /\ failed = FALSE
  BY DEF QrInit
<1>2. TimeInv
  <2>1. second \in Nat /\ due \in Int
    BY <1>1
  <2>2. failed \in BOOLEAN
    BY <1>1, Zenon
  <2>3. code \in Int \cup {NoCode} /\ pending \in Nat \cup {NoCode}
    BY <1>1
  <2> QED BY <2>1, <2>2, <2>3 DEF TimeInv
<1>3. DueInv /\ ClockInv
  BY <1>1 DEF DueInv, ClockInv
<1> QED BY <1>2, <1>3 DEF CodeInv

(* A code that took the longest to arrive leaves time to fetch the next.   *)
LEMMA RefreshInTime ==
  ASSUME NEW made \in Int, NEW at \in Int, at <= made + Delay
  PROVE  /\ RefreshAt(made + Validity, at) \in Int
         /\ at <= RefreshAt(made + Validity, at)
         /\ RefreshAt(made + Validity, at) + Delay <= made + Validity + GraceTime
<1> DEFINE wait == made + Validity + Skew - Lead - at
<1>1. /\ Validity \in Nat /\ GraceTime \in Nat /\ Lead \in Nat /\ Delay \in Nat /\ Skew \in Nat
      /\ Delay + Skew <= Lead + GraceTime /\ 2 * Delay < Validity + GraceTime
  BY QrAssumption
<1>2. CASE wait > 1
  BY <1>1, <1>2 DEF RefreshAt
<1>3. CASE ~(wait > 1)
  BY <1>1, <1>3 DEF RefreshAt
<1> QED BY <1>2, <1>3

LEMMA CodeInvNext == CodeInv /\ [Next]_vars => CodeInv'
<1> SUFFICES ASSUME CodeInv, [Next]_vars PROVE CodeInv'
  OBVIOUS
<1> USE QrAssumption DEF CodeInv
<1>1. CASE UNCHANGED qrVars
  BY <1>1 DEF qrVars, TimeInv, DueInv, ClockInv
<1>2. CASE Fetch
  BY <1>2 DEF Fetch, TimeInv, DueInv, ClockInv
<1>3. CASE Show
  <2>1. PICK made \in pending .. second :
          code' = made + Validity /\ due' = RefreshAt(made + Validity, second)
    BY <1>3 DEF Show
  <2>2. pending \in Nat /\ second \in Nat /\ made \in Int /\ second <= made + Delay
    BY <1>3, <2>1 DEF Show, TimeInv, ClockInv
  <2>3. due' \in Int /\ second <= due' /\ due' + Delay <= code' + GraceTime
    BY <2>1, <2>2, RefreshInTime
  <2>4. code' \in Int
    BY <2>1, <2>2
  <2> QED BY <1>3, <2>2, <2>3, <2>4 DEF Show, TimeInv, DueInv, ClockInv
<1>4. CASE FetchFails
  BY <1>4 DEF FetchFails, TimeInv, DueInv, ClockInv
<1>5. CASE SecondPasses
  BY <1>5 DEF SecondPasses, TimeInv, DueInv, ClockInv
<1>6. ASSUME NEW s \in Submits, ScanCode(s) PROVE CodeInv'
  BY <1>6 DEF ScanCode, TimeInv, DueInv, ClockInv
<1>7. ASSUME NEW s \in Submits, NEW badge \in Staff, Submit(s, badge) PROVE CodeInv'
  BY <1>7 DEF Submit, TimeInv, DueInv, ClockInv
<1>8. ASSUME NEW badge \in Staff, StaffChanges(badge) PROVE CodeInv'
  BY <1>8 DEF StaffChanges, TimeInv, DueInv, ClockInv
<1> QED
  BY <1>1, <1>2, <1>3, <1>4, <1>5, <1>6, <1>7, <1>8 DEF Next, MonthStep, TerminalStep, vars

(* Unless the latest fetch failed, a phone that scans the code on a QR     *)
(* terminal and submits at once is accepted.                               *)
THEOREM CodeShownIsAccepted == Spec => []ShownIsAccepted
<1>1. Init => CodeInv
  BY CodeInvInit
<1>2. CodeInv /\ [Next]_vars => CodeInv'
  BY CodeInvNext
<1>3. CodeInv => ShownIsAccepted
  BY CodeInvImplies
<1> QED BY <1>1, <1>2, <1>3, PTL DEF Spec

-----------------------------------------------------------------------------
(* The pages.                                                              *)

(* What the agreement rests on: a shift is longer than the stretch around  *)
(* its middle in which the type decides, and one over midnight ends early  *)
(* enough for its window to end with that day.                             *)
Fit(hours) ==
  /\ hours.end > hours.start => hours.end - hours.start > 2 * Around
  /\ hours.end <= hours.start =>
       DayLength + hours.end - hours.start > 2 * Around /\ hours.end + Buffer <= DayLength

FitHours == {hours \in Hours : Fit(hours)}

ShiftsFit ==
  /\ \A of \in DOMAIN RoleHours : Fit(RoleHours[of])
  /\ \A p \in Plans : /\ \A hours \in p.hours : Fit(hours)
                      /\ \A v \in p.versions : v.hours # NoHours => Fit(v.hours)

(* Where the hours of roles, versions and assignments come from.           *)
DrawnFrom(S) ==
  /\ \A of \in DOMAIN RoleHours : RoleHours[of] \in S
  /\ \A p \in Plans : p.hours \subseteq S /\ \A v \in p.versions : v.hours \in S \cup {NoHours}

HoursInv(S) ==
  /\ plan \in Plans /\ now \in Nat
  /\ default \in S \cup {NoHours}
  /\ versions = [d \in Days |-> versions[d]] /\ assignments = [d \in Days |-> assignments[d]]
  /\ \A d \in Days :
       /\ versions[d] # NoVersion => versions[d].hours \in S \cup {NoHours}
       /\ assignments[d] \notin {Off, NoAssignment} => assignments[d] \in S
  /\ \A p \in punches : p.at \in Nat

LEMMA LeastNat ==
  ASSUME NEW S \in SUBSET Nat, S # {}
  PROVE  \E m \in S : \A k \in S : m <= k
<1> DEFINE I == {0 .. n : n \in S}
<1>1. IsWellFoundedOn(StrictSubsetOrdering(Nat), FiniteSubsetsOf(Nat))
  BY FS_StrictSubsetOrderingWellFounded
<1>2. \A n \in S : 0 .. n \in FiniteSubsetsOf(Nat)
  BY FS_Interval DEF FiniteSubsetsOf
<1>3. I \subseteq FiniteSubsetsOf(Nat) /\ I # {}
  BY <1>2
<1>4. PICK x \in I : \A y \in I : <<y, x>> \notin StrictSubsetOrdering(Nat)
  BY <1>1, <1>3, WFMin
<1>5. PICK m \in S : x = 0 .. m
  OBVIOUS
<1>6. ASSUME NEW k \in S, k < m PROVE FALSE
  <2>1. 0 .. k \in I
    OBVIOUS
  <2>2. /\ 0 .. k \subseteq 0 .. m /\ 0 .. k # 0 .. m
        /\ 0 .. k \in SUBSET Nat /\ 0 .. m \in SUBSET Nat
    BY <1>6
  <2>3. <<0 .. k, 0 .. m>> \in StrictSubsetOrdering(Nat)
    BY <2>2 DEF StrictSubsetOrdering
  <2> QED BY <1>4, <1>5, <2>1, <2>3
<1> QED BY <1>6

LEMMA GreatestNat ==
  ASSUME NEW S \in SUBSET Nat, S # {}, NEW bound \in Nat, \A k \in S : k <= bound
  PROVE  \E m \in S : \A k \in S : k <= m
<1> DEFINE D == {bound - k : k \in S}
<1>1. D \in SUBSET Nat /\ D # {}
  <2>1. \A k \in S : bound - k \in Nat
    OBVIOUS
  <2> QED BY <2>1
<1>2. PICK d \in D : \A e \in D : d <= e
  <2> HIDE DEF D
  <2> QED BY <1>1, LeastNat
<1>3. PICK m \in S : d = bound - m
  OBVIOUS
<1>4. ASSUME NEW k \in S PROVE k <= m
  <2>1. bound - k \in D
    OBVIOUS
  <2>2. d <= bound - k
    BY <1>2, <2>1
  <2> QED BY <1>3, <2>2
<1> QED BY <1>4

LEMMA LeastIs ==
  ASSUME NEW S \in SUBSET Nat, S # {}
  PROVE  Least(S) \in S /\ \A k \in S : Least(S) <= k
  BY LeastNat DEF Least

LEMMA GreatestIs ==
  ASSUME NEW S \in SUBSET Nat, S # {}, NEW bound \in Nat, \A k \in S : k <= bound
  PROVE  Greatest(S) \in S /\ \A k \in S : k <= Greatest(S)
  BY GreatestNat DEF Greatest

(* The version of a day is one that there is, and has begun.               *)
LEMMA AsOfIs ==
  ASSUME NEW table, NEW day \in Days, AsOf(table, day) # NoVersion
  PROVE  LET started == {d \in Days : d <= day /\ table[d] # NoVersion}
             last == CHOOSE d \in started : \A other \in started : other <= d
         IN last \in started /\ AsOf(table, day) = table[last]
<1> DEFINE started == {d \in Days : d <= day /\ table[d] # NoVersion}
           last == CHOOSE d \in started : \A other \in started : other <= d
<1>1. started \in SUBSET Nat /\ started # {} /\ day \in Nat /\ \A d \in started : d <= day
  BY ScheduleAssumption DEF AsOf
<1>2. \E m \in started : \A k \in started : k <= m
  <2> HIDE DEF started
  <2> QED BY <1>1, GreatestNat
<1>3. last \in started
  BY <1>2
<1>4. AsOf(table, day) = table[last]
  BY <1>1 DEF AsOf
<1> QED BY <1>3, <1>4

LEMMA AsOfStands ==
  ASSUME NEW old, NEW new, NEW day \in Days, AsOf(old, day) # NoVersion,
         \A d \in Days : d <= day => new[d] = old[d]
  PROVE  AsOf(new, day) = AsOf(old, day)
<1> DEFINE started(table) == {d \in Days : d <= day /\ table[d] # NoVersion}
           last(S) == CHOOSE d \in S : \A other \in S : other <= d
<1>1. started(new) = started(old)
  OBVIOUS
<1>2. last(started(old)) \in started(old) /\ AsOf(old, day) = old[last(started(old))]
  BY AsOfIs
<1>3. AsOf(new, day) = new[last(started(new))]
  BY <1>1, <1>2 DEF AsOf
<1>4. new[last(started(old))] = old[last(started(old))]
  BY <1>2
<1> QED BY <1>1, <1>2, <1>3, <1>4

LEMMA ShiftOf ==
  ASSUME NEW CONSTANT S, HoursInv(S), DrawnFrom(S), NEW day \in Days
  PROVE  /\ EffectiveShift(day).status \in {"shift", "off", "untracked"}
         /\ EffectiveShift(day).status = "shift" => EffectiveShift(day).hours \in S
<1> DEFINE Good(e) == /\ e.status \in {"shift", "off", "untracked"}
                      /\ e.status = "shift" => e.hours \in S
<1>1. \A hours \in S : \A of : Good(At(hours, of))
  BY DEF At
<1>2. \A of : Good(Resting(of)) /\ Good(Untracked(of))
  BY DEF Resting, Untracked
<1>3. \A of : Good(ByRole(of))
  <2>1. \A of \in DOMAIN RoleHours : RoleHours[of] \in S
    BY DEF DrawnFrom
  <2> QED BY <1>1, <1>2, <2>1 DEF ByRole
<1> DEFINE version == AsOf(versions, day)
<1>4. version # NoVersion => version.hours \in S \cup {NoHours}
  <2>1. version # NoVersion => \E d \in Days : versions[d] # NoVersion /\ version = versions[d]
    BY AsOfIs
  <2> HIDE DEF version
  <2> QED BY <2>1 DEF HoursInv
<1>5. version # NoVersion => Good(FromSchedule(version, day))
  <2> HIDE DEF Good, version
  <2> QED BY <1>1, <1>2, <1>3, <1>4 DEF FromSchedule
<1>6. Good(FromEmployee)
  <2> HIDE DEF Good
  <2> QED BY <1>1, <1>2, <1>3 DEF FromEmployee, HoursInv
<1>7. assignments[day] \notin {Off, NoAssignment} => assignments[day] \in S
  BY DEF HoursInv
<1>8. Good(EffectiveShift(day))
  <2> HIDE DEF Good
  <2> QED BY <1>1, <1>2, <1>5, <1>6, <1>7 DEF EffectiveShift
<1> QED BY <1>8

LEMMA HoursInvInit ==
  ASSUME NEW CONSTANT S, DrawnFrom(S)
  PROVE  Init => HoursInv(S)
<1> SUFFICES ASSUME ScheduleInit, DayInit PROVE HoursInv(S)
  BY DEF Init
<1> QED BY ScheduleAssumption DEF ScheduleInit, DayInit, HoursInv

LEMMA HoursInvNext ==
  ASSUME NEW CONSTANT S, DrawnFrom(S)
  PROVE  HoursInv(S) /\ [Next]_vars => HoursInv(S)'
<1> SUFFICES ASSUME HoursInv(S), [Next]_vars PROVE HoursInv(S)'
  OBVIOUS
<1>1. /\ plan.instants \subseteq Nat /\ plan.hours \subseteq S
      /\ \A v \in plan.versions : v.hours \in S \cup {NoHours}
  BY ScheduleAssumption DEF HoursInv, DrawnFrom
<1>2. CASE UNCHANGED <<scheduleVars, dayVars>>
  BY <1>2 DEF HoursInv, scheduleVars, dayVars
<1>3. ASSUME NEW d \in Days, NEW v \in plan.versions, UpsertSchedule(d, v.role, v.days, v.hours),
             UNCHANGED dayVars
      PROVE  HoursInv(S)'
  <2>1. PICK new : new = Stored(v.role, v.days, v.hours)
    OBVIOUS
  <2>2. new.hours \in S \cup {NoHours}
    BY <1>1, <2>1 DEF Stored
  <2>3. versions' = [versions EXCEPT ![d] = new]
    BY <1>3, <2>1 DEF UpsertSchedule
  <2>4. /\ versions' = [e \in Days |-> versions'[e]]
        /\ \A e \in Days : versions'[e] # NoVersion => versions'[e].hours \in S \cup {NoHours}
    BY <2>2, <2>3 DEF HoursInv
  <2> QED BY <1>3, <2>4 DEF UpsertSchedule, Changes, HoursInv, dayVars
<1>4. ASSUME NEW d \in Days, DeleteSchedule(d), UNCHANGED dayVars
      PROVE  HoursInv(S)'
  BY <1>4 DEF DeleteSchedule, HoursInv, dayVars
<1>5. ASSUME NEW d \in Days, DeleteAssignment(d), UNCHANGED dayVars
      PROVE  HoursInv(S)'
  BY <1>5 DEF DeleteAssignment, HoursInv, dayVars
<1>6. ASSUME NEW of, NEW hours \in plan.hours \cup {NoHours}, UpdateShift(of, hours), UNCHANGED dayVars
      PROVE  HoursInv(S)'
  BY <1>1, <1>6 DEF UpdateShift, HoursInv, dayVars
<1>7. ASSUME NEW d \in Days, NEW hours \in plan.hours \cup {Off}, PutAssignment(d, hours),
             UNCHANGED dayVars
      PROVE  HoursInv(S)'
  BY <1>1, <1>7 DEF PutAssignment, HoursInv, dayVars
<1>8. ASSUME NEW at \in plan.instants, NEW type \in PunchTypes, PunchStored(at, type)
      PROVE  HoursInv(S)'
  BY <1>1, <1>8 DEF PunchStored, HoursInv
<1>9. ASSUME NEW d \in Days, HolidayChanges(d) \/ \E leave : LeaveChanges(d, leave)
      PROVE  HoursInv(S)'
  BY <1>9 DEF HolidayChanges, LeaveChanges, HoursInv
<1>10. CASE ClockMoves /\ UNCHANGED dayVars
  BY <1>1, <1>10 DEF ClockMoves, HoursInv, dayVars
<1> QED
  BY <1>2, <1>3, <1>4, <1>5, <1>6, <1>7, <1>8, <1>9, <1>10
     DEF Next, MonthStep, TerminalStep, Schedules, Records, vars

(* The punches in the window of a day of the month have all been fetched.  *)
LEMMA WindowFetched ==
  ASSUME NEW day \in MonthDays, NEW hours \in FitHours, NEW p \in punches, p.at \in Nat,
         InWindow(p.at, hours, day)
  PROVE  p \in Fetched
<1>1. /\ DayLength \in Nat \ {0} /\ Buffer \in Nat /\ Before \in Nat /\ Buffer <= Before
      /\ Buffer <= DayLength /\ Month[1] \in Nat /\ Month[2] \in Nat
  BY ScheduleAssumption, DayAssumption
<1>2. day \in Nat /\ Month[1] <= day /\ day <= Month[2]
  BY <1>1 DEF MonthDays
<1>3. /\ hours.start \in 0 .. DayLength - 1 /\ hours.end \in 0 .. DayLength - 1 /\ Fit(hours)
  BY DEF FitHours, Hours
<1> DEFINE first == day * DayLength
<1>4. first \in Nat /\ Month[1] * DayLength <= first
      /\ (day + 1) * DayLength = first + DayLength
      /\ first <= Month[2] * DayLength /\ Month[2] * DayLength \in Nat
      /\ (Month[2] + 2) * DayLength = Month[2] * DayLength + 2 * DayLength
  BY <1>1, <1>2
<1>5. Month[1] * DayLength - Before <= p.at
  BY <1>1, <1>3, <1>4 DEF InWindow, ShiftStart
<1>6. p.at < (Month[2] + 2) * DayLength
  <2>1. p.at < ShiftEnd(hours, day) + Buffer
    BY DEF InWindow
  <2>2. CASE hours.end > hours.start
    <3>1. ShiftEnd(hours, day) = first + hours.end
      BY <1>3, <2>2 DEF ShiftEnd
    <3> HIDE DEF first
    <3> QED BY <1>1, <1>3, <1>4, <2>1, <3>1
  <2>3. CASE hours.end <= hours.start
    <3>1. ShiftEnd(hours, day) = first + DayLength + hours.end /\ hours.end + Buffer <= DayLength
      BY <1>3, <1>4, <2>3 DEF ShiftEnd, Fit
    <3> HIDE DEF first
    <3> QED BY <1>1, <1>3, <1>4, <2>1, <3>1
  <2> QED BY <1>3, <2>2, <2>3
<1> QED BY <1>5, <1>6 DEF Fetched

LEMMA ShiftTimes ==
  ASSUME NEW day \in Nat, NEW hours \in FitHours
  PROVE  /\ ShiftStart(hours, day) \in Nat /\ ShiftEnd(hours, day) \in Nat
         /\ ShiftEnd(hours, day) - ShiftStart(hours, day) > 2 * Around
<1> DEFINE first == day * DayLength
<1>1. /\ DayLength \in Nat \ {0} /\ Around \in Nat
      /\ hours.start \in 0 .. DayLength - 1 /\ hours.end \in 0 .. DayLength - 1 /\ Fit(hours)
  BY ScheduleAssumption, DayAssumption DEF FitHours, Hours
<1>2. first \in Nat /\ (day + 1) * DayLength = first + DayLength
  BY <1>1
<1>3. ShiftStart(hours, day) = first + hours.start
  BY DEF ShiftStart
<1>4. CASE hours.end > hours.start
  <2>1. ShiftEnd(hours, day) = first + hours.end /\ hours.end - hours.start > 2 * Around
    BY <1>1, <1>4 DEF ShiftEnd, Fit
  <2> HIDE DEF first
  <2> QED BY <1>1, <1>2, <1>3, <2>1
<1>5. CASE hours.end <= hours.start
  <2>1. /\ ShiftEnd(hours, day) = first + DayLength + hours.end
        /\ DayLength + hours.end - hours.start > 2 * Around
    BY <1>1, <1>2, <1>5 DEF ShiftEnd, Fit
  <2> HIDE DEF first
  <2> QED BY <1>1, <1>2, <1>3, <2>1
<1> QED BY <1>1, <1>4, <1>5

(* A day with punches: who is late by the month came after the start of    *)
(* the shift with every punch, departures among them.                      *)
LEMMA PresentAgrees ==
  ASSUME NEW day \in Nat, NEW hours \in FitHours, NEW W, W # {},
         \A p \in W : p.at \in Nat /\ InWindow(p.at, hours, day), now \in Nat
  PROVE  /\ Present(day, hours, W).status = "present"
         /\ CountsAsLate(Present(day, hours, W)) => Least({p.at : p \in W}) > ShiftStart(hours, day)
         /\ Worked(Present(day, hours, W))
              < ShiftEnd(hours, day) - ShiftStart(hours, day) + 2 * Buffer
<1> DEFINE start == ShiftStart(hours, day)
           end == ShiftEnd(hours, day)
           arrivals == {p.at : p \in {q \in W : Arrival(q, hours, day)}}
           departures == {p.at : p \in {q \in W : ~Arrival(q, hours, day)}}
           in == IF arrivals = {} THEN start ELSE Least(arrivals)
           out == IF departures # {} THEN Greatest(departures) ELSE IF now >= end THEN end ELSE None
           late == IF in > start THEN in - start ELSE 0
<1>1. /\ start \in Nat /\ end \in Nat /\ end - start > 2 * Around
      /\ Around \in Nat /\ Buffer \in Nat \ {0} /\ Grace \in Nat \ {0}
  <2>1. start \in Nat /\ end \in Nat /\ end - start > 2 * Around
    BY ShiftTimes
  <2>2. Around \in Nat /\ Buffer \in Nat \ {0} /\ Grace \in Nat \ {0}
    BY DayAssumption
  <2> QED BY <2>1, <2>2
<1>2. /\ Present(day, hours, W).status = "present" /\ Present(day, hours, W).in = in
      /\ Present(day, hours, W).out = out /\ Present(day, hours, W).late = late
  BY DEF Present
<1>3. \A p \in W : p.at \in Nat /\ start - Buffer <= p.at /\ p.at < end + Buffer
  BY DEF InWindow
<1>4. /\ arrivals \in SUBSET Nat /\ \A t \in arrivals : start - Buffer <= t /\ t < end + Buffer
      /\ departures \in SUBSET Nat /\ \A t \in departures : start - Buffer <= t /\ t < end + Buffer
  BY <1>3
<1>5. \A p \in W : ~Arrival(p, hours, day) => p.at > start
  <2> SUFFICES ASSUME NEW p \in W, ~Arrival(p, hours, day) PROVE p.at > start
    OBVIOUS
  <2> DEFINE twice == 2 * p.at - (start + end)
  <2>1. twice > 0 \/ -2 * Around <= twice
    BY <1>1, <1>3 DEF Arrival
  <2> QED BY <1>1, <1>3, <2>1
<1>6. arrivals # {} => Least(arrivals) \in arrivals /\ \A t \in arrivals : Least(arrivals) <= t
  <2> HIDE DEF arrivals
  <2> QED BY <1>4, LeastIs
<1>7. departures # {} => Greatest(departures) \in departures
  <2> HIDE DEF departures
  <2>1. end + Buffer \in Nat /\ \A t \in departures : t <= end + Buffer
    BY <1>1, <1>4
  <2> QED BY <1>4, <2>1, GreatestIs
<1>8. in \in Nat /\ start - Buffer <= in
  <2>1. CASE arrivals = {}
    <3>1. in = start
      BY <2>1
    <3> HIDE DEF in, start
    <3> QED BY <1>1, <3>1
  <2>2. CASE arrivals # {}
    <3>1. in = Least(arrivals)
      BY <2>2
    <3> HIDE DEF in, start, arrivals
    <3> QED BY <1>1, <1>4, <1>6, <2>2, <3>1
  <2> QED BY <2>1, <2>2
<1>9. ASSUME CountsAsLate(Present(day, hours, W))
      PROVE  Least({p.at : p \in W}) > start
  <2>1. late >= Grace
    BY <1>2, <1>9 DEF CountsAsLate
  <2>2. in > start
    <3> HIDE DEF in, start
    <3> QED BY <1>1, <1>8, <2>1
  <2>3. arrivals # {} /\ in = Least(arrivals)
    <3> HIDE DEF arrivals
    <3> QED BY <1>1, <2>2
  <2>4. \A t \in arrivals : t > start
    <3> HIDE DEF arrivals, start, in
    <3> QED BY <1>1, <1>4, <1>6, <1>8, <2>2, <2>3
  <2>5. \A p \in W : p.at > start
    <3> SUFFICES ASSUME NEW p \in W PROVE p.at > start
      OBVIOUS
    <3>1. CASE Arrival(p, hours, day)
      <4>1. p.at \in arrivals
        BY <3>1
      <4> HIDE DEF arrivals
      <4> QED BY <2>4, <4>1
    <3>2. CASE ~Arrival(p, hours, day)
      BY <1>5, <3>2
    <3> QED BY <3>1, <3>2
  <2> DEFINE all == {p.at : p \in W}
  <2>6. all \in SUBSET Nat /\ all # {} /\ \A t \in all : t > start
    BY <1>3, <2>5
  <2>7. Least(all) \in all
    <3> HIDE DEF all
    <3> QED BY <2>6, LeastIs
  <2> HIDE DEF all
  <2>8. Least(all) > start
    BY <2>6, <2>7
  <2> QED BY <2>8 DEF all
<1>10. Worked(Present(day, hours, W)) < end - start + 2 * Buffer
  <2>1. CASE out # None /\ out > in
    <3>1. Worked(Present(day, hours, W)) = out - in
      BY <1>2, <2>1 DEF Worked
    <3>2. CASE departures # {}
      <4>1. out = Greatest(departures)
        BY <3>2
      <4>2. out \in Nat /\ out < end + Buffer
        <5> HIDE DEF departures, out, end
        <5> QED BY <1>4, <1>7, <3>2, <4>1
      <4> HIDE DEF out, in, start, end
      <4> QED BY <1>1, <1>8, <3>1, <4>2
    <3>3. CASE departures = {}
      <4>1. out = end
        BY <2>1, <3>3
      <4> HIDE DEF out, in, start, end
      <4> QED BY <1>1, <1>8, <3>1, <4>1
    <3> QED BY <3>2, <3>3
  <2>2. CASE ~(out # None /\ out > in)
    <3>1. Worked(Present(day, hours, W)) = 0
      BY <1>2, <2>2 DEF Worked
    <3> HIDE DEF start, end
    <3> QED BY <1>1, <3>1
  <2> QED BY <2>1, <2>2
<1> QED BY <1>2, <1>9, <1>10

(* The halves of a day that has come, whatever its status (recount_        *)
(* monthly_day_totals).                                                    *)
LEMMA HalvesOfDay ==
  ASSUME NEW day, MonthDay(day).status \in {"off", "leave", "absent", "pending", "present"},
         MonthDay(day).status = "leave" => leaves[day] = "full"
  PROVE  LET halves == Halves(day)
         IN /\ MonthDay(day).status # "pending" =>
                 halves["present"] + halves["absent"] + halves["off"] + halves["leave"] = 2
            /\ MonthDay(day).status \in {"off", "leave"} <=> halves["off"] + halves["leave"] = 2
            /\ MonthDay(day).status = "present" <=> halves["present"] > 0
<1> DEFINE status == MonthDay(day).status
           half == IF leaves[day] = "half" THEN 1 ELSE 0
           part(counted) == IF status = "pending" THEN 0
                            ELSE (IF counted = status THEN 2 - half ELSE 0)
                                   + (IF counted = "leave" THEN half ELSE 0)
<1>1. \A counted \in {"present", "absent", "off", "leave"} : Halves(day)[counted] = part(counted)
  BY DEF Halves
<1>2. half \in {0, 1} /\ (status = "leave" => half = 0)
  OBVIOUS
<1> HIDE DEF half, status
<1>3. /\ status # "pending" => part("present") + part("absent") + part("off") + part("leave") = 2
      /\ status \in {"off", "leave"} <=> part("off") + part("leave") = 2
      /\ status = "present" <=> part("present") > 0
  BY <1>2 DEF status
<1> HIDE DEF part
<1> QED BY <1>1, <1>3 DEF status

LEMMA DayAgrees ==
  ASSUME HoursInv(FitHours), DrawnFrom(FitHours), NEW day \in MonthDays, day <= Today, ByDate(day) # "omitted"
  PROVE  /\ ByDate(day) = "off" <=> MonthDay(day).status \in {"off", "leave"}
         /\ ByDate(day) = "absent" <=> MonthDay(day).status \in {"absent", "pending"}
         /\ CountsAsLate(MonthDay(day)) => ByDate(day) = "late"
         /\ MonthDay(day).status = "present" =>
               Worked(MonthDay(day)) < ShiftEnd(EffectiveShift(day).hours, day)
                                        - ShiftStart(EffectiveShift(day).hours, day) + 2 * Buffer
         /\ ByDate(day) \in {"late", "on_time"} <=> MonthDay(day).status = "present"
         /\ MonthDay(day).status \in {"off", "leave", "absent", "pending", "present"}
         /\ MonthDay(day).status = "leave" => leaves[day] = "full"
<1>1. PICK eff : eff = EffectiveShift(day)
  OBVIOUS
<1>2. day \in Days /\ day \in Nat /\ now \in Nat /\ ~(day > Today) /\ Grace \in Nat \ {0}
  <2>1. day \in Days /\ day \in Nat /\ now \in Nat /\ Grace \in Nat \ {0}
    BY DayAssumption, ScheduleAssumption DEF HoursInv
  <2>2. Today \in Int
    BY <2>1, ScheduleAssumption DEF Today
  <2> QED BY <2>1, <2>2
<1>3. eff.status \in {"shift", "off", "untracked"} /\ (eff.status = "shift" => eff.hours \in FitHours)
  BY <1>1, <1>2, ShiftOf
<1>4. eff.status # "untracked"
  BY <1>1 DEF ByDate
<1>5. \A status : /\ DayRow(status).status = status
                  /\ ~CountsAsLate(DayRow(status))
  BY <1>2 DEF DayRow, CountsAsLate
<1>6. CASE (day \in holidays /\ eff.role # Reception) \/ leaves[day] = "full" \/ eff.status = "off"
  <2>1. ByDate(day) = "off"
    BY <1>1, <1>4, <1>6 DEF ByDate
  <2>2. \/ MonthDay(day) = DayRow("off")
        \/ MonthDay(day) = DayRow("leave") /\ leaves[day] = "full"
    BY <1>1, <1>2, <1>6 DEF MonthDay
  <2> QED BY <1>5, <2>1, <2>2
<1>7. CASE ~((day \in holidays /\ eff.role # Reception) \/ leaves[day] = "full" \/ eff.status = "off")
  <2> DEFINE W == {p \in punches : InWindow(p.at, eff.hours, day)}
             counted == {p \in Fetched : InWindow(p.at, eff.hours, day)}
             at == {p.at : p \in W}
  <2>1. eff.status = "shift" /\ eff.hours \in FitHours
    BY <1>3, <1>4, <1>7
  <2>2. counted = W
    <3>1. \A p \in W : p.at \in Nat /\ p \in punches /\ InWindow(p.at, eff.hours, day)
      BY DEF HoursInv
    <3>2. \A p \in W : p \in Fetched
      BY <2>1, <3>1, WindowFetched
    <3>3. Fetched \in SUBSET punches
      BY DEF Fetched
    <3> QED BY <3>2, <3>3
  <2>3. ByDate(day) = IF at = {} THEN "absent"
                      ELSE IF Least(at) > ShiftStart(eff.hours, day) THEN "late" ELSE "on_time"
    BY <1>1, <1>7, <2>1 DEF ByDate
  <2>4. MonthDay(day) = IF counted = {} THEN DayRow(WithoutPunch(day, eff.hours))
                        ELSE Present(day, eff.hours, counted)
    BY <1>1, <1>2, <1>7, <2>1 DEF MonthDay
  <2>5. CASE W = {}
    <3>1. at = {} /\ counted = {}
      BY <2>2, <2>5
    <3>2. ByDate(day) = "absent" /\ MonthDay(day) = DayRow(WithoutPunch(day, eff.hours))
      <4> HIDE DEF at, counted
      <4> QED BY <2>3, <2>4, <3>1
    <3>3. WithoutPunch(day, eff.hours) \in {"pending", "absent"}
      BY DEF WithoutPunch
    <3> QED BY <1>5, <3>2, <3>3
  <2>6. CASE W # {}
    <3>1. at # {} /\ counted # {}
      BY <2>2, <2>6
    <3>2. /\ ByDate(day) = IF Least(at) > ShiftStart(eff.hours, day) THEN "late" ELSE "on_time"
          /\ MonthDay(day) = Present(day, eff.hours, W)
      <4> HIDE DEF at, counted, W
      <4> QED BY <2>2, <2>3, <2>4, <3>1
    <3>3. \A p \in W : p.at \in Nat /\ InWindow(p.at, eff.hours, day)
      BY DEF HoursInv
    <3> HIDE DEF W
    <3>4. /\ Present(day, eff.hours, W).status = "present"
          /\ CountsAsLate(Present(day, eff.hours, W)) => Least(at) > ShiftStart(eff.hours, day)
          /\ Worked(Present(day, eff.hours, W))
               < ShiftEnd(eff.hours, day) - ShiftStart(eff.hours, day) + 2 * Buffer
      BY <1>2, <2>1, <2>6, <3>3, PresentAgrees
    <3> HIDE DEF at
    <3> QED BY <1>1, <3>2, <3>4
  <2> QED BY <2>5, <2>6
<1> QED BY <1>6, <1>7

(* The day and the month tell one story of every day that has come         *)
(* (get_attendance_by_date, get_attendance_monthly).                       *)
THEOREM PagesStayInAgreement ==
  ASSUME ShiftsFit
  PROVE  Spec => []PagesAgree
<1>1. DrawnFrom(FitHours)
  BY ScheduleAssumption DEF ShiftsFit, DrawnFrom, FitHours
<1>2. Init => HoursInv(FitHours)
  BY <1>1, HoursInvInit
<1>3. HoursInv(FitHours) /\ [Next]_vars => HoursInv(FitHours)'
  BY <1>1, HoursInvNext
<1>4. HoursInv(FitHours) => PagesAgree
  <2> SUFFICES ASSUME HoursInv(FitHours), NEW day \in MonthDays, day <= Today,
                      ByDate(day) # "omitted"
               PROVE  LET byDate == ByDate(day)
                          row == MonthDay(day)
                          halves == Halves(day)
                      IN /\ byDate = "off" <=> row.status \in {"off", "leave"}
                         /\ byDate = "absent" <=> row.status \in {"absent", "pending"}
                         /\ CountsAsLate(row) => byDate = "late"
                         /\ row.status # "pending" =>
                              halves["present"] + halves["absent"] + halves["off"] + halves["leave"] = 2
                         /\ byDate = "off" <=> halves["off"] + halves["leave"] = 2
                         /\ byDate \in {"late", "on_time"} <=> halves["present"] > 0
                         /\ row.status = "present" =>
                              LET hours == EffectiveShift(day).hours
                              IN Worked(row) < ShiftEnd(hours, day) - ShiftStart(hours, day) + 2 * Buffer
    BY DEF PagesAgree
  <2>1. /\ ByDate(day) = "off" <=> MonthDay(day).status \in {"off", "leave"}
        /\ ByDate(day) = "absent" <=> MonthDay(day).status \in {"absent", "pending"}
        /\ CountsAsLate(MonthDay(day)) => ByDate(day) = "late"
        /\ MonthDay(day).status = "present" =>
             Worked(MonthDay(day)) < ShiftEnd(EffectiveShift(day).hours, day)
                                       - ShiftStart(EffectiveShift(day).hours, day) + 2 * Buffer
        /\ ByDate(day) \in {"late", "on_time"} <=> MonthDay(day).status = "present"
        /\ MonthDay(day).status \in {"off", "leave", "absent", "pending", "present"}
        /\ MonthDay(day).status = "leave" => leaves[day] = "full"
    BY <1>1, DayAgrees
  <2>2. /\ MonthDay(day).status # "pending" =>
             Halves(day)["present"] + Halves(day)["absent"] + Halves(day)["off"] + Halves(day)["leave"] = 2
        /\ MonthDay(day).status \in {"off", "leave"} <=> Halves(day)["off"] + Halves(day)["leave"] = 2
        /\ MonthDay(day).status = "present" <=> Halves(day)["present"] > 0
    BY <2>1, HalvesOfDay
  <2> QED BY <2>1, <2>2
<1> QED BY <1>2, <1>3, <1>4, PTL DEF Spec

(* Changes of later versions, and of the row, leave the shifts of days     *)
(* that have a version as they were (effective_shift, _schedule_as_of).    *)
THEOREM HistoryStays == Spec => HistoryStands
<1>1. ASSUME NEW day \in Days, AsOf(versions, day) # NoVersion, assignments'[day] = assignments[day],
             \A d \in Days : d <= day => versions'[d] = versions[d]
      PROVE  EffectiveShift(day)' = EffectiveShift(day)
  <2>1. AsOf(versions', day) = AsOf(versions, day)
    BY <1>1, AsOfStands
  <2>2. AsOf(versions, day)' = AsOf(versions, day)
    BY <2>1
  <2> QED BY <1>1, <2>2 DEF EffectiveShift, FromSchedule
<1>2. [Next]_vars => [\A day \in Days :
       /\ AsOf(versions, day) # NoVersion /\ assignments'[day] = assignments[day]
       /\ \A d \in Days : d <= day => versions'[d] = versions[d]
       => EffectiveShift(day)' = EffectiveShift(day)]_vars
  BY <1>1
<1> QED BY <1>2, PTL DEF Spec, HistoryStands

LEMMA LaterDay ==
  ASSUME NEW m \in Nat, NEW n \in Nat, m <= n, NEW d \in Nat \ {0}
  PROVE  m \div d \in Nat /\ n \div d \in Nat /\ m \div d <= n \div d
<1>1. /\ m \div d \in Int /\ n \div d \in Int
      /\ d * (m \div d) <= m /\ m < d * (m \div d) + d
      /\ d * (n \div d) <= n /\ n < d * (n \div d) + d
  OBVIOUS
<1>2. \A x \in Int, y \in Int : x >= y + 1 => d * x >= d * y + d
  OBVIOUS
<1>3. 0 <= m \div d /\ 0 <= n \div d
  OBVIOUS
<1> QED BY <1>1, <1>2, <1>3

(* A day that is over: its window lies behind, whatever the time is now.   *)
LEMMA DaySettles ==
  ASSUME HoursInv(Hours), NEW day \in MonthDays, Over(day), now' \in Nat, now < now',
         UNCHANGED <<role, default, versions, assignments, dayVars>>
  PROVE  MonthDay(day)' = MonthDay(day)
<1>1. EffectiveShift(day)' = EffectiveShift(day)
  BY DEF EffectiveShift, FromEmployee
<1>2. Fetched' = Fetched /\ holidays' = holidays /\ leaves' = leaves
  BY DEF Fetched, dayVars
<1>3. PICK eff : eff = EffectiveShift(day)
  OBVIOUS
<1>4. day \in Days /\ day \in Nat /\ now \in Nat
  BY DayAssumption, ScheduleAssumption DEF HoursInv
<1>5. Today \in Nat /\ Today' \in Nat /\ day < Today /\ day < Today'
  <2>1. Today \in Nat /\ Today' \in Nat /\ Today <= Today'
    BY <1>4, LaterDay, ScheduleAssumption DEF Today
  <2> QED BY <1>4, <2>1 DEF Over
<1>6. \A hours : WithoutPunch(day, hours) = "absent" /\ WithoutPunch(day, hours)' = "absent"
  BY <1>4, <1>5 DEF WithoutPunch
<1>7. ASSUME eff.status \notin {"off", "untracked"}, NEW counted
      PROVE  Present(day, eff.hours, counted)' = Present(day, eff.hours, counted)
  <2>1. DrawnFrom(Hours)
    BY ScheduleAssumption DEF DrawnFrom
  <2>2. eff.hours \in Hours /\ eff.hours # NoHours
    BY <1>3, <1>4, <1>7, <2>1, ShiftOf, ScheduleAssumption
  <2>3. ShiftEnd(eff.hours, day) <= now
    BY <1>3, <2>2 DEF Over
  <2>4. ShiftEnd(eff.hours, day) \in Int
    BY <1>4, <2>2, ScheduleAssumption DEF ShiftEnd, Hours
  <2>5. now >= ShiftEnd(eff.hours, day) /\ now' >= ShiftEnd(eff.hours, day)
    BY <1>4, <2>3, <2>4
  <2> QED BY <2>5 DEF Present
<1>8. ~(day > Today) /\ ~(day > Today')
  BY <1>4, <1>5
<1> QED BY <1>1, <1>2, <1>3, <1>6, <1>7, <1>8 DEF MonthDay

(* Time alone changes no day that is over (_build_month_day).              *)
THEOREM DaysStaySettled == Spec => DaysSettle
<1>1. DrawnFrom(Hours)
  BY ScheduleAssumption DEF DrawnFrom
<1>2. Init => HoursInv(Hours)
  BY <1>1, HoursInvInit
<1>3. HoursInv(Hours) /\ [Next]_vars => HoursInv(Hours)'
  BY <1>1, HoursInvNext
<1>4. HoursInv(Hours) /\ [Next]_vars
        => [now' # now => \A day \in MonthDays : Over(day) => MonthDay(day)' = MonthDay(day)]_vars
  <2> SUFFICES ASSUME HoursInv(Hours), Next, now' # now, NEW day \in MonthDays, Over(day)
               PROVE  MonthDay(day)' = MonthDay(day)
    OBVIOUS
  <2>1. ClockMoves /\ UNCHANGED dayVars
    BY DEF Next, MonthStep, TerminalStep, Schedules, Records, scheduleVars, UpsertSchedule,
           DeleteSchedule, UpdateShift, PutAssignment, DeleteAssignment, PunchStored,
           HolidayChanges, LeaveChanges
  <2>2. now' \in Nat /\ now < now' /\ UNCHANGED <<role, default, versions, assignments>>
    BY <2>1, ScheduleAssumption DEF ClockMoves, HoursInv
  <2> QED BY <2>1, <2>2, DaySettles
<1> QED BY <1>2, <1>3, <1>4, PTL DEF Spec, DaysSettle

=============================================================================
