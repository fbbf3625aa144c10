------------------------------ MODULE MCAttendance ------------------------------
(***************************************************************************)
(* Days 0 to 4 with the month from 1 to 3; shifts of the hotel.  Plans:    *)
(* punches around a night on the first and last day of the month; changes  *)
(* of schedule and row; holidays and leave; the terminal.                  *)
(***************************************************************************)
EXTENDS Attendance

H(h) == h * 60
Night == [start |-> H(22), end |-> H(7)]
Morning == [start |-> H(7), end |-> H(16)]
Normal == [start |-> H(8), end |-> H(17)]
MCRoleHours == [housekeeping |-> Morning, technician |-> Normal]
MCMonth == <<1, 3>>

On(day, hour, minute) == day * 1440 + hour * 60 + minute

Plan(kinds, n, instants) ==
  [kinds |-> kinds, changes |-> n, from |-> On(0, 12, 0), instants |-> instants,
   role |-> "housekeeping", roles |-> {"technician"}, versions |-> {}, hours |-> {}]

Custom == [role |-> "technician", days |-> {0, 1}, hours |-> Normal]
Desk == [role |-> Reception, days |-> {}, hours |-> NoHours]

MCPlans ==
  {[Plan({"assign", "punch"}, 3,
         {On(1, 21, 30), On(2, 2, 0), On(2, 2, 31), On(2, 7, 10), On(2, 9, 0), On(3, 22, 10), On(4, 8, 59), On(4, 12, 0)})
      EXCEPT !.hours = {Night, Morning}],
   [Plan({"schedule", "row"}, 4, {On(2, 0, 0), On(3, 0, 0)})
      EXCEPT !.versions = {Custom, Desk}, !.hours = {Morning}],
   [Plan({"punch", "holiday", "leave", "schedule"}, 3,
         {On(1, 7, 4), On(1, 7, 40), On(1, 16, 0), On(2, 6, 0), On(2, 8, 20)}) EXCEPT !.versions = {Desk}],
   Plan({"qr"}, 0, {})}

=============================================================================
