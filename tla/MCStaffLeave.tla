------------------------------ MODULE MCStaffLeave ------------------------------
(* StaffLeave for TLC: two form ids are interchangeable, and so are workers. *)
EXTENDS StaffLeave, TLC
Symmetry == Permutations(Requests) \cup Permutations(Workers)

\* Two days, one day and half a day, the first of them long enough to need a
\* certificate when it is a sick leave.
MCFiled ==
  {[sick |-> s, from |-> 1, to |-> 2, portion |-> "full"] : s \in BOOLEAN}
    \cup {[sick |-> TRUE, from |-> 2, to |-> 2, portion |-> p] : p \in Portions}

MCSettings == {TRUE, FALSE}
MCOnlyAuto == {TRUE}

\* Filing, editing, deciding and attaching overlap freely; a cancellation
\* overlaps them only where nothing is approved automatically (see MCCancelRace).
MCOverlapping ==
  [a \in BOOLEAN |->
     {"submit", "edit", "decide", "certificate"} \cup IF a THEN {} ELSE {"cancel"}]
MCCancelRace == [a \in BOOLEAN |-> {"submit", "cancel"}]
=============================================================================
