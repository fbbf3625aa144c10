------------------------------- MODULE MCStaffBot -------------------------------
(***************************************************************************)
(* Scenes: a slot that opens to talk while services fail and the process   *)
(* restarts; the same with a reply that outlives its mark; feedback and    *)
(* leave in two reports; pictures before and after two reports of a        *)
(* private chat; a report in the group within a slot.  A unit of time is   *)
(* about 25 seconds.                                                       *)
(***************************************************************************)
EXTENDS StaffBot

CONSTANTS desk, guest, morning, noon

MCWindow == [s \in Slots |-> IF s = morning THEN [start |-> 1, late |-> 3, end |-> 10]
                                            ELSE [start |-> 11, late |-> 13, end |-> 19]]
Nothing == [start |-> 1, users |-> Users, chats |-> {Group}, quotes |-> FALSE, reply |-> 1,
            leaves |-> 0, talk |-> 0, photos |-> 0, reports |-> 0, adds |-> 0, asks |-> 0,
            videos |-> 0, ticks |-> 0, restarts |-> 0, faults |-> 0, ended |-> 0]

MCBudgets ==
  {[Nothing EXCEPT !.talk = 4, !.ticks = 7, !.restarts = 1, !.faults = 1],
   [Nothing EXCEPT !.talk = 3, !.reply = 5, !.ticks = 6, !.restarts = 1, !.faults = 1],
   [Nothing EXCEPT !.start = 9, !.talk = 2, !.leaves = 2, !.ticks = 4, !.faults = 1, !.ended = 1],
   [Nothing EXCEPT !.start = 0, !.users = {desk}, !.chats = {desk}, !.photos = 2, !.reports = 2, !.ticks = 1],
   [Nothing EXCEPT !.start = 0, !.users = {desk}, !.chats = {desk}, !.photos = 1, !.reports = 1,
      !.adds = 1, !.quotes = TRUE, !.videos = 1, !.faults = 1],
   [Nothing EXCEPT !.talk = 1, !.reports = 1, !.photos = 1],
   [Nothing EXCEPT !.chats = {desk, Group}, !.users = {desk}, !.talk = 1, !.asks = 1, !.ticks = 1]}

=============================================================================
