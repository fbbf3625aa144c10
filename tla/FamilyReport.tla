------------------------------- MODULE FamilyReport -----------------------------
(***************************************************************************)
(* What a slot report carries besides the housekeeping digest: pending     *)
(* guest feedback (guest_feedback_client.py; the queue is the other        *)
(* service's) and new leave requests (staff_leave_family_report.py, which  *)
(* wraps build_reply and reply_messages).  Both are checked off once LINE  *)
(* has accepted the reply.                                                 *)
(***************************************************************************)
EXTENDS ReplyDebouncer

CONSTANTS
  Feedback,     \* items pending at the feedback service, numbered as they come
  SectionLines, \* FEEDBACK_SECTION_LINE_CAP
  MaxImages,    \* MAX_LEAVE_IMAGES_PER_REPLY
  MaxMessages   \* MAX_REPLY_MESSAGES

VARIABLES
  leave,     \* leave requests, oldest first
  confirmed  \* feedback the other service has as delivered

reportVars == <<leave, confirmed>>

ReportInit(leaves) ==
  /\ leave = [l \in 1 .. leaves |-> [status |-> "live", reported |-> FALSE]]
  /\ confirmed = {}

\* guest_feedback_client.fetch_pending
Waiting == Feedback \ confirmed

\* render_feedback_section: the rest is "and so many more".
Shown(items) == Oldest(items, SectionLines)

\* fetch_unreported: the limit comes before the roster is looked at.
Unreported(limit) ==
  LET rows == {l \in DOMAIN leave : ~leave[l].reported /\ leave[l].status # "cancelled"}
  IN {l \in Oldest(rows, limit) : leave[l].status = "live"}

\* Room for pictures in a reply of that many messages.
ImageRoom(messages, included) ==
  LET room == MaxMessages - messages - (IF included THEN 0 ELSE 1)
  IN IF room < MaxImages THEN room ELSE MaxImages

\* Mutant: whatever was not reported before is now.
MarkAllReported(ls) ==
  leave' = [l \in DOMAIN leave |-> [leave[l] EXCEPT !.reported = TRUE]]

\* mark_reported
MarkReported(ls) ==
  leave' = [l \in DOMAIN leave |-> [leave[l] EXCEPT !.reported = @ \/ l \in ls]]

\* A request is cancelled by its owner, or its roster rows are removed.
LeaveEnds(l, how) ==
  /\ leave[l].status = "live" /\ leave' = [leave EXCEPT ![l].status = how]

=============================================================================
