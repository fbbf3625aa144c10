--------------------------------- MODULE StaffBot -------------------------------
(***************************************************************************)
(* The staff bot of app/services/staff_bot.py behind the LINE webhook      *)
(* (app/api/staff_oa.py): a group and private chats, one drain loop that   *)
(* answers all due chats at once, uploads in the background, and a process *)
(* that may be restarted.  A webhook event is handled in one piece on the  *)
(* event loop; a reply awaits worker threads between its steps.            *)
(***************************************************************************)
EXTENDS FamilyReport

CONSTANTS
  Budgets, \* bounds of a scene; reply: a reply is through after that time
  NoToken

VARIABLES
  flight, \* by chat: the reply under way
  token,  \* reply tokens LINE has handed out
  spent,  \* and those it has accepted
  seen,   \* what the group has seen: by slot and leave how often; feedback shown,
          \* and feedback a full section only counted
  lost,   \* by slot and leave: posts whose outcome was not noted; by slot: reports
          \* taken for dead that were not (late)
  budget

ASSUME BotAssumption ==
  /\ Linked \subseteq Users
  /\ \A t \in {CommandQuiet, AckQuiet, SlotQuiet, MaxWait} : t \in Nat
  /\ \A b \in Budgets : b.start \in Nat /\ b.leaves \in Nat

botVars == <<flight, token, spent, seen, lost>>
staffVars == <<slotVars, deskVars, pending, reportVars, botVars, budget>>

Count(S) == [x \in S |-> 0]

NoFlight == [stage |-> "over"]

BotInit ==
  /\ budget \in Budgets /\ now = budget.start
  /\ mark = [s \in Slots |-> NoMark]
  /\ DeskInit /\ DebouncerInit /\ ReportInit(budget.leaves)
  /\ flight = [c \in Chats |-> NoFlight]
  /\ token = 0 /\ spent = {}
  /\ seen = [slots |-> Count(Slots), leaves |-> Count(DOMAIN leave), shown |-> {}, cut |-> {}]
  /\ lost = [slots |-> Count(Slots), leaves |-> Count(DOMAIN leave), late |-> Count(Slots)]

Spend(kind) == budget[kind] > 0 /\ budget' = [budget EXCEPT ![kind] = @ - 1]

-----------------------------------------------------------------------------
(* Webhook events.  Each brings a reply token of its own. *)

Event == token' = token + 1 /\ UNCHANGED <<flight, spent, seen, reportVars, now>>

\* The report of the slot waits to be made, or is made and not yet noted.
OnItsWay(s) ==
  \/ pending[Group] # NoReply /\ pending[Group].slot = s
  \/ /\ flight[Group] # NoFlight /\ flight[Group].stage # "confirm"
     /\ flight[Group].owns /\ flight[Group].slot = s

\* Counts the slot a message finds with a stale mark whose report is only slow.
CountLate ==
  lost' = [lost EXCEPT !.late = [s \in Slots |->
    @[s] + (IF s = SlotNow /\ TakenForDead(s) /\ OnItsWay(s) THEN 1 ELSE 0)]]

\* _maybe_file_slot_digest: the row may not be written.
SlotDigest(u) ==
  /\ CountLate
  /\ \/ /\ Triggers(u) /\ mark' = SlotFiled
        /\ pending' = [pending EXCEPT ![Group] = WithSlot(Group, token', SlotNow)]
     \/ /\ Triggers(u) => budget.faults > 0
        /\ mark' = Looked
        /\ pending' = [pending EXCEPT ![Group] = Refreshed(@, token')]

\* Ordinary talk in the group: nothing but the clock and the sender counts.
GroupTalk(u) ==
  /\ Spend("talk") /\ Event /\ SlotDigest(u) /\ UNCHANGED deskVars

\* A picture in the group is talk too.
GroupPhoto(u) ==
  /\ Spend("photos") /\ Event /\ SlotDigest(u)
  /\ IF u \in Linked THEN PhotoArrives(<<Group, u>>, token') ELSE UNCHANGED deskVars

\* A picture in a private chat refreshes the reply that is pending there.
PrivatePhoto(u) ==
  /\ u \in Linked /\ Spend("photos") /\ Event
  /\ PhotoArrives(<<u, u>>, token')
  /\ pending' = [pending EXCEPT ![u] = Refreshed(@, token')] /\ UNCHANGED <<mark, lost>>

\* A report: in private, or in the group by addressing the bot.  It may quote
\* a picture.
Report(c, u, quoted) ==
  /\ c = Group \/ u \in Linked
  /\ Spend("reports") /\ Event
  /\ NoteCommand(c, token', <<[do |-> "report", by |-> u, on |-> 0, quoted |-> quoted]>>)
  /\ UNCHANGED <<mark, deskVars, lost>>

\* The button that adds pictures to an order.
AddPhoto(u, o) ==
  /\ u \in Linked /\ Spend("adds") /\ Event
  /\ NoteCommand(u, token', <<[do |-> "addphoto", by |-> u, on |-> o, quoted |-> {}]>>)
  /\ UNCHANGED <<mark, deskVars, lost>>

\* Any other command of a private chat, and a stranger's message: one answer.
Ask(u) ==
  /\ Spend("asks") /\ Event
  /\ NoteCommand(u, token', <<>>) /\ UNCHANGED <<mark, deskVars, lost>>

-----------------------------------------------------------------------------
(* A reply. *)

Idle == \A c \in Chats : flight[c] = NoFlight

Quiet == UNCHANGED <<now, token, budget>>

Taken(e) ==
  [stage |-> "read", since |-> now, slot |-> e.slot, token |-> e.token, asks |-> e.asks,
   acks |-> e.acks, todo |-> e.todo, messages |-> 0, owns |-> e.slot # NoSlot,
   included |-> FALSE, carried |-> {}, leaves |-> {}, claims |-> <<>>]

\* _drain: all due replies together, and no other before they are through.
PopDue ==
  /\ Idle /\ Due # {}
  /\ flight' = [c \in Chats |-> IF c \in Due THEN Taken(pending[c]) ELSE NoFlight]
  /\ pending' = [c \in Chats |-> IF c \in Due THEN NoReply ELSE pending[c]]
  /\ Quiet /\ UNCHANGED <<mark, deskVars, reportVars, spent, seen, lost>>

At(c, stage) == flight[c] # NoFlight /\ flight[c].stage = stage

\* Mutant: a failed reply holds the drain loop up.
OverUnlessFailed(c) ==
  flight' = [flight EXCEPT ![c] = IF @.stage = "send" THEN [@ EXCEPT !.stage = "stuck"] ELSE NoFlight]

Over(c) == flight' = [flight EXCEPT ![c] = NoFlight]

\* _drop_mark, in a session of its own that may fail.
Release(s) ==
  \/ DropMark(s)
  \/ budget.faults > 0 /\ UNCHANGED mark

GiveUp(c) ==
  /\ Over(c)
  /\ IF flight[c].owns THEN Release(flight[c].slot) ELSE UNCHANGED mark

\* The channel is switched off, or building the reply raises.
ReadFails(c) ==
  /\ At(c, "read") /\ Spend("faults") /\ GiveUp(c)
  /\ UNCHANGED <<now, token, deskVars, pending, reportVars, spent, seen, lost>>

\* build_reply up to the ticket actions: the digest and the feedback, if their
\* services answer, and the acknowledgements.  All feedback that was read goes
\* on to be confirmed.
Read(c, digest, feedback) ==
  LET f == flight[c]
      items == IF f.slot # NoSlot /\ feedback THEN Waiting ELSE {}
      included == f.slot # NoSlot /\ (digest \/ items # {})
      messages == (IF included THEN 1 ELSE 0) + (IF f.asks THEN 1 ELSE 0) + Cardinality(f.acks)
  IN /\ At(c, "read")
     /\ f.slot = NoSlot => digest /\ feedback
     /\ flight' = [flight EXCEPT ![c].stage = "act", ![c].messages = messages,
          ![c].included = included, ![c].carried = items]
     /\ Quiet /\ UNCHANGED <<mark, deskVars, pending, reportVars, spent, seen, lost>>

Acting(c) == At(c, "act") /\ flight[c].todo # <<>>
Action(c) == Head(flight[c].todo)
Acted(c) == [flight[c] EXCEPT !.todo = Tail(@), !.messages = @ + 1]

\* _create_ticket: the order, and the pictures that came before it.
CreateTicket(c) ==
  LET a == Action(c)
      k == <<c, a.by>>
      o == Len(order) + 1
      tasks == {[photo |-> p, how |-> "claimed"] : p \in Claimed(k)}
                 \cup {[photo |-> p, how |-> "quoted"] : p \in a.quoted}
  IN /\ Acting(c) /\ a.do = "report" /\ a.by \in Linked
     /\ order' = Append(order, [key |-> k])
     /\ Claim(k)
     /\ flight' = [flight EXCEPT ![c].stage = "open",
          ![c].claims = Append(@, [order |-> o, tasks |-> tasks])]
     /\ Quiet /\ UNCHANGED <<mark, photo, window, upload, attached, pending, reportVars, spent, seen, lost>>

\* The order it has just made.
Created(c) == flight[c].claims[Len(flight[c].claims)].order

\* and then the window for those that follow.
OpenWindow(c) ==
  /\ At(c, "open")
  /\ OpenAttach(<<c, Action(c).by>>, Created(c))
  /\ flight' = [flight EXCEPT ![c] = [Acted(c) EXCEPT !.stage = "act"]]
  /\ Quiet /\ UNCHANGED <<mark, photo, buffer, order, upload, attached, pending, reportVars, spent, seen, lost>>

\* The sender is no employee, the report cannot be read, or housekeeping
\* refuses it or does not answer.
TicketRefused(c) ==
  /\ Acting(c)
  /\ \/ Spend("faults")
     \/ Action(c).by \notin Linked /\ UNCHANGED budget
  /\ flight' = [flight EXCEPT ![c] = Acted(c)]
  /\ UNCHANGED <<now, token, mark, deskVars, pending, reportVars, spent, seen, lost>>

\* _build_ticket_messages for the button: the order is the sender's own, or
\* the sender is reception.
OpenForOrder(c) ==
  LET a == Action(c)
  IN /\ Acting(c) /\ a.do = "addphoto"
     /\ IF order[a.on].key[2] = a.by \/ a.by \in Reception
        THEN OpenAttach(<<c, a.by>>, a.on) ELSE UNCHANGED window
     /\ flight' = [flight EXCEPT ![c] = Acted(c)]
     /\ Quiet /\ UNCHANGED <<mark, photo, buffer, order, upload, attached, pending, reportVars, spent, seen, lost>>

\* The wrapper of build_reply adds leave requests to a slot report, if the
\* database answers.  Leave alone is a report too.
ReadLeaves(c) ==
  LET f == flight[c]
      sent == IF f.messages < MaxMessages THEN f.messages ELSE MaxMessages
      room == ImageRoom(sent, f.included)
      asks == f.slot # NoSlot /\ room > 0
      WithLeaves(items) ==
        flight' = [flight EXCEPT ![c].stage = "upload", ![c].leaves = items,
          ![c].included = @ \/ items # {},
          ![c].messages = sent + Cardinality(items) + (IF f.included \/ items = {} THEN 0 ELSE 1)]
  IN /\ At(c, "act") /\ f.todo = <<>>
     /\ \/ WithLeaves(IF asks THEN Unreported(room) ELSE {}) /\ UNCHANGED budget
        \/ asks /\ Spend("faults") /\ WithLeaves({})
     /\ UNCHANGED <<now, token, mark, deskVars, pending, reportVars, spent, seen, lost>>

\* _await_claimed_uploads: the tasks of one order start, and the reply goes on
\* when they are done or the wait is over.  They go on in either case.
StartUploads(c) ==
  LET job == Head(flight[c].claims)
  IN /\ At(c, "upload") /\ flight[c].claims # <<>>
     /\ upload' = upload \cup {Task(t.photo, job.order, t.how, NoToken) : t \in job.tasks}
     /\ flight' = [flight EXCEPT ![c].claims = Tail(@)]
     /\ Quiet /\ UNCHANGED <<mark, photo, buffer, window, order, attached, pending, reportVars, spent, seen, lost>>

\* A slot report without content gives its mark back; what else there is to
\* say is sent.
DecideReport(c) ==
  LET f == flight[c]
  IN /\ At(c, "upload") /\ f.claims = <<>>
     /\ IF f.owns /\ ~f.included THEN Release(f.slot) ELSE UNCHANGED mark
     /\ IF f.messages = 0 THEN Over(c)
        ELSE flight' = [flight EXCEPT ![c].stage = "send", ![c].owns = @ /\ f.included]
     /\ Quiet /\ UNCHANGED <<deskVars, pending, reportVars, spent, seen, lost>>

Posted(f) ==
  [slots |-> [s \in Slots |-> seen.slots[s] + (IF f.owns /\ s = f.slot THEN 1 ELSE 0)],
   leaves |-> [l \in DOMAIN leave |-> seen.leaves[l] + (IF l \in f.leaves THEN 1 ELSE 0)],
   shown |-> seen.shown \cup Shown(f.carried),
   cut |-> seen.cut \cup (f.carried \ Shown(f.carried))]

\* What was posted and will not be noted.
Unnoted(slots, leaves) ==
  [slots |-> [s \in Slots |-> lost.slots[s] + (IF s \in slots THEN 1 ELSE 0)],
   leaves |-> [l \in DOMAIN leave |-> lost.leaves[l] + (IF l \in leaves THEN 1 ELSE 0)],
   late |-> lost.late]

OwnSlot(f) == IF f.owns THEN {f.slot} ELSE {}

\* LINE accepts a token once.
Accepted(c) ==
  /\ At(c, "send") /\ flight[c].token \notin spent
  /\ spent' = spent \cup {flight[c].token} /\ seen' = Posted(flight[c])

Send(c) ==
  /\ Accepted(c)
  /\ IF flight[c].slot = NoSlot THEN Over(c)
     ELSE flight' = [flight EXCEPT ![c].stage = "report"]
  /\ Quiet /\ UNCHANGED <<mark, deskVars, pending, reportVars, lost>>

\* LINE has accepted the reply, and its answer does not arrive.
SendUnanswered(c) ==
  /\ Accepted(c) /\ Spend("faults") /\ GiveUp(c)
  /\ lost' = Unnoted(OwnSlot(flight[c]), flight[c].leaves)
  /\ UNCHANGED <<now, token, deskVars, pending, reportVars>>

SendFails(c) ==
  /\ At(c, "send")
  /\ \/ flight[c].token \in spent /\ UNCHANGED budget
     \/ flight[c].token \notin spent /\ Spend("faults")
  /\ GiveUp(c)
  /\ UNCHANGED <<now, token, deskVars, pending, reportVars, spent, seen, lost>>

\* The wrapper of reply_messages, for the pictures that were in the reply.
NoteLeaves(c) ==
  LET f == flight[c]
  IN /\ At(c, "report")
     /\ \/ MarkReported(f.leaves) /\ UNCHANGED <<lost, budget>>
        \/ /\ f.leaves # {} /\ Spend("faults")
           /\ lost' = Unnoted({}, f.leaves) /\ UNCHANGED leave
     /\ flight' = [flight EXCEPT ![c].stage = "mark"]
     /\ UNCHANGED <<now, token, mark, deskVars, pending, confirmed, spent, seen>>

\* _mark_sent, in a session of its own that may fail.
NoteSlot(c) ==
  LET f == flight[c]
  IN /\ At(c, "mark")
     /\ \/ /\ IF f.owns THEN MarkSent(f.slot) ELSE UNCHANGED mark
           /\ UNCHANGED <<lost, budget>>
        \/ /\ f.owns /\ Spend("faults")
           /\ lost' = Unnoted({f.slot}, {}) /\ UNCHANGED mark
     /\ flight' = [flight EXCEPT ![c].stage = "confirm"]
     /\ UNCHANGED <<now, token, deskVars, pending, reportVars, spent, seen>>

\* confirm_delivered, for all that was read.  The other service may be out.
NoteFeedback(c) ==
  LET f == flight[c]
  IN /\ At(c, "confirm") /\ Over(c)
     /\ \/ confirmed' = confirmed \cup f.carried /\ UNCHANGED budget
        \/ f.carried # {} /\ Spend("faults") /\ UNCHANGED confirmed
     /\ UNCHANGED <<now, token, mark, deskVars, pending, leave, spent, seen, lost>>

\* A reply goes on as fast as the services answer.
Step(c) ==
  \/ ReadFails(c) \/ \E digest, feedback \in BOOLEAN : Read(c, digest, feedback)
  \/ CreateTicket(c) \/ OpenWindow(c) \/ TicketRefused(c) \/ OpenForOrder(c)
  \/ ReadLeaves(c) \/ StartUploads(c) \/ DecideReport(c)
  \/ Send(c) \/ SendUnanswered(c) \/ SendFails(c)
  \/ NoteLeaves(c) \/ NoteSlot(c) \/ NoteFeedback(c)

-----------------------------------------------------------------------------
(* Uploads, time, and the end of the process. *)

\* _upload_one_photo: a picture with a token of its own is acknowledged with
\* that token, whether or not it got through.
UploadDone(t) ==
  LET c == order[t.order].key[1]
      k == photo[t.photo].key
  IN /\ upload' = upload \ {t}
     /\ \/ attached' = [attached EXCEPT ![t.photo] = Append(@, [order |-> t.order, how |-> t.how])]
           /\ UNCHANGED budget
        \/ Spend("faults") /\ UNCHANGED attached
     /\ IF t.token # NoToken THEN NoteAck(k[1], t.token, t.order) ELSE UNCHANGED pending
     /\ UNCHANGED <<slotVars, photo, buffer, window, order, reportVars, botVars>>

\* _upload_video_with_deadline: the token is spent on a first answer, and the
\* upload goes on without one.
AnswerEarly(t) ==
  /\ t.token # NoToken /\ Spend("videos")
  /\ upload' = (upload \ {t}) \cup {[t EXCEPT !.token = NoToken]}
  /\ NoteAck(photo[t.photo].key[1], t.token, t.order)
  /\ UNCHANGED <<slotVars, photo, buffer, window, order, attached, reportVars, botVars>>

\* Nothing stays due while the drain loop is free, and no reply under way
\* takes longer than the scene allows.  The bound on time is for a bot at rest.
Tick ==
  /\ IF \A c \in Chats : pending[c] = NoReply THEN Spend("ticks") ELSE UNCHANGED budget
  /\ now' = now + 1
  /\ ~(Idle /\ Due # {})
  /\ \A c \in Chats : flight[c] # NoFlight => now - flight[c].since < budget.reply
  /\ UNCHANGED <<mark, deskVars, pending, reportVars, botVars>>

\* A deployment or a crash: the database and the other services stay.
Restart ==
  LET open == {c \in Chats : flight[c] # NoFlight}
      \* the steps that were still to come
      leaves == UNION {flight[c].leaves : c \in {d \in open : flight[d].stage = "report"}}
      slots == UNION {OwnSlot(flight[c]) : c \in {d \in open : flight[d].stage \in {"report", "mark"}}}
  IN /\ Spend("restarts")
     /\ flight' = [c \in Chats |-> NoFlight] /\ pending' = [c \in Chats |-> NoReply]
     /\ DeskLost /\ lost' = Unnoted(slots, leaves)
     /\ UNCHANGED <<slotVars, reportVars, token, spent, seen>>

LeaveChanges ==
  /\ Spend("ended")
  /\ \E l \in DOMAIN leave, how \in {"cancelled", "roster"} : LeaveEnds(l, how)
  /\ UNCHANGED <<slotVars, deskVars, pending, confirmed, botVars>>

\* At most one picture, within the bound.
Quotable == {{}} \cup (IF budget.quotes THEN {{p} : p \in DOMAIN photo} ELSE {})

Webhook ==
  \/ \E u \in budget.users :
       \/ Group \in budget.chats /\ (GroupTalk(u) \/ GroupPhoto(u))
       \/ u \in budget.chats /\ (PrivatePhoto(u) \/ Ask(u) \/ \E o \in DOMAIN order : AddPhoto(u, o))
       \/ \E c \in {u, Group} \cap budget.chats, quoted \in Quotable : Report(c, u, quoted)

BotNext ==
  \/ Webhook \/ PopDue \/ Tick \/ Restart \/ LeaveChanges
  \/ \E c \in Chats : Step(c)
  \/ \E t \in upload : UploadDone(t) \/ AnswerEarly(t)

BotSpec == BotInit /\ [][BotNext]_staffVars

\* The event loop runs the drain loop and the replies, and time passes.
FairBotSpec ==
  /\ BotSpec /\ WF_staffVars(PopDue) /\ WF_staffVars(Tick)
  /\ \A c \in Chats : WF_staffVars(Step(c))

-----------------------------------------------------------------------------
(* Properties. *)

\* A window has one report in the group, and a leave request one picture,
\* unless the outcome of an earlier post was lost before it could be noted
\* (LINE's answer, the write, or the process in between), or a report was so
\* slow that its pending mark was taken for dead.  Nothing else makes a second
\* one: no restart, no mark that could not be given back, no other report's end.
PostedOnceUnlessLost ==
  /\ \A s \in Slots : seen.slots[s] <= 1 + lost.slots[s] + lost.late[s]
  /\ \A l \in DOMAIN leave : seen.leaves[l] <= 1 + lost.leaves[l]

\* Leave and windows are checked off only after the group got a report with
\* them; feedback, after the group got a report that had a line for it or was
\* full without it (such an item is confirmed and never shown).  And the types.
CheckedOffWasPosted ==
  /\ mark \in [Slots -> {NoMark} \cup [state : {"pending", "sent"}, filed : 0 .. now]]
  /\ confirmed \subseteq seen.shown \cup seen.cut
  /\ \A l \in DOMAIN leave : leave[l].reported => seen.leaves[l] > 0
  /\ \A s \in Slots : (mark[s] # NoMark /\ mark[s].state = "sent") => seen.slots[s] > 0

\* Not quoted: a quotation attaches a picture once more.
Placed(p) == {i \in DOMAIN attached[p] : attached[p][i].how # "quoted"}

\* A picture gets to one order at most and is in one place at a time; one
\* claimed from the buffer gets to an order its sender reported in its chat.
PhotosFollowReports ==
  \A p \in DOMAIN photo :
    LET k == photo[p].key
        tasks == {t \in upload : t.photo = p /\ t.how # "quoted"}
        inBuffer == {b \in Keys : p \in buffer[b]}
    IN /\ Cardinality(Placed(p)) + Cardinality(tasks) + Cardinality(inBuffer) <= 1
       /\ \A i \in Placed(p) :
            attached[p][i].how = "claimed" => order[attached[p][i].order].key = k

\* What a chat asked for does not stay pending.
RepliesComeOut == \A c \in Chats : pending[c] # NoReply ~> pending[c] = NoReply

=============================================================================
