-------------------------------- MODULE SlotMarks -------------------------------
(***************************************************************************)
(* The slot marks of app/services/staff_bot.py: one row of                 *)
(* staff_bot_slot_marks for each group and daily window, which is what     *)
(* remembers across restarts that the window had its report.  One group.   *)
(***************************************************************************)
EXTENDS Integers, Sequences, FiniteSets

CONSTANTS
  Slots, Window,  \* by slot: when it starts, is late, and has ended
  Reception,      \* senders with the reception grant
  Stale,          \* age after which a pending mark is taken for dead
  NoSlot

VARIABLES
  now,
  mark  \* by slot

slotVars == <<now, mark>>

ASSUME WindowAssumption ==
  /\ \A s \in Slots : Window[s].start <= Window[s].late /\ Window[s].late <= Window[s].end
  /\ NoSlot \notin Slots /\ Stale \in Nat

\* slot_ref_for_event
SlotNow ==
  IF \E s \in Slots : Window[s].start <= now /\ now < Window[s].end
  THEN CHOOSE s \in Slots : Window[s].start <= now /\ now < Window[s].end
  ELSE NoSlot

NoMark == [state |-> "none"]
Pending == [state |-> "pending", filed |-> now]

\* Mutant: somebody's report on its way does not count.
FreeUnlessSent(s) == mark[s] # NoMark => mark[s].state = "pending"

\* A pending mark so old that its process must have died.
TakenForDead(s) ==
  mark[s] # NoMark /\ mark[s].state = "pending" /\ now - mark[s].filed > Stale

\* evaluate_slot_trigger on the mark: free, or taken for dead.
SlotFree(s) == mark[s] # NoMark => TakenForDead(s)

\* The rest of evaluate_slot_trigger: reception opens the slot, and late in
\* the window anybody does.
Triggers(u) ==
  /\ SlotNow # NoSlot /\ SlotFree(SlotNow)
  /\ u \in Reception \/ now >= Window[SlotNow].late

\* A stale mark is deleted whether or not the message opens the slot again.
Looked == [s \in Slots |-> IF s = SlotNow /\ SlotFree(s) THEN NoMark ELSE mark[s]]

\* file_slot_mark
SlotFiled == [Looked EXCEPT ![SlotNow] = Pending]

\* mark_slot_sent: the row is made if it is gone.
MarkSent(s) ==
  mark' = [mark EXCEPT ![s] =
    [state |-> "sent", filed |-> IF @ = NoMark THEN now ELSE @.filed]]

\* drop_slot_mark: whoever filed it.
DropMark(s) == mark' = [mark EXCEPT ![s] = NoMark]

=============================================================================
