------------------------------ MODULE ReplyDebouncer ----------------------------
(***************************************************************************)
(* ReplyDebouncer of app/services/staff_bot.py: for each chat one pending  *)
(* reply, into which everything merges that the chat asks for until the    *)
(* chat has been quiet long enough.                                        *)
(***************************************************************************)
EXTENDS PhotoDesk

CONSTANTS
  CommandQuiet, AckQuiet, SlotQuiet, MaxWait,
  NoReply

VARIABLE pending  \* by chat

DebouncerInit == pending = [c \in Chats |-> NoReply]

Started == [token |-> 0, first |-> now, last |-> now, quiet |-> MaxWait, slot |-> NoSlot,
            asks |-> FALSE, todo |-> <<>>, acks |-> {}]

Entry(c) == IF pending[c] = NoReply THEN Started ELSE pending[c]

Sooner(a, b) == IF a < b THEN a ELSE b

\* What note_command and note_photo_ack have in common: the token of the call
\* replaces the one held, whichever is newer.
Noted(c, token, quiet) ==
  [Entry(c) EXCEPT !.token = token, !.last = now, !.quiet = Sooner(@, quiet)]

\* note_command: a ticket command with its action, any other as a request
NoteCommand(c, token, todo) ==
  pending' = [pending EXCEPT ![c] =
    LET e == Noted(c, token, CommandQuiet)
    IN [e EXCEPT !.todo = @ \o todo, !.asks = @ \/ todo = <<>>]]

\* submit_slot_digest
WithSlot(c, token, s) == [Noted(c, token, SlotQuiet) EXCEPT !.slot = s]

\* note_photo_ack
NoteAck(c, token, o) ==
  pending' = [pending EXCEPT ![c] =
    LET e == Noted(c, token, AckQuiet) IN [e EXCEPT !.acks = @ \cup {o}]]

\* note_message never makes an entry.
Refreshed(e, token) == IF e = NoReply THEN NoReply ELSE [e EXCEPT !.token = token, !.last = now]

\* PendingReply.deadline
Deadline(e) == Sooner(e.last + e.quiet, e.first + MaxWait)

Due == {c \in Chats : pending[c] # NoReply /\ Deadline(pending[c]) <= now}

=============================================================================
