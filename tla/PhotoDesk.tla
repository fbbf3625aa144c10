-------------------------------- MODULE PhotoDesk -------------------------------
(***************************************************************************)
(* PhotoBuffer and AttachWindowStore of app/services/staff_bot.py, and the *)
(* work orders of the housekeeping service.  A photo that comes before its *)
(* report waits in the buffer; one that comes after goes to the order      *)
(* whose window is open.  Both are kept for each sender in each chat, and  *)
(* each function holds its own store's lock: the event loop adds photos    *)
(* while a worker thread creates the order.                                *)
(***************************************************************************)
EXTENDS SlotMarks

CONSTANTS
  Group,   \* the group; a private chat has its user's name
  Users,   \* senders
  Linked,  \* those with an employee's account
  NoWindow,
  BufferTtl, MaxClaim,   \* PHOTO_BUFFER_TTL_SECONDS, PHOTO_BUFFER_MAX_CLAIM
  WindowTime, WindowCap  \* ATTACH_WINDOW_SECONDS, ATTACH_WINDOW_HARD_CAP_SECONDS

VARIABLES
  photo,   \* photos sent: chat, sender, time
  buffer,  \* by chat and sender: buffered photos
  window,  \* by chat and sender: the open attach window
  order,   \* work orders: chat and reporter
  upload,  \* upload tasks under way
  attached \* by photo: the orders it reached, and how

deskVars == <<photo, buffer, window, order, upload, attached>>

Chats == Users \cup {Group}

Keys == Chats \X Users

DeskInit ==
  /\ photo = <<>> /\ order = <<>> /\ attached = <<>> /\ upload = {}
  /\ buffer = [k \in Keys |-> {}]
  /\ window = [k \in Keys |-> NoWindow]

\* Photos are numbered as they come, and so are orders and requests.
Oldest(S, n) == {x \in S : Cardinality({y \in S : y <= x}) <= n}

Fresh(k) == {p \in buffer[k] : now - photo[p].at <= BufferTtl}

\* add, of a photo that is the next one
Buffered(k, p) == [buffer EXCEPT ![k] = Fresh(k) \cup {p}]

\* Mutant: the claimed photos stay for the next report.
ClaimKeeps(k) == UNCHANGED buffer

\* claim_detailed empties the slot: what is too old, and what exceeds the
\* number one order takes, is gone.
Claim(k) == buffer' = [buffer EXCEPT ![k] = {}]

Claimed(k) == Oldest(Fresh(k), MaxClaim)

\* open, for the same order without a new hard cap
OpenedFor(k, o) ==
  LET cap == IF window[k] # NoWindow /\ window[k].order = o
             THEN window[k].cap ELSE now + WindowCap
  IN [order |-> o, cap |-> cap,
      until |-> IF now + WindowTime < cap THEN now + WindowTime ELSE cap]

OpenAttach(k, o) == window' = [window EXCEPT ![k] = OpenedFor(k, o)]

IsOpen(k) == window[k] # NoWindow /\ now < window[k].until

Task(p, o, how, token) == [photo |-> p, order |-> o, how |-> how, token |-> token]

\* _maybe_handle_photo for a linked sender: the window takes it (refresh), or
\* the buffer.
PhotoArrives(k, token) ==
  LET p == Len(photo) + 1
  IN /\ photo' = Append(photo, [key |-> k, at |-> now])
     /\ attached' = Append(attached, <<>>)
     /\ UNCHANGED order
     /\ IF IsOpen(k)
        THEN /\ upload' = upload \cup {Task(p, window[k].order, "window", token)}
             /\ OpenAttach(k, window[k].order) /\ UNCHANGED buffer
        ELSE /\ buffer' = Buffered(k, p)
             /\ window' = [window EXCEPT ![k] = NoWindow]
             /\ UNCHANGED upload

DeskLost ==
  /\ buffer' = [k \in Keys |-> {}]
  /\ window' = [k \in Keys |-> NoWindow]
  /\ upload' = {} /\ UNCHANGED <<photo, order, attached>>

=============================================================================
