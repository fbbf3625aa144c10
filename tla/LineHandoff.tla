------------------------------- MODULE LineHandoff ------------------------------
(***************************************************************************)
(* The same-browser hand-off: app/services/line_handoff_store.py, the long *)
(* poll of line_auth.line_handoff_wait, and the waiting page               *)
(* static/line-handoff.html.  Every function of the store holds its lock,  *)
(* and the event loop runs a poll from one sleep to the next without a     *)
(* break.                                                                  *)
(***************************************************************************)
EXTENDS HfId, FiniteSets

CONSTANTS
  Browsers,    \* phone browsers: a browser has one cookie for all its tabs
  Polls,       \* long polls under way
  MaxTickets,  \* tickets the store holds at most (500 in the code)
  MaxWaiters,  \* polls parked at most (32 in the code)
  NoTicket, NoOne

ASSUME HandoffAssumption ==
  IsFiniteSet(Polls) /\ {MaxTickets, MaxWaiters} \subseteq Nat /\ NoTicket \notin Nat

VARIABLES
  handoff, \* _tickets, in the order they were made
  cookie,  \* by browser: the ticket of its cookie
  poll,    \* by poll: the ticket it waits for
  waiters, \* _waiters
  polled,  \* polls parked so far
  given    \* by ticket: whom it was handed over as

handoffVars == <<handoff, cookie, poll, waiters, polled, given>>

Parked(q) == poll[q] # NoTicket

\* Polls are all alike.
FirstFree == CHOOSE q \in Polls : ~Parked(q)

HandoffInit ==
  /\ handoff = <<>> /\ given = <<>>
  /\ cookie = [b \in Browsers |-> NoTicket]
  /\ poll = [q \in Polls |-> NoTicket]
  /\ waiters = 0 /\ polled = 0

Live(h) == handoff[h].status \in {"pending", "resolved"}

\* create_ticket prunes before it counts.
RoomForTicket == Cardinality({h \in DOMAIN handoff : Live(h)}) < MaxTickets

CreateTicket(b, l) ==
  /\ handoff' = Append(handoff, [status |-> "pending", login |-> l, who |-> NoOne])
  /\ given' = Append(given, <<>>)
  /\ cookie' = [cookie EXCEPT ![b] = Len(handoff')]
  /\ UNCHANGED <<hfidVars, poll, waiters, polled>>

\* resolve_ticket.  From another network the identity is dropped and the
\* ticket stays pending.
ResolveTicket(h, p, sameNetwork) ==
  /\ handoff' = IF handoff[h].status = "pending" /\ sameNetwork
       THEN [handoff EXCEPT ![h].status = "resolved", ![h].who = p] ELSE handoff
  /\ UNCHANGED <<hfidVars, cookie, poll, waiters, polled, given>>

HandoffLapses(h) ==
  /\ Live(h) /\ handoff' = [handoff EXCEPT ![h].status = "lapsed"]
  /\ UNCHANGED <<hfidVars, cookie, poll, waiters, polled, given>>

\* A tab asks with the cookie its browser has now.  Without a live ticket it is
\* answered at once (peek, 404), and with all slots taken too (503).  The first
\* look at the ticket is a step like those after each sleep.
StartWait(b) ==
  LET h == cookie[b]
  IN /\ \E q \in Polls : ~Parked(q)
     /\ h # NoTicket /\ Live(h)
     /\ waiters < MaxWaiters /\ waiters' = waiters + 1
     /\ polled < budget.polls /\ polled' = polled + 1
     /\ poll' = [poll EXCEPT ![FirstFree] = h]
     /\ UNCHANGED <<hfidVars, handoff, cookie, given>>

\* Mutant: the slot is not given back.
LeaveKeepingSlot(q) == poll' = [poll EXCEPT ![q] = NoTicket] /\ UNCHANGED waiters

\* The finally clause: every way out gives the slot back.
Leave(q) ==
  /\ poll' = [poll EXCEPT ![q] = NoTicket]
  /\ waiters' = IF waiters > 0 THEN waiters - 1 ELSE waiters

\* Mutant: the answer stays in the store.
TakeKept(q) ==
  LET h == poll[q]
  IN /\ Parked(q) /\ handoff[h].status = "resolved"
     /\ UNCHANGED handoff
     /\ given' = [given EXCEPT ![h] = Append(@, handoff[h].who)]

\* take_resolved
Take(q) ==
  LET h == poll[q]
  IN /\ Parked(q) /\ handoff[h].status = "resolved"
     /\ handoff' = [handoff EXCEPT ![h].status = "taken"]
     /\ given' = [given EXCEPT ![h] = Append(@, handoff[h].who)]

\* _complete_handoff in the poll that took the ticket; an error leaves by the
\* same finally clause.
Collect(q) ==
  LET h == poll[q]
  IN /\ Take(q) /\ Leave(q) /\ UNCHANGED <<cookie, polled>>
     /\ \/ ContinueOidc(handoff[h].login, handoff[h].who)
        \/ ContinueOidcFails(handoff[h].login)

\* Mutant: the deadline is looked at before the ticket.
WaitTimesOutBlindly(q) ==
  Parked(q) /\ Leave(q) /\ UNCHANGED <<hfidVars, handoff, cookie, polled, given>>

\* The slice of a poll is over, 204: as long as the ticket is not resolved.  A
\* poll whose connection is lost goes on like the others: nothing tells it.
WaitTimesOut(q) ==
  /\ Parked(q) /\ handoff[poll[q]].status # "resolved"
  /\ Leave(q) /\ UNCHANGED <<hfidVars, handoff, cookie, polled, given>>

PollNext ==
  \/ \E h \in DOMAIN handoff : HandoffLapses(h)
  \/ \E q \in Polls : Collect(q) \/ WaitTimesOut(q)
  \/ \E b \in Browsers : StartWait(b)

HandoffTypeOK ==
  /\ handoff \in Seq([status : {"pending", "resolved", "taken", "lapsed"},
                      login : DOMAIN login, who : People \cup {NoOne}])
  /\ cookie \in [Browsers -> DOMAIN handoff \cup {NoTicket}]
  /\ poll \in [Polls -> DOMAIN handoff \cup {NoTicket}]
  /\ given \in Seq(Seq(People))

=============================================================================
