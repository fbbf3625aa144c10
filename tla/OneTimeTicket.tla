----------------------------- MODULE OneTimeTicket -----------------------------
(***************************************************************************)
(* What a store of sign-in tickets promises whoever hands tickets out: a   *)
(* ticket gets at most one answer, which no later one replaces, and the    *)
(* answer is handed over at most once.  Until then the ticket may lapse.   *)
(* The hand-off tickets, the elevate tickets and the authorization codes   *)
(* are shown to be such stores (SignIn).                                   *)
(***************************************************************************)
EXTENDS Naturals

CONSTANTS
  Tickets,
  Answers,
  Unused, Pending, Gone  \* not yet given out; without an answer; over.  No answers

VARIABLES
  ticket, \* Unused, Pending, the answer it holds, or Gone
  handed  \* how often each answer was handed over

vars == <<ticket, handed>>

Init ==
  /\ ticket = [t \in Tickets |-> Unused]
  /\ handed = [t \in Tickets |-> [a \in Answers |-> 0]]

Become(t, value) == ticket' = [ticket EXCEPT ![t] = value]

Open(t) == ticket[t] = Unused /\ Become(t, Pending) /\ UNCHANGED handed

\* A code is given out together with its answer.
Answer(t, answer) ==
  ticket[t] \in {Unused, Pending} /\ Become(t, answer) /\ UNCHANGED handed

HandOver(t) ==
  /\ ticket[t] \in Answers /\ Become(t, Gone)
  /\ handed' = [handed EXCEPT ![t][ticket[t]] = @ + 1]

Lapse(t) == ticket[t] # Unused /\ Become(t, Gone) /\ UNCHANGED handed

Next ==
  \E t \in Tickets :
    \/ Open(t) \/ HandOver(t) \/ Lapse(t)
    \/ \E answer \in Answers : Answer(t, answer)

Spec == Init /\ [][Next]_vars

=============================================================================
