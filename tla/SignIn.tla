--------------------------------- MODULE SignIn ---------------------------------
(***************************************************************************)
(* Signing in: app/api/line_auth.py with the state store of                *)
(* line_auth_service.py lets a person sign in to LINE and passes the LINE  *)
(* account on to whoever asked - HF ID, a hand-off ticket of another       *)
(* browser, or a kiosk.                                                    *)
(*                                                                         *)
(* Everything runs on one event loop.  Only the LINE callback awaits       *)
(* between reading its state and acting on it (two requests to LINE on     *)
(* worker threads); the long polls await between two looks.                *)
(***************************************************************************)
EXTENDS LineHandoff, ReaderStation

CONSTANT Ids  \* bound: the tickets and codes followed

ASSUME TicketAssumption ==
  Ids \subseteq Nat /\ {"unused", "pending", "gone"} \cap (People \cup {NoBody}) = {} /\ NoBody \notin People

VARIABLE state  \* _state_storage and the callbacks under way, in order

vars == <<directoryVars, hfidVars, handoffVars, stationVars, state>>

Init ==
  /\ DirectoryInit /\ HfIdInit /\ HandoffInit /\ StationInit
  /\ state = <<>>

Others == UNCHANGED <<directoryVars, stationVars>>

\* generate_authorization_url: the hint stays on the server.
Begins(kind, on) ==
  /\ Len(state) < budget.states
  /\ state' = Append(state, [status |-> "issued", kind |-> kind, on |-> on, who |-> NoOne])

\* /login?redirect=oidc:l, as often as somebody loads it: on a desktop, in
\* LINE's own browser, or with the guidance page on a phone.
LoginDirectly(l) ==
  Begins("oidc", l) /\ Others /\ UNCHANGED <<hfidVars, handoffVars>>

\* The same in another browser of a phone: the hint is wrapped in a hand-off.
LoginByHandoff(b, l) ==
  /\ Len(handoff) < budget.handoffs /\ RoomForTicket
  /\ CreateTicket(b, l) /\ Begins("handoff", Len(handoff')) /\ Others

\* The kiosk's QR code leads to a page, and that to the login.
LoginForKiosk(e) ==
  /\ Answerable(e) /\ Begins("elevate", e)
  /\ Others /\ UNCHANGED <<hfidVars, handoffVars>>

\* validate_state: one callback for each state.
Callback(s, p) ==
  /\ state[s].status = "issued"
  /\ state' = [state EXCEPT ![s].status = "exchanging", ![s].who = p]
  /\ Others /\ UNCHANGED <<hfidVars, handoffVars>>

StateLapses(s) ==
  /\ state[s].status = "issued" /\ state' = [state EXCEPT ![s].status = "lapsed"]
  /\ Others /\ UNCHANGED <<hfidVars, handoffVars>>

\* LINE does not answer in ten seconds or refuses: the state is spent.
ExchangeFails(s) ==
  /\ state[s].status = "exchanging" /\ state' = [state EXCEPT ![s].status = "lapsed"]
  /\ Others /\ UNCHANGED <<hfidVars, handoffVars>>

\* The rest of line_callback, by the kind of the hint.
Continue(s) ==
  /\ state[s].status = "exchanging" /\ state' = [state EXCEPT ![s].status = "over"]
  /\ UNCHANGED directoryVars
  /\ CASE state[s].kind = "oidc" ->
            ContinueOidc(state[s].on, state[s].who) /\ UNCHANGED <<handoffVars, stationVars>>
       [] state[s].kind = "handoff" ->
            /\ \E sameNetwork \in BOOLEAN : ResolveTicket(state[s].on, state[s].who, sameNetwork)
            /\ UNCHANGED stationVars
       [] state[s].kind = "elevate" ->
            ContinueElevate(state[s].on, state[s].who) /\ UNCHANGED <<hfidVars, handoffVars>>

LineNext ==
  \/ \E l \in DOMAIN login : LoginDirectly(l) \/ \E b \in Browsers : LoginByHandoff(b, l)
  \/ \E e \in DOMAIN elevate : LoginForKiosk(e)
  \/ \E s \in DOMAIN state :
       \/ \E p \in People : Callback(s, p)
       \/ StateLapses(s) \/ ExchangeFails(s) \/ Continue(s)

Next ==
  \/ LineNext
  \/ PollNext /\ Others /\ UNCHANGED state
  \/ HfIdNext /\ Others /\ UNCHANGED <<handoffVars, state>>
  \/ StationNext /\ UNCHANGED <<directoryVars, hfidVars, handoffVars, state>>
  \/ (\E p \in People : AdminChanges(p)) /\ UNCHANGED <<hfidVars, handoffVars, stationVars, state>>

Spec == Init /\ [][Next]_vars

\* A parked poll wakes from its sleep until it is through.
FairSpec ==
  /\ Spec
  /\ \A q \in Polls :
       WF_vars((Collect(q) \/ WaitTimesOut(q)) /\ Others /\ UNCHANGED state)

-----------------------------------------------------------------------------
(* Properties. *)

\* The slots for parked polls are in use by parked polls, and by no other:
\* errors, timeouts and lost connections included.  (With it: the types.)
SlotsAreCounted ==
  /\ HfIdTypeOK /\ HandoffTypeOK
  /\ waiters = Cardinality({q \in Polls : Parked(q)})
  /\ Cardinality({h \in DOMAIN handoff : Live(h)}) <= MaxTickets

HandoffOf(h) ==
  IF h \notin DOMAIN handoff THEN "unused"
  ELSE CASE handoff[h].status = "pending"  -> "pending"
         [] handoff[h].status = "resolved" -> handoff[h].who
         [] OTHER                          -> "gone"

ElevateOf(e) ==
  IF e \notin DOMAIN elevate THEN "unused"
  ELSE CASE elevate[e].status = "pending"    -> "pending"
         [] elevate[e].status = "authorized" -> elevate[e].who
         [] elevate[e].status = "denied"     -> NoBody
         [] OTHER                            -> "gone"

CodeOf(c) ==
  IF c \notin DOMAIN code THEN "unused"
  ELSE IF code[c].status = "issued" THEN code[c].who ELSE "gone"

\* How often an answer was handed over.
HandedOver(f, i, answer) ==
  IF i \in DOMAIN f THEN Cardinality({n \in DOMAIN f[i] : f[i][n] = answer}) ELSE 0
TokensOf(c, p) == Cardinality({t \in DOMAIN token : token[t].code = c /\ token[t].who = p})

HandoffTickets == INSTANCE OneTimeTicket WITH
  Tickets <- Ids, Answers <- People,
  Unused <- "unused", Pending <- "pending", Gone <- "gone",
  ticket <- [h \in Ids |-> HandoffOf(h)],
  handed <- [h \in Ids |-> [p \in People |-> HandedOver(given, h, p)]]

ElevateTickets == INSTANCE OneTimeTicket WITH
  Tickets <- Ids, Answers <- People \cup {NoBody},
  Unused <- "unused", Pending <- "pending", Gone <- "gone",
  ticket <- [e \in Ids |-> ElevateOf(e)],
  handed <- [e \in Ids |-> [p \in People \cup {NoBody} |-> HandedOver(asserted, e, p)]]

CodeTickets == INSTANCE OneTimeTicket WITH
  Tickets <- Ids, Answers <- People,
  Unused <- "unused", Pending <- "pending", Gone <- "gone",
  ticket <- [c \in Ids |-> CodeOf(c)],
  handed <- [c \in Ids |-> [p \in People |-> TokensOf(c, p)]]

\* Hand-off tickets, elevate tickets and authorization codes are one-time
\* tickets: one answer, handed over once, whatever callbacks, polls, requests
\* and expiries interleave.
TicketsAreOneTime == HandoffTickets!Spec /\ ElevateTickets!Spec /\ CodeTickets!Spec

\* Who came back from LINE for a login, directly or through a hand-off.
CameBackFor(l) ==
  {state[s].who : s \in {i \in DOMAIN state : /\ state[i].status = "over"
     /\ \/ state[i].kind = "oidc" /\ state[i].on = l
        \/ state[i].kind = "handoff" /\ handoff[state[i].on].login = l}}

\* However often a login is loaded, completed in several browsers or polled
\* for, it ends in one session at most, of a person who came back from LINE
\* for it; and one tap of a card in one sign-in at most.
OneSessionPerSignIn ==
  /\ \A t, u \in DOMAIN token :
       t # u => code[token[t].code].login # code[token[u].code].login
  /\ \A t \in DOMAIN token : token[t].who \in CameBackFor(code[token[t].code].login)
  /\ \A i, j \in DOMAIN signedIn : i # j => signedIn[i].tap # signedIn[j].tap

\* A completed sign-in that a poll waits for does not stay in the store: it is
\* handed over, unless it expires first.
ResolvedIsCollected ==
  \A h \in Ids :
    (HandoffOf(h) \in People /\ \E q \in Polls : poll[q] = h) ~> HandoffOf(h) = "gone"

=============================================================================
