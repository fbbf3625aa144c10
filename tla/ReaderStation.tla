------------------------------ MODULE ReaderStation -----------------------------
(***************************************************************************)
(* Card readers and kiosks, app/api/reader.py: a tap waits at its reader   *)
(* for a claim of an app's kiosk or for a self-login page; an elevate      *)
(* ticket waits for somebody to sign in to LINE with the kiosk's QR code.  *)
(* One event loop, one lock: a handler, and a long poll from one sleep to  *)
(* the next, is one step.                                                  *)
(***************************************************************************)
EXTENDS Directory, Sequences

CONSTANTS
  Readers,
  StationPolls, \* long polls of /wait, /self-login/wait, /elevate/wait
  NoBody, NoTap, NotWaiting

ASSUME StationAssumption == "elevate" \notin Apps

VARIABLES
  tap,      \* _pending_taps, by reader
  taps,     \* cards read so far
  claim,    \* _claims and _self_login_tickets, in the order they were made
  elevate,  \* _elevate_tickets, in the order they were made
  watch,    \* by long poll: what it waits for
  signedIn, \* the sign-ins by card so far
  asserted  \* by elevate ticket: the answers given to the kiosk

stationVars == <<tap, taps, claim, elevate, watch, signedIn, asserted>>

\* Long polls are all alike.
Free(q) == q = CHOOSE w \in StationPolls : watch[w] = NotWaiting

StationInit ==
  /\ tap = [r \in Readers |-> NoTap] /\ taps = 0
  /\ claim = <<>> /\ elevate = <<>> /\ asserted = <<>> /\ signedIn = <<>>
  /\ watch = [q \in StationPolls |-> NotWaiting]

\* /scan: a later tap takes the place of one that nobody has fetched.
ScanCard(r, p) ==
  /\ taps < budget.taps /\ taps' = taps + 1
  /\ Admitted(p)
  /\ tap' = [tap EXCEPT ![r] = [id |-> taps', who |-> p, apps |-> staff[p].apps]]
  /\ UNCHANGED <<claim, elevate, watch, signedIn, asserted>>

TapLapses(r) ==
  /\ tap[r] # NoTap /\ tap' = [tap EXCEPT ![r] = NoTap]
  /\ UNCHANGED <<taps, claim, elevate, watch, signedIn, asserted>>

\* /claim names an app, /self-login/start does not.
MakeClaim(r, kind) ==
  /\ Len(claim) < budget.claims
  /\ claim' = Append(claim, [reader |-> r, kind |-> kind, live |-> TRUE])
  /\ UNCHANGED <<tap, taps, elevate, watch, signedIn, asserted>>

ClaimLapses(k) ==
  /\ claim[k].live /\ claim' = [claim EXCEPT ![k].live = FALSE]
  /\ UNCHANGED <<tap, taps, elevate, watch, signedIn, asserted>>

\* The claim is looked up once, when the poll begins.
WatchReader(q, k) ==
  /\ watch[q] = NotWaiting /\ Free(q) /\ claim[k].live
  /\ watch' = [watch EXCEPT ![q] = [kind |-> claim[k].kind, on |-> claim[k].reader]]
  /\ UNCHANGED <<tap, taps, claim, elevate, signedIn, asserted>>

\* A kiosk goes by the grants of the moment of the tap.  A self-login reads the
\* employee again.
Granted(kind, t) == IF kind = "self" THEN Admitted(t.who) ELSE kind \in t.apps

\* consume_pending_tap, then an assertion, a session or a refusal.
FetchTap(q) ==
  /\ watch[q] # NotWaiting /\ watch[q].kind # "elevate" /\ tap[watch[q].on] # NoTap
  /\ LET t == tap[watch[q].on]
     IN signedIn' = IF Granted(watch[q].kind, t)
                    THEN Append(signedIn, [tap |-> t.id, who |-> t.who]) ELSE signedIn
  /\ tap' = [tap EXCEPT ![watch[q].on] = NoTap]
  /\ watch' = [watch EXCEPT ![q] = NotWaiting]
  /\ UNCHANGED <<taps, claim, elevate, asserted>>

-----------------------------------------------------------------------------
(* Elevation by LINE. *)

StartElevate(app) ==
  /\ Len(elevate) < budget.elevates
  /\ elevate' = Append(elevate, [status |-> "pending", app |-> app, who |-> NoBody])
  /\ asserted' = Append(asserted, <<>>)
  /\ UNCHANGED <<tap, taps, claim, watch, signedIn>>

ElevateLapses(e) ==
  /\ elevate[e].status \notin {"taken", "lapsed"}
  /\ elevate' = [elevate EXCEPT ![e].status = "lapsed"]
  /\ UNCHANGED <<tap, taps, claim, watch, signedIn, asserted>>

\* The condition of lookup, and of resolve_elevate_ticket.
Answerable(e) == elevate[e].status = "pending"

\* continue_elevate_after_line: strangers and employees not admitted leave the
\* ticket as it is, so that somebody else may still answer it.
ContinueElevate(e, p) ==
  /\ UNCHANGED <<tap, taps, claim, watch, signedIn, asserted>>
  /\ elevate' = IF ~Answerable(e) \/ ~Admitted(p) THEN elevate
       ELSE IF elevate[e].app \in staff[p].apps
            THEN [elevate EXCEPT ![e].status = "authorized", ![e].who = p]
            ELSE [elevate EXCEPT ![e].status = "denied"]

WatchElevate(q, e) ==
  /\ watch[q] = NotWaiting /\ Free(q) /\ elevate[e].status \notin {"taken", "lapsed"}
  /\ watch' = [watch EXCEPT ![q] = [kind |-> "elevate", on |-> e]]
  /\ UNCHANGED <<tap, taps, claim, elevate, signedIn, asserted>>

\* take_resolved_elevate_ticket and the answer to the kiosk.
FetchElevate(q) ==
  LET e == watch[q].on
  IN /\ watch[q] # NotWaiting /\ watch[q].kind = "elevate"
     /\ elevate[e].status \in {"authorized", "denied"}
     /\ elevate' = [elevate EXCEPT ![e].status = "taken"]
     /\ asserted' = [asserted EXCEPT ![e] =
          Append(@, IF elevate[e].status = "authorized" THEN elevate[e].who ELSE NoBody)]
     /\ watch' = [watch EXCEPT ![q] = NotWaiting]
     /\ UNCHANGED <<tap, taps, claim, signedIn>>

\* 204 after the slice, when there was nothing at the last look.
WatchTimesOut(q) ==
  /\ watch[q] # NotWaiting
  /\ IF watch[q].kind = "elevate"
     THEN elevate[watch[q].on].status \notin {"authorized", "denied"}
     ELSE tap[watch[q].on] = NoTap
  /\ watch' = [watch EXCEPT ![q] = NotWaiting]
  /\ UNCHANGED <<tap, taps, claim, elevate, signedIn, asserted>>

StationNext ==
  \/ \E r \in Readers :
       \/ TapLapses(r)
       \/ \E p \in People : ScanCard(r, p)
       \/ \E kind \in Apps \cup {"self"} : MakeClaim(r, kind)
  \/ \E k \in DOMAIN claim : ClaimLapses(k) \/ \E q \in StationPolls : WatchReader(q, k)
  \/ \E app \in Apps : StartElevate(app)
  \/ \E e \in DOMAIN elevate : ElevateLapses(e) \/ \E q \in StationPolls : WatchElevate(q, e)
  \/ \E q \in StationPolls : FetchTap(q) \/ FetchElevate(q) \/ WatchTimesOut(q)

=============================================================================
