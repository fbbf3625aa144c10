------------------------------- MODULE QrCheckIn -------------------------------
(***************************************************************************)
(* A QR terminal and the phones that scan it: app/api/qr_checkin.py,       *)
(* app/services/qr_service.py, app/services/location_service.py and the    *)
(* page static/js/qr-terminal.js.  A code is the time its token expires;   *)
(* times are seconds of the server's clock, and the terminal's may differ. *)
(***************************************************************************)
EXTENDS Integers, FiniteSets

CONSTANTS
  Validity,   \* of a token (60)
  GraceTime,  \* during which an expired token still counts (15)
  Lead,       \* how long before the expiry the page fetches another (2)
  Delay,      \* the longest a fetch takes that is answered
  Skew,       \* how far the terminal's clock is behind the server's
  Staff,
  Submits,    \* phones' submissions: a bound
  Tries,      \* how often one is sent: a bound
  LastSecond, \* of the model
  NoCode

ASSUME QrAssumption ==
  /\ {Validity, GraceTime, Lead, Delay, Skew, LastSecond} \subseteq Nat
  /\ Lead < Validity /\ Delay + Skew <= Lead + GraceTime
  /\ 2 * Delay < Validity + GraceTime
  /\ NoCode \notin Int

VARIABLES
  second,   \* the server's clock
  code,     \* the code on the screen
  due,      \* when the page fetches another
  pending,  \* the fetch under way: since when; NoCode: none
  failed,   \* the latest fetch failed; the page shows an error over the code
  linked,   \* employees whose account is linked and who are active
  held,     \* by submission: the code a phone has scanned
  rows      \* by submission: the rows it has made

qrVars == <<second, code, due, pending, failed, linked, held, rows>>

\* scheduleQRRefresh, by the terminal's clock but not at once.
RefreshAt(expiry, at) ==
  LET wait == expiry + Skew - Lead - at IN at + IF wait > 1 THEN wait ELSE 1

QrInit ==
  /\ second = 0 /\ code = NoCode /\ due = 0 /\ pending = NoCode /\ failed = FALSE
  /\ linked = Staff /\ held = [s \in Submits |-> NoCode] /\ rows = [s \in Submits |-> 0]

\* The timer fires, or somebody presses the button of the error failed.
Fetch ==
  /\ pending = NoCode /\ (failed \/ second = due)
  /\ pending' = second
  /\ UNCHANGED <<second, code, due, failed, linked, held, rows>>

\* get_qr_code_for_kiosk, displayQRCode: the token was made at some time since
\* the fetch began.
Show ==
  /\ pending # NoCode
  /\ \E made \in pending .. second :
       /\ code' = made + Validity /\ due' = RefreshAt(made + Validity, second)
  /\ pending' = NoCode /\ failed' = FALSE
  /\ UNCHANGED <<second, linked, held, rows>>

\* Nothing sets the timer again: the error stays until somebody retries.
FetchFails ==
  /\ pending # NoCode /\ pending' = NoCode /\ failed' = TRUE
  /\ UNCHANGED <<second, code, due, linked, held, rows>>

\* Timers fire in time, and a fetch is answered or fails in time.
SecondPasses ==
  /\ second < LastSecond /\ second' = second + 1
  /\ IF pending = NoCode THEN failed \/ second < due ELSE second < pending + Delay
  /\ UNCHANGED <<code, due, pending, failed, linked, held, rows>>

ScanCode(s) ==
  /\ code # NoCode /\ held[s] = NoCode
  /\ held' = [held EXCEPT ![s] = code]
  /\ UNCHANGED <<second, code, due, pending, failed, linked, rows>>

\* Mutant: no period of grace.
ValidToTheSecond(expiry) == second < expiry

\* validate_qr_token: one terminal's code serves everybody, any number of times.
Valid(expiry) == second <= expiry + GraceTime

\* scan_qr_code: the position is checked next and may be too far off or vague.
\* Every row has a time of its own: what is sent twice is stored twice.
Submit(s, badge) ==
  /\ held[s] # NoCode /\ Valid(held[s]) /\ rows[s] < Tries
  /\ badge \in linked
  /\ rows' = [rows EXCEPT ![s] = @ + 1]
  /\ UNCHANGED <<second, code, due, pending, failed, linked, held>>

\* Linked or unlinked, activated or not, elsewhere.
StaffChanges(badge) ==
  /\ linked' = IF badge \in linked THEN linked \ {badge} ELSE linked \cup {badge}
  /\ UNCHANGED <<second, code, due, pending, failed, held, rows>>

\* The code on the screen is good: unless the latest fetch failed, a phone that
\* scans and submits at once is not told that the code has expired, however slow
\* the fetch of the next one and however late the terminal's clock.
ShownIsAccepted == code # NoCode /\ ~failed => Valid(code)

=============================================================================
