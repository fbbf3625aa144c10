-------------------------------- MODULE MCSignIn --------------------------------
(***************************************************************************)
(* Three scenes: a login of Cloudflare Access that is loaded twice and     *)
(* polled for in two tabs; a reader with a kiosk and a self-login page;    *)
(* a kiosk's QR code that two people scan.                                 *)
(***************************************************************************)
EXTENDS SignIn

CONSTANTS ann, bob, hk

\* ann may use the kiosk; bob is an employee without the grant.
MCFirstStaff ==
  {[p \in {ann, bob} |-> [standing |-> "active", apps |-> IF p = ann THEN {hk} ELSE {}]]}

Nothing == [changes |-> 0, logins |-> 0, handoffs |-> 0, polls |-> 0, tokens |-> 0,
            states |-> 0, taps |-> 0, claims |-> 0, elevates |-> 0]

MCBudgets ==
  {[Nothing EXCEPT !.changes = 1, !.logins = 1, !.handoffs = 2, !.polls = 2, !.tokens = 2, !.states = 2],
   [Nothing EXCEPT !.changes = 1, !.taps = 2, !.claims = 2],
   [Nothing EXCEPT !.changes = 1, !.elevates = 1, !.states = 2, !.taps = 1, !.claims = 1]}

=============================================================================
