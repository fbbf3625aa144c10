---------------------------------- MODULE HfId ----------------------------------
(***************************************************************************)
(* HF ID, the OpenID Connect provider: the login tickets, authorization    *)
(* codes and access tokens of app/services/oidc_service.py and the         *)
(* endpoints of app/api/oidc.py.  One event loop runs every handler, and   *)
(* none of these awaits anything, so a handler is one step.  A record that *)
(* has expired is gone whether it has been pruned or not; the time to live *)
(* runs out at a moment of its own (the Lapses actions).                   *)
(***************************************************************************)
EXTENDS Directory, Sequences

VARIABLES
  login, \* _login_tickets, in the order they were made: "open", "used", "lapsed"
  code,  \* _authorization_codes, in that order
  token  \* the answers of /token: an ID token and an access token

hfidVars == <<login, code, token>>

HfIdInit == login = <<>> /\ code = <<>> /\ token = <<>>

\* /authorize: a request that does not name the registered client, redirect
\* URI, response type and scope is refused and leaves nothing behind.
Authorize ==
  /\ Len(login) < budget.logins
  /\ login' = Append(login, "open") /\ UNCHANGED <<code, token>>

ConsumeLoginTicket(l) == [login EXCEPT ![l] = IF @ = "open" THEN "used" ELSE @]

IssueCode(l, p) ==
  Append(code, [status |-> "issued", login |-> l, who |-> p, apps |-> staff[p].apps])

\* Mutant: the ticket is looked up and left in the store.
ContinueOidcAgain(l, p) ==
  /\ UNCHANGED <<login, token>>
  /\ code' = IF login[l] = "open" /\ Admitted(p) THEN IssueCode(l, p) ELSE code

\* continue_oidc_after_line: the login ticket is taken first, whatever the
\* employee's standing turns out to be.  A stranger is sent to the onboarding
\* page, a waiting or disabled employee is refused.
ContinueOidc(l, p) ==
  /\ login' = ConsumeLoginTicket(l) /\ UNCHANGED token
  /\ code' = IF login[l] = "open" /\ Admitted(p) THEN IssueCode(l, p) ELSE code

\* The database fails after the login ticket was taken.
ContinueOidcFails(l) == login' = ConsumeLoginTicket(l) /\ UNCHANGED <<code, token>>

\* The tokens name the person and the grants of the code.
Claims(c) == [code |-> c, who |-> code[c].who, apps |-> code[c].apps]

\* /token, of an authenticated client.  The code is used up before the redirect
\* URI and the verifier are compared with it: a request that is not sound
\* burns the code.
RedeemCode(c, sound) ==
  /\ code[c].status = "issued" /\ Len(token) < budget.tokens
  /\ code' = [code EXCEPT ![c].status = "used"]
  /\ token' = IF sound THEN Append(token, Claims(c)) ELSE token
  /\ UNCHANGED login

LoginLapses(l) ==
  login[l] = "open" /\ login' = [login EXCEPT ![l] = "lapsed"] /\ UNCHANGED <<code, token>>
CodeLapses(c) ==
  code[c].status = "issued" /\ code' = [code EXCEPT ![c].status = "lapsed"] /\ UNCHANGED <<login, token>>

HfIdNext ==
  \/ Authorize
  \/ \E l \in DOMAIN login : LoginLapses(l)
  \/ \E c \in DOMAIN code : CodeLapses(c) \/ \E sound \in BOOLEAN : RedeemCode(c, sound)

HfIdTypeOK ==
  /\ login \in Seq({"open", "used", "lapsed"})
  /\ code \in Seq([status : {"issued", "used", "lapsed"}, login : Nat, who : People, apps : SUBSET Apps])
  /\ token \in Seq([code : Nat, who : People, apps : SUBSET Apps])

=============================================================================
