------------------------------- MODULE AdminAccess -------------------------------
(***************************************************************************)
(* Who is an administrator: Cloudflare identities checked against the      *)
(* directory of managers (app/services/cf_access_service.py,               *)
(* manager_directory.py), and sessions opened with the passcode            *)
(* (app/services/admin_auth_service.py, app/api/admin_auth.py).  All of it *)
(* is memory of one process.  The handlers are steps of its event loop;    *)
(* a thread asks the directory, whose answer is the list of the moment it  *)
(* was asked.                                                              *)
(***************************************************************************)
EXTENDS Integers, FiniteSets

CONSTANTS
  Emails, Tokens, Addresses,
  Protected,   \* the first of MANAGER_ADMIN_EMAILS
  Floor,       \* CF_ADMIN_EMAILS or MANAGER_ADMIN_EMAILS
  Threshold,   \* failures that lock an address out (5)
  Window,      \* for how long they count (15 minutes)
  SessionTime, \* _session_duration (an hour)
  Unknown

ASSUME AccessAssumption ==
  /\ Protected \in Emails /\ Floor \subseteq Emails
  /\ Threshold \in Nat \ {0} /\ {Window, SessionTime} \subseteq Nat

VARIABLES
  clock,
  managers,  \* the portal's list
  snapshot,  \* _snapshot; Unknown: never obtained
  refresher, \* the thread: [at, list], list: an answer on its way
  sessions,  \* _sessions: by token, when it expires, or Unknown
  failures,  \* _failed_attempts: by address, attempts [nth, at]
  tries      \* history: by address, its failures since its last success

accessVars == <<clock, managers, snapshot, refresher, sessions, failures, tries>>

\* What a process starts with.
Forgotten ==
  [snapshot |-> Unknown, refresher |-> [at |-> "off", list |-> {}],
   sessions |-> [t \in Tokens |-> Unknown], failures |-> [a \in Addresses |-> {}]]

AccessInit ==
  /\ clock = 0 /\ managers = Emails
  /\ snapshot = Forgotten.snapshot /\ refresher = Forgotten.refresher
  /\ sessions = Forgotten.sessions /\ failures = Forgotten.failures /\ tries = Forgotten.failures

\* The process ends.
Forget ==
  /\ snapshot' = Forgotten.snapshot /\ refresher' = Forgotten.refresher
  /\ sessions' = Forgotten.sessions /\ failures' = Forgotten.failures /\ tries' = Forgotten.failures
  /\ UNCHANGED <<clock, managers>>

-----------------------------------------------------------------------------
(* Cloudflare identities. *)

\* The answer of is_admin_email.
Admits(e) == IF snapshot = Unknown THEN e \in Floor ELSE e = Protected \/ e \in snapshot

\* A request with a verified e-mail: is_admin_email starts the thread when it
\* is not running.
Identify(e) ==
  /\ refresher.at = "off" /\ refresher' = [refresher EXCEPT !.at = "asks"]
  /\ UNCHANGED <<clock, managers, snapshot, sessions, failures, tries>>

DirectoryAnswers ==
  /\ refresher.at = "asks" /\ refresher' = [at |-> "learns", list |-> managers]
  /\ UNCHANGED <<clock, managers, snapshot, sessions, failures, tries>>

\* No answer, an error, or something other than a list.
DirectoryFails ==
  /\ refresher.at = "asks" /\ refresher' = [at |-> "waits", list |-> {}]
  /\ UNCHANGED <<clock, managers, snapshot, sessions, failures, tries>>

\* Mutant: managers are added to those known.
LearnMore ==
  /\ refresher.at = "learns" /\ refresher' = [at |-> "waits", list |-> {}]
  /\ snapshot' = (IF snapshot = Unknown THEN {} ELSE snapshot) \cup refresher.list
  /\ UNCHANGED <<clock, managers, sessions, failures, tries>>

\* The rest of _refresh_once: an empty list is ignored.
Learn ==
  /\ refresher.at = "learns" /\ refresher' = [at |-> "waits", list |-> {}]
  /\ snapshot' = IF refresher.list = {} THEN snapshot ELSE refresher.list
  /\ UNCHANGED <<clock, managers, sessions, failures, tries>>

\* A minute later.
AskAgain ==
  /\ refresher.at = "waits" /\ refresher' = [refresher EXCEPT !.at = "asks"]
  /\ UNCHANGED <<clock, managers, snapshot, sessions, failures, tries>>

\* The portal's list is edited.
EditManagers(M) ==
  /\ managers' = M /\ M # managers
  /\ UNCHANGED <<clock, snapshot, refresher, sessions, failures, tries>>

-----------------------------------------------------------------------------
(* The passcode. *)

Recent(attempts) == {f \in attempts : f.at >= clock - Window}
Pruned == [a \in Addresses |-> Recent(failures[a])]
Attempt(a) == [nth |-> Cardinality(tries[a]), at |-> clock]

\* Mutant: one failure more.
LockedOutLater(a) == Cardinality(Recent(failures[a])) > Threshold

\* _check_lockout
LockedOut(a) == Cardinality(Recent(failures[a])) >= Threshold

\* A login from a locked-out address prunes the lists and is refused.
LoginRefused(a) ==
  /\ LockedOut(a) /\ failures' = Pruned
  /\ UNCHANGED <<clock, managers, snapshot, refresher, sessions, tries>>

LoginFails(a) ==
  /\ ~LockedOut(a)
  /\ failures' = [Pruned EXCEPT ![a] = @ \cup {Attempt(a)}]
  /\ tries' = [tries EXCEPT ![a] = @ \cup {Attempt(a)}]
  /\ UNCHANGED <<clock, managers, snapshot, refresher, sessions>>

\* create_session makes a token of its own.
Login(a, token) ==
  /\ ~LockedOut(a) /\ sessions[token] = Unknown
  /\ failures' = [Pruned EXCEPT ![a] = {}] /\ tries' = [tries EXCEPT ![a] = {}]
  /\ sessions' = [sessions EXCEPT ![token] = clock + SessionTime]
  /\ UNCHANGED <<clock, managers, snapshot, refresher>>

Expired(token) == sessions[token] # Unknown /\ clock > sessions[token]

\* validate_session, of every request that brings a token.
Present(token) ==
  /\ Expired(token) /\ sessions' = [sessions EXCEPT ![token] = Unknown]
  /\ UNCHANGED <<clock, managers, snapshot, refresher, failures, tries>>

\* GET /validate clears away all that expired.
Validate ==
  /\ \E t \in Tokens : Expired(t)
  /\ sessions' = [t \in Tokens |-> IF Expired(t) THEN Unknown ELSE sessions[t]]
  /\ UNCHANGED <<clock, managers, snapshot, refresher, failures, tries>>

Logout(token) ==
  /\ sessions[token] # Unknown /\ sessions' = [sessions EXCEPT ![token] = Unknown]
  /\ UNCHANGED <<clock, managers, snapshot, refresher, failures, tries>>

TimePasses ==
  /\ clock' = clock + 1
  /\ UNCHANGED <<managers, snapshot, refresher, sessions, failures, tries>>

=============================================================================
