------------------------------ MODULE AttemptLimit ------------------------------
(***************************************************************************)
(* How often a LINE account may try: the failed linking codes counted by   *)
(* app/api/line_auth.py, with a lock-out, and the applications counted by  *)
(* app/api/public_onboarding.py.  An account stands for its pair with an   *)
(* address.  The clock is that of the server, in arbitrary units.          *)
(***************************************************************************)
EXTENDS Integers, Sequences, FiniteSets

CONSTANTS
  Accounts,
  Window,     \* the sliding window (60 s)
  PerWindow,  \* tries in it (5)
  Retention,  \* how long failures are remembered (300 s)
  LockAfter,  \* remembered failures that lock the account out (20)
  LockFor     \* for how long (300 s)

ASSUME LimitAssumption ==
  /\ {Window, PerWindow, Retention, LockAfter, LockFor} \subseteq Nat \ {0}
  /\ Window <= Retention

VARIABLES
  now,
  failed,      \* _link_attempts: by account, the failures remembered
  lockedUntil, \* _link_lockouts; zero: none
  applied,     \* _submit_attempts
  failures,    \* by account, every failure since it last succeeded
  applications \* and every application

limitVars == <<now, failed, lockedUntil, applied, failures, applications>>

NoTries == [a \in Accounts |-> {}]

LimitInit ==
  /\ now = 1
  /\ failed = NoTries /\ applied = NoTries
  /\ lockedUntil = [a \in Accounts |-> 0]
  /\ failures = NoTries /\ applications = NoTries

\* An attempt is told from another of the same moment by how many came before.
Attempt(history) == [nth |-> Cardinality(history), at |-> now]

Within(list, length) == {f \in list : f.at > now - length}

\* Mutant: one more.
MayTryOneMore(list) == Cardinality(Within(list, Window)) <= PerWindow

MayTry(list) == Cardinality(Within(list, Window)) < PerWindow

\* A list with one more attempt, without those out of retention.
Longer(list, history) == Within(list \cup {Attempt(history)}, Retention)

\* _enforce_link_rate_limit
MayGuess(a) == now >= lockedUntil[a] /\ MayTry(Within(failed[a], Retention))

\* _record_link_failure
RecordFailure(a) ==
  /\ failed' = [failed EXCEPT ![a] = Longer(failed[a], failures[a])]
  /\ lockedUntil' = IF Cardinality(failed'[a]) >= LockAfter
                    THEN [lockedUntil EXCEPT ![a] = now + LockFor] ELSE lockedUntil
  /\ failures' = [failures EXCEPT ![a] = failures[a] \cup {Attempt(failures[a])}]
  /\ UNCHANGED <<now, applied, applications>>

\* _clear_link_failures
ForgetFailures(a) ==
  /\ failed' = [failed EXCEPT ![a] = {}] /\ lockedUntil' = [lockedUntil EXCEPT ![a] = 0]
  /\ failures' = [failures EXCEPT ![a] = {}]
  /\ UNCHANGED <<now, applied, applications>>

\* _enforce_submit_rate_limit counts every application that gets past it.
CountApplication(a) ==
  /\ MayTry(Within(applied[a], Retention))
  /\ applied' = [applied EXCEPT ![a] = Longer(applied[a], applications[a])]
  /\ applications' = [applications EXCEPT ![a] = applications[a] \cup {Attempt(applications[a])}]
  /\ UNCHANGED <<now, failed, lockedUntil, failures>>

ClockAdvances ==
  now' = now + 1 /\ UNCHANGED <<failed, lockedUntil, applied, failures, applications>>

\* The attempts of one window, and those that f was counted with.
During(history, from) == {f \in history : from <= f.at /\ f.at < from + Window}
CountedWith(history, f) ==
  {g \in history : g.nth <= f.nth /\ f.at - Retention < g.at /\ g.at <= f.at}

=============================================================================
