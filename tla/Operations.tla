------------------------------- MODULE Operations -------------------------------
(***************************************************************************)
(* Releases, and the administrators of the application they start: what    *)
(* the process knows about administrators goes with it.                    *)
(***************************************************************************)
EXTENDS Deployment, AdminAccess

CONSTANT Plans  \* bounds; each behaviour has one

VARIABLES
  plan,   \* [runs, faults, byHand, ticks, edits, outages, logins]
  edits, outages, logins

bounds == <<plan, edits, outages, logins>>
vars == <<deployVars, accessVars, bounds>>

Init == DeployInit /\ AccessInit /\ plan \in Plans /\ edits = 0 /\ outages = 0 /\ logins = 0

Releases ==
  /\ UNCHANGED bounds
  /\ \/ Deploy /\ release' <= plan.runs
     \/ \E p \in Procs : LockTimesOut(p) \/ ProcStep(p) \/ MigrationFails(p)
     \/ \E p \in Procs : (Start(p) \/ Crash(p)) /\ faults' <= plan.faults /\ byHand' <= plan.byHand
     \/ \E r \in Runs : Damage(r) /\ faults' <= plan.faults
     \/ \E r \in Runs : Probe(r)
     \/ JobStep
     \/ JobFails /\ faults' <= plan.faults
  /\ IF AppServes /\ ~AppServes' THEN Forget ELSE UNCHANGED accessVars

Counts(n, limit) == n < limit /\ n' = n + 1

\* Where the list is never edited, nobody asks for it.
Directory ==
  /\ UNCHANGED plan /\ plan.edits > 0
  /\ \/ (\E e \in Emails : Identify(e)) /\ UNCHANGED <<edits, outages, logins>>
     \/ (DirectoryAnswers \/ Learn \/ AskAgain) /\ UNCHANGED <<edits, outages, logins>>
     \/ DirectoryFails /\ Counts(outages, plan.outages) /\ UNCHANGED <<edits, logins>>
     \/ \E M \in SUBSET Emails : EditManagers(M) /\ Counts(edits, plan.edits) /\ UNCHANGED <<outages, logins>>

Passcode ==
  /\ UNCHANGED <<plan, edits, outages>>
  /\ \/ \E a \in Addresses : LoginRefused(a) /\ failures' # failures /\ UNCHANGED logins
     \/ \E a \in Addresses : LoginFails(a) /\ Counts(logins, plan.logins)
     \/ \E a \in Addresses, t \in Tokens : Login(a, t) /\ Counts(logins, plan.logins)
     \/ (\E t \in Tokens : Present(t) \/ Logout(t)) /\ UNCHANGED logins
     \/ Validate /\ UNCHANGED logins
     \/ clock < plan.ticks /\ TimePasses /\ UNCHANGED logins

Access == AppServes /\ (Directory \/ Passcode) /\ UNCHANGED deployVars

Next == Releases \/ Access

Spec == Init /\ [][Next]_vars

AppStep(A) == A /\ UNCHANGED bounds /\ IF AppServes /\ ~AppServes' THEN Forget ELSE UNCHANGED accessVars
Asking(A) == AppServes /\ A /\ UNCHANGED <<deployVars, bounds>>

\* Docker restarts the application, processes run, the thread goes round.
FairSpec ==
  /\ Spec
  /\ WF_vars(AppStep(Start("app"))) /\ \A p \in Procs : WF_vars(AppStep(ProcStep(p)))
  /\ WF_vars(Asking(DirectoryAnswers)) /\ WF_vars(Asking(Learn)) /\ WF_vars(Asking(AskAgain))

-----------------------------------------------------------------------------
(* Properties. *)

InGate(p) == proc[p].at \in {"look", "copy", "rename", "migrate", "stamp"}

\* A release that changed the schema has a restore point that shows it as it was
\* before the first change, through crashes, repeated starts, a second migration
\* by hand and releases of the same commit; two processes are never in the gate.
\* A run the workflow saw ready has one too, and has its menus reconciled.
ReleasesAreBackedUp ==
  /\ \A r \in Runs : before[r] # None => snaps[r] # None /\ snaps[r].schema = before[r]
  /\ \A p \in Procs : InGate(p) => lock = p
  /\ \A r \in green : snaps[r] # None /\ r \in synced

\* The application of the last release comes up for good, however often it and
\* a migration by hand crash on the way - unless a migration stays half-done, the
\* release is older than the schema, or its snapshot is damaged.
ReleaseComesUp ==
  \A r \in Runs :
    LET Clear == release = r /\ db.rev <= Latest[Commit[r]] /\ ~db.part
                 /\ (snaps[r] # None => snaps[r].whole)
    IN <>[](release = r) => \/ <>[]AppServes \/ []<>~Clear

\* A manager taken off a list that keeps naming somebody is not admitted any
\* more once the directory has been asked, and one put on it is, through
\* outages of the directory; the protected one always is.
ManagersAreFollowed ==
  \A M \in SUBSET Emails \ {{}} :
    <>[](managers = M /\ AppServes /\ refresher.at # "off")
      => <>[](\A e \in Emails : Admits(e) <=> e \in M \cup {Protected})

\* No address fails more often than the threshold within a window without a
\* success, however its list is pruned and however long it goes on.
LoginsAreLimited ==
  \A a \in Addresses, t \in 0 .. clock :
    Cardinality({f \in tries[a] : t <= f.at /\ f.at <= t + Window}) <= Threshold

=============================================================================
