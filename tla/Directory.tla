------------------------------- MODULE Directory -------------------------------
(***************************************************************************)
(* The employees as the sign-in sees them: whether a LINE account belongs  *)
(* to one, whether that one is admitted, and the apps granted to it.  Every*)
(* sign-in reads this anew, so an administrator may change it between any  *)
(* two steps.                                                              *)
(***************************************************************************)
EXTENDS Naturals

CONSTANTS
  People,    \* LINE accounts; an employee is named by its account
  Apps,      \* the app ids of the grants
  FirstStaff, \* what the directory may hold at first
  Budgets     \* bounds: how often things happen; each behaviour has one of them

\* "stranger": no employee has this LINE account.  "waiting": approval is
\* pending.  The code treats a pending and a disabled employee alike.
Standings == {"stranger", "waiting", "active"}
Entries == [standing : Standings, apps : SUBSET Apps]

ASSUME DirectoryAssumption == 
  /\ FirstStaff \subseteq [People -> Entries]
  /\ \A b \in Budgets : \A f \in {"changes", "logins", "handoffs", "polls", "tokens", "states",
       "taps", "claims", "elevates"} : b[f] \in Nat

VARIABLES
  budget, \* the bounds of this behaviour
  staff,  \* by LINE account: its standing and its grants
  changes \* changes made so far

directoryVars == <<budget, staff, changes>>

DirectoryInit ==
  /\ budget \in Budgets
  /\ staff \in FirstStaff
  /\ changes = 0

Known(p) == staff[p].standing # "stranger"
Admitted(p) == staff[p].standing = "active"

\* Linking, approval, deactivation; a change of the grants.
AdminChanges(p) ==
  /\ changes < budget.changes /\ changes' = changes + 1 /\ UNCHANGED budget
  /\ \/ \E standing \in Standings \ {staff[p].standing} :
          staff' = [staff EXCEPT ![p].standing = standing]
     \/ \E apps \in SUBSET Apps \ {staff[p].apps} : staff' = [staff EXCEPT ![p].apps = apps]

=============================================================================
