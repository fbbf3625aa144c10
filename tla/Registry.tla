-------------------------------- MODULE Registry --------------------------------
(***************************************************************************)
(* Administrators and employees at work on the employees table, and the    *)
(* menus that follow it.                                                   *)
(***************************************************************************)
EXTENDS MenuSync

vars == <<limitVars, employeeVars, menuVars, sync>>

Init == LimitInit /\ EmployeesInit /\ RoleMenuInit /\ MenuSyncInit

Quietly == UNCHANGED <<limitVars, menuVars>>

Pages ==
  /\ Quietly
  /\ \/ \E b \in Badges, active \in BOOLEAN :
          AddEmployee(b, active) \/ UpsertEmployee(b, active) \/ UpdateEmployee(b, active)
     \/ \E b \in Badges, table \in Tables : \E key \in KeysOf(table) : AddChild(b, table, key)
     \/ \E b \in Badges, card \in Cards \cup {NoCard} : SetCard(b, card)
     \/ \E b \in Badges : CodeExpires(b) \/ UnlinkOwn(b) \/ UnlinkByAdmin(b) \/ Reject(b)
     \/ \E b \in Badges, c \in Codes : GenerateCode(b, c) \/ RegenerateCode(b, c)
     \/ \E from, to \in Badges : Merge(from, to)

\* The changes that start a task.
Triggers ==
  \E b \in Badges :
    /\ Provisions(b)
    /\ \/ UNCHANGED limitVars /\ \E apps \in SUBSET Apps : SetGrants(b, apps)
       \/ UNCHANGED limitVars /\ Approve(b, {})
       \/ \E a \in budget.who : Link(a, b)

Tries ==
  /\ UNCHANGED menuVars
  /\ \E a \in budget.who :
       \/ Apply(a)
       \/ \E b \in Badges : LinkRefused(a, b)
       \/ \E c \in Codes : GuessWrong(a, c)

Clock == now <= budget.ticks /\ ClockAdvances /\ UNCHANGED <<employeeVars, menuVars>>

Menus ==
  /\ UNCHANGED <<limitVars, emp, child, wrong>>
  /\ \/ UNCHANGED <<ops, budget>> /\
        \/ ReconcileAll \/ \E b \in Badges : SweepNext(b)
        \/ \E t \in Threads : TaskStep(t) \/ CallFails(t)
     \/ Does("follow") /\ \E a \in Accounts : FollowHub(a)

Deployment ==
  /\ UNCHANGED <<limitVars, emp, child, wrong>>
  /\ \/ Does("sync") /\ SyncStarts
     \/ UNCHANGED <<ops, budget>> /\ (SyncStep \/ SyncFails)

Next ==
  \/ (Pages \/ Triggers \/ Tries \/ Clock \/ Menus) /\ UNCHANGED sync
  \/ Deployment

Spec == Init /\ [][Next]_vars

MenuStep(A) == A /\ UNCHANGED <<limitVars, employeeVars, sync>>

\* Threads run, the hourly job comes round again, and so does the script.
FairSpec ==
  /\ Spec
  /\ \A t \in Threads : WF_vars(MenuStep(TaskStep(t)))
  /\ WF_vars(MenuStep(ReconcileAll)) /\ \A b \in Badges : WF_vars(MenuStep(SweepNext(b)))
  /\ WF_vars(SyncStep /\ UNCHANGED <<limitVars, employeeVars>>)

-----------------------------------------------------------------------------
(* Properties. *)

\* Every scan belongs to an employee, whatever is renamed, merged, rejected or
\* given again; accounts, codes and cards belong to one.
ScansKeepTheirEmployee ==
  /\ \A b \in Badges : Is(b) => emp[b] \in Rows
  /\ \A r \in child : r.table = "attendance" => Is(r.badge)
  /\ OneHolder(emp)

\* No account fails more often than the limit in any window, however long it
\* keeps trying and however its failures are pruned, and never while it is
\* locked out; nor does it apply more often.
TriesAreLimited ==
  \A a \in Accounts :
    /\ \A t \in 1 .. now :
         /\ Cardinality(During(failures[a], t)) <= PerWindow
         /\ Cardinality(During(applications[a], t)) <= PerWindow
    /\ \A f \in failures[a] :
         Cardinality(CountedWith(failures[a], f)) >= LockAfter
           => \A g \in failures[a] : g.nth > f.nth => g.at >= f.at + LockFor

Stuck == \E i \in DOMAIN channel :
  /\ channel[i].there /\ ~channel[i].image /\ (sync # NoSync => sync.id # i)
  /\ \A t \in Threads : task[t] # Idle => task[t].id # i

HasMenuOf(a, apps) ==
  menu[a] # NoMenu /\ channel[menu[a]].there /\ channel[menu[a]].variant = Variant(apps)

\* An employee whose account and grants have come to rest gets the menu of these
\* grants and keeps it, though tasks overlap with the
\* script of a deployment and calls to LINE fail - unless a
\* menu without an image is left behind.
MenusConverge ==
  \A b \in Badges, a \in Accounts, apps \in SUBSET Apps :
    LET Settled == Is(b) /\ emp[b].active /\ emp[b].account = a /\ GrantsOf(b) = apps
    IN <>[](Enabled /\ Settled /\ ~Stuck) => <>[]HasMenuOf(a, apps)

=============================================================================
