-------------------------------- MODULE RoleMenu --------------------------------
(***************************************************************************)
(* The LINE menus of the employees: app/services/staff_oa_provision.py with*)
(* the menus of staff_oa_menu.py and the calls of staff_oa_service.py.  A  *)
(* change of grants, a link and an approval start a task on a thread of    *)
(* its own; the hourly job goes through all linked active employees on     *)
(* another.  A task reads the employee once and then talks to LINE.        *)
(***************************************************************************)
EXTENDS Employees

CONSTANTS
  Workers,   \* threads for background tasks; a bound on tasks at once
  MaxApps,   \* apps whose buttons fit into a menu
  NoMenu, Idle

VARIABLES
  task,    \* by thread: what it is about to do
  sweep,   \* employees the hourly job has yet to come to
  channel, \* the menus of the channel, in the order they were made
  menu,    \* by account: the menu linked to it
  faults   \* calls to LINE that failed so far

menuVars == <<task, sweep, channel, menu, faults>>

\* The hourly job's own thread.
Sweeper == "sweeper"
Threads == Workers \cup {Sweeper}

RoleMenuInit ==
  /\ task = [t \in Threads |-> Idle] /\ sweep = {}
  /\ channel = <<>> /\ menu = [a \in Accounts |-> NoMenu] /\ faults = 0

\* menu_key and the fall-back to the base menu, which everybody's has buttons.
Variant(apps) == IF Cardinality(apps) > MaxApps THEN {} ELSE apps

Working(t, step, account, variant, id) ==
  [step |-> step, account |-> account, variant |-> variant, id |-> id, badge |-> NoRow]
Goes(t, next) == task' = [task EXCEPT ![t] = next]

\* The channel is configured; without it a task and the hourly job do nothing.
Enabled == "hub" \in budget.kinds

\* BackgroundTasks.add_task.  The threads are alike.
Provisions(b) ==
  IF ~Enabled THEN UNCHANGED menuVars
  ELSE LET free == {t \in Workers : task[t] = Idle}
           t == CHOOSE w \in free : TRUE
       IN
    /\ free # {}
    /\ Goes(t, [Working(t, "read", NoAccount, {}, 0) EXCEPT !.badge = b])
    /\ UNCHANGED <<sweep, channel, menu, faults>>

\* The one read: employee and grants of this moment.
ReadEmployee(t) ==
  LET b == task[t].badge
  IN /\ task[t] # Idle /\ task[t].step = "read"
     /\ Goes(t, IF ~Is(b) THEN Idle
                ELSE IF emp[b].account = NoAccount THEN Idle
                ELSE IF emp[b].active THEN Working(t, "list", emp[b].account, Variant(GrantsOf(b)), 0)
                ELSE Working(t, "unlink", emp[b].account, {}, 0))
     /\ UNCHANGED <<sweep, channel, menu, faults>>

UnlinkMenu(t) ==
  /\ task[t] # Idle /\ task[t].step = "unlink"
  /\ menu' = [menu EXCEPT ![task[t].account] = NoMenu] /\ Goes(t, Idle)
  /\ UNCHANGED <<sweep, channel, faults>>

Deployed(variant) == {i \in DOMAIN channel : channel[i].variant = variant /\ channel[i].there}

\* _ensure_variant_menu: a menu of the same name is taken, with or without image.
EnsureMenu(t) ==
  LET variant == task[t].variant
  IN /\ task[t] # Idle /\ task[t].step = "list"
     /\ IF Deployed(variant) # {}
        THEN /\ \E i \in Deployed(variant) : Goes(t, [task[t] EXCEPT !.step = "link", !.id = i])
             /\ UNCHANGED channel
        ELSE /\ channel' = Append(channel, [variant |-> variant, image |-> FALSE, there |-> TRUE])
             /\ Goes(t, [task[t] EXCEPT !.step = "upload", !.id = Len(channel')])
     /\ UNCHANGED <<sweep, menu, faults>>

UploadImage(t) ==
  /\ task[t] # Idle /\ task[t].step = "upload"
  /\ channel' = [channel EXCEPT ![task[t].id].image = TRUE]
  /\ Goes(t, [task[t] EXCEPT !.step = "link"])
  /\ UNCHANGED <<sweep, menu, faults>>

RemoveMenu(t) ==
  /\ task[t] # Idle /\ task[t].step = "remove"
  /\ channel' = [channel EXCEPT ![task[t].id].there = FALSE]
  /\ Goes(t, Idle) /\ UNCHANGED <<sweep, menu, faults>>

\* LINE does not link a menu without an image, or one that is gone.
LinkMenu(t) ==
  LET i == task[t].id
  IN /\ task[t] # Idle /\ task[t].step = "link"
     /\ menu' = IF channel[i].image /\ channel[i].there
                THEN [menu EXCEPT ![task[t].account] = i] ELSE menu
     /\ Goes(t, Idle) /\ UNCHANGED <<sweep, channel, faults>>

\* A call fails: the task is over, but for an upload, after which the menu is
\* to be removed.  When that fails too, the menu stays without an image.
CallFails(t) ==
  /\ task[t] # Idle /\ task[t].step # "read"
  /\ faults < budget.faults /\ faults' = faults + 1
  /\ Goes(t, IF task[t].step = "upload" THEN [task[t] EXCEPT !.step = "remove"] ELSE Idle)
  /\ UNCHANGED <<sweep, channel, menu>>

LinkedActive == {b \in Badges : Is(b) /\ emp[b].active /\ emp[b].account # NoAccount}

\* Mutant: the hourly job looks at employees without a menu only.
ReconcileMissing ==
  /\ Enabled /\ task[Sweeper] = Idle /\ sweep = {}
  /\ sweep' = {b \in LinkedActive : menu[emp[b].account] = NoMenu} /\ sweep' # {}
  /\ UNCHANGED <<task, channel, menu, faults>>

\* reconcile_all, every hour and never twice at once.
ReconcileAll ==
  /\ Enabled /\ task[Sweeper] = Idle /\ sweep = {} /\ LinkedActive # {}
  /\ sweep' = LinkedActive /\ UNCHANGED <<task, channel, menu, faults>>

SweepNext(b) ==
  /\ task[Sweeper] = Idle /\ b \in sweep /\ sweep' = sweep \ {b}
  /\ Goes(Sweeper, [Working(Sweeper, "read", NoAccount, {}, 0) EXCEPT !.badge = b])
  /\ UNCHANGED <<channel, menu, faults>>

TaskStep(t) ==
  \/ ReadEmployee(t) \/ UnlinkMenu(t) \/ EnsureMenu(t) \/ UploadImage(t) \/ RemoveMenu(t) \/ LinkMenu(t)

\* Somebody adds the channel as a friend: only menus that are there are linked,
\* the last one listed, and all on the event loop.
FollowHub(a) ==
  Enabled /\ \E b \in {c \in LinkedActive : emp[c].account = a} :
       /\ LET ids == Deployed(GrantsOf(b))
          IN menu' = IF \E i \in ids : channel[i].image /\ \A j \in ids : j <= i
                     THEN [menu EXCEPT ![a] = CHOOSE i \in ids : \A j \in ids : j <= i] ELSE menu
       /\ UNCHANGED <<task, sweep, channel, faults>>

=============================================================================
