-------------------------------- MODULE MenuSync --------------------------------
(***************************************************************************)
(* The reconciliation of all menus after a deployment: sync(apply=True) of *)
(* scripts/staff_oa_sync.py, run by the one-shot post-deploy container     *)
(* beside the application and its tasks.  It reads the employees and the   *)
(* menus of the channel once, makes what is missing, links everybody and   *)
(* deletes the menus of its listing it had no use for.                     *)
(***************************************************************************)
EXTENDS RoleMenu, FiniteSetsExt, TLC

CONSTANT NoSync

VARIABLE sync

MenuSyncInit == sync = NoSync

\* employee_menu_assignments, with the variants too big for a menu already on
\* the base menu.
Assignments ==
  [a \in {emp[b].account : b \in LinkedActive} |->
     Variant(GrantsOf(CHOOSE b \in LinkedActive : emp[b].account = a))]

SyncStarts ==
  /\ Enabled /\ sync = NoSync
  /\ sync' = [at |-> "list", plan |-> Assignments, listed |-> {}, ids |-> <<>>, todo |-> {}, id |-> 0]
  /\ UNCHANGED menuVars

\* get_rich_menu_list; the base menu is always among the wanted ones.
SyncLists ==
  /\ sync # NoSync /\ sync.at = "list"
  /\ sync' = [sync EXCEPT !.at = "ensure", !.listed = {i \in DOMAIN channel : channel[i].there},
                          !.todo = {sync.plan[a] : a \in DOMAIN sync.plan} \cup {{}}]
  /\ UNCHANGED menuVars

Takes(variant, id, at) ==
  sync' = [sync EXCEPT !.at = at, !.todo = @ \ {variant}, !.ids = @ @@ (variant :> id), !.id = id]

\* Of the listed menus of one name the last counts, with or without an image.
SyncEnsures ==
  /\ sync # NoSync /\ sync.at = "ensure"
  /\ \E variant \in sync.todo :
       LET same == {i \in sync.listed : channel[i].variant = variant}
       IN IF same # {} THEN Takes(variant, Max(same), "ensure") /\ UNCHANGED menuVars
          ELSE /\ channel' = Append(channel, [variant |-> variant, image |-> FALSE, there |-> TRUE])
               /\ Takes(variant, Len(channel'), "upload")
               /\ UNCHANGED <<task, sweep, menu, faults>>

SyncUploads ==
  /\ sync # NoSync /\ sync.at = "upload"
  /\ channel' = [channel EXCEPT ![sync.id].image = TRUE]
  /\ sync' = [sync EXCEPT !.at = "ensure"]
  /\ UNCHANGED <<task, sweep, menu, faults>>

Kept == {sync.ids[v] : v \in DOMAIN sync.ids}

\* bulk_link_rich_menu, a call for each variant; then the deletions.
SyncLinks ==
  /\ sync # NoSync /\ sync.at = "ensure" /\ sync.todo = {}
  /\ IF DOMAIN sync.plan = {}
     THEN sync' = [sync EXCEPT !.at = "delete", !.todo = sync.listed \ Kept] /\ UNCHANGED menuVars
     ELSE \E variant \in {sync.plan[a] : a \in DOMAIN sync.plan} :
       LET i == sync.ids[variant]
           users == {a \in DOMAIN sync.plan : sync.plan[a] = variant}
       IN /\ menu' = IF channel[i].image /\ channel[i].there
                     THEN [a \in Accounts |-> IF a \in users THEN i ELSE menu[a]] ELSE menu
          /\ sync' = [sync EXCEPT !.plan = [a \in DOMAIN @ \ users |-> @[a]]]
          /\ UNCHANGED <<task, sweep, channel, faults>>

SyncDeletes ==
  /\ sync # NoSync /\ sync.at = "delete"
  /\ IF sync.todo = {} THEN sync' = NoSync /\ UNCHANGED channel
     ELSE \E i \in sync.todo :
       /\ channel' = [channel EXCEPT ![i].there = FALSE]
       /\ sync' = [sync EXCEPT !.todo = @ \ {i}]
  /\ UNCHANGED <<task, sweep, menu, faults>>

\* A call fails: the script ends where it is.
SyncFails ==
  /\ sync # NoSync /\ sync.at # "list" /\ faults < budget.faults /\ faults' = faults + 1
  /\ sync' = NoSync /\ UNCHANGED <<task, sweep, channel, menu>>

SyncStep == SyncLists \/ SyncEnsures \/ SyncUploads \/ SyncLinks \/ SyncDeletes

=============================================================================
