------------------------------- MODULE Employees -------------------------------
(***************************************************************************)
(* The employees table and the rows that hang on a badge: linking codes    *)
(* (app/api/admin_line_codes.py, the linking half of app/api/line_auth.py),*)
(* self-onboarding (app/api/public_onboarding.py, admin_onboarding.py,     *)
(* app/services/badge_service.py), grants, cards and the merge             *)
(* (app/api/admin_employees.py), and the employee pages                    *)
(* (app/api/consolidated_employees.py).                                    *)
(*                                                                         *)
(* The handlers are coroutines of one event loop that await nothing between*)
(* reading and committing: a handler is one step.  Sessions do not flush   *)
(* before a query (app/core/database.py), and SQLite does not enforce the  *)
(* declared foreign keys.                                                  *)
(***************************************************************************)
EXTENDS AttemptLimit

CONSTANTS
  DeviceBadges, \* badges of a reader, or typed in
  QBadges,      \* the badges given to applicants, in order
  Codes, Cards, Apps, Dates,
  BurnAfter,    \* wrong tries of one code that take it from its holder (5)
  NoAccount, NoCode, NoCard, NoRow,
  Budgets       \* bounds: what may happen and how often; each behaviour has one

Badges == DeviceBadges \cup {QBadges[i] : i \in DOMAIN QBadges}

\* Schedules and shift assignments go with their employee, the relationship
\* cascades; leave days and grants have none.  "request" stands for the rows of
\* staff_leave_requests and staff_leave_days, which the merge does not know.
Tables == {"attendance", "schedule", "leave", "grant", "request"}
KeysOf(table) == IF table = "grant" THEN Apps ELSE Dates

Rows == [active : BOOLEAN, pending : BOOLEAN, self : BOOLEAN, account : Accounts \cup {NoAccount},
         code : Codes \cup {NoCode}, fresh : BOOLEAN, card : Cards \cup {NoCard}]

VARIABLES
  emp,    \* employees, by badge: the row or NoRow
  child,  \* the rows of the other tables: [table, badge, key]
  wrong,  \* _link_code_failures: by code, the failures counted
  ops,    \* operations so far
  budget  \* the bounds of this behaviour

employeeVars == <<emp, child, wrong, ops, budget>>

\* line_user_id, line_linking_code and nfc_card_uid are UNIQUE columns.
OneHolder(staff) ==
  \A b, other \in Badges : b # other /\ NoRow \notin {staff[b], staff[other]} =>
    /\ staff[b].account = staff[other].account => staff[b].account = NoAccount
    /\ staff[b].code = staff[other].code => staff[b].code = NoCode
    /\ staff[b].card = staff[other].card => staff[b].card = NoCard

ASSUME EmployeesAssumption ==
  /\ NoRow \notin Rows
  /\ \A b \in Budgets :
       /\ {b.ops, b.ticks, b.faults} \subseteq Nat /\ b.kinds \subseteq STRING /\ b.who \subseteq Accounts
       /\ b.staff \in [Badges -> Rows \cup {NoRow}] /\ OneHolder(b.staff)

Is(b) == emp[b] # NoRow
Blank == [active |-> TRUE, pending |-> FALSE, self |-> FALSE, account |-> NoAccount,
          code |-> NoCode, fresh |-> FALSE, card |-> NoCard]

EmployeesInit ==
  /\ budget \in Budgets /\ ops = 0
  /\ emp = budget.staff
  /\ child = {} /\ wrong = [c \in Codes |-> 0]

Does(kind) == kind \in budget.kinds /\ ops < budget.ops /\ ops' = ops + 1 /\ UNCHANGED budget

Put(b, row) == emp' = [emp EXCEPT ![b] = row]
HasAccount(a) == \E b \in Badges : Is(b) /\ emp[b].account = a
ChildrenOf(b) == {r \in child : r.badge = b}

-----------------------------------------------------------------------------
(* The employee pages. *)

\* POST /: a badge that exists is refused.
AddEmployee(b, active) ==
  /\ Does("create") /\ b \in DeviceBadges /\ ~Is(b)
  /\ Put(b, [Blank EXCEPT !.active = active]) /\ UNCHANGED <<child, wrong>>

\* PUT nickname, status and hidden create the row of a badge that only the
\* reader knows; status sets whether it is active.
UpsertEmployee(b, active) ==
  /\ Does("create") /\ (b \in DeviceBadges \/ Is(b))
  /\ Put(b, [(IF Is(b) THEN emp[b] ELSE Blank) EXCEPT !.active = active])
  /\ UNCHANGED <<child, wrong>>

\* PUT, DELETE: the row stays, and so does what it is waiting for.
UpdateEmployee(b, active) ==
  /\ Does("active") /\ Is(b)
  /\ Put(b, [emp[b] EXCEPT !.active = active]) /\ UNCHANGED <<child, wrong>>

\* A scan, a schedule version, a leave day, a leave request.
AddChild(b, table, key) ==
  /\ Does("child") /\ Is(b) /\ table # "grant"
  /\ child' = child \cup {[table |-> table, badge |-> b, key |-> key]} /\ UNCHANGED <<emp, wrong>>

GrantsOf(b) == {r.key : r \in {s \in ChildrenOf(b) : s.table = "grant"}}
Granting(b, apps) ==
  {r \in child : ~(r.badge = b /\ r.table = "grant")}
    \cup {[table |-> "grant", badge |-> b, key |-> app] : app \in apps}

SetGrants(b, apps) ==
  /\ Does("grants") /\ Is(b)
  /\ child' = Granting(b, apps) /\ UNCHANGED <<emp, wrong>>

SetCard(b, card) ==
  /\ Does("card") /\ Is(b)
  /\ card # NoCard => \A other \in Badges \ {b} : Is(other) => emp[other].card # card
  /\ Put(b, [emp[b] EXCEPT !.card = card]) /\ UNCHANGED <<child, wrong>>

-----------------------------------------------------------------------------
(* Linking codes. *)

HeldBy(c) == {b \in Badges : Is(b) /\ emp[b].code = c}

\* commit_unique_linking_code passes over the codes of unlinked employees; one
\* of a linked employee fails at the commit.
Passed(c) == \E b \in HeldBy(c) : emp[b].account = NoAccount
Collides(b, c) == HeldBy(c) \ {b} # {} /\ ~Passed(c)

\* A collision rolls everything back, the unlinking of generate included, and
\* the next attempt sets the code alone.
WithNewCode(b, c, afterCollision) ==
  [emp[b] EXCEPT !.code = c, !.fresh = TRUE, !.account = IF afterCollision THEN @ ELSE NoAccount]

GenerateCode(b, c) ==
  /\ Does("code") /\ Is(b)
  /\ emp[b].account = NoAccount => ~(emp[b].code # NoCode /\ emp[b].fresh)
  /\ ~Passed(c) /\ ~Collides(b, c)
  /\ \/ Put(b, WithNewCode(b, c, FALSE))
     \/ (\E d \in Codes : Collides(b, d)) /\ Put(b, WithNewCode(b, c, TRUE))
  /\ UNCHANGED <<child, wrong>>

RegenerateCode(b, c) ==
  /\ Does("code") /\ Is(b) /\ emp[b].account = NoAccount
  /\ ~Passed(c) /\ ~Collides(b, c)
  /\ Put(b, WithNewCode(b, c, FALSE)) /\ UNCHANGED <<child, wrong>>

\* A day passes.
CodeExpires(b) ==
  /\ Does("expire") /\ Is(b) /\ emp[b].fresh
  /\ Put(b, [emp[b] EXCEPT !.fresh = FALSE]) /\ UNCHANGED <<child, wrong>>

Unlinked(b) == [emp[b] EXCEPT !.account = NoAccount, !.code = NoCode, !.fresh = FALSE]

\* unlink-account: the employee asks, and is found while active only.
UnlinkOwn(b) ==
  /\ Does("unlink") /\ Is(b) /\ emp[b].account # NoAccount /\ emp[b].active
  /\ Put(b, Unlinked(b)) /\ UNCHANGED <<child, wrong>>

UnlinkByAdmin(b) ==
  /\ Does("unlink") /\ Is(b) /\ emp[b].account # NoAccount
  /\ Put(b, Unlinked(b)) /\ UNCHANGED <<child, wrong>>

\* link_account: nobody active holds the code.  Enough failures of one code take
\* it from an employee who is not active.
GuessWrong(a, c) ==
  /\ Does("link") /\ MayGuess(a)
  /\ \A b \in HeldBy(c) : ~emp[b].active
  /\ RecordFailure(a)
  /\ wrong' = [wrong EXCEPT ![c] = IF @ + 1 >= BurnAfter THEN 0 ELSE @ + 1]
  /\ emp' = IF wrong[c] + 1 >= BurnAfter
            THEN [b \in Badges |-> IF b \in HeldBy(c) THEN [emp[b] EXCEPT !.code = NoCode, !.fresh = FALSE]
                                   ELSE emp[b]]
            ELSE emp
  /\ UNCHANGED child

\* The code is too old, or its employee is linked already.
LinkRefused(a, b) ==
  /\ Does("link") /\ MayGuess(a)
  /\ Is(b) /\ emp[b].code # NoCode /\ emp[b].active
  /\ ~emp[b].fresh \/ emp[b].account # NoAccount
  /\ RecordFailure(a) /\ UNCHANGED <<emp, child, wrong>>

\* The account of another employee fails at the commit: nothing is stored.
Link(a, b) ==
  /\ Does("link") /\ MayGuess(a) /\ ~HasAccount(a)
  /\ Is(b) /\ emp[b].code # NoCode /\ emp[b].active /\ emp[b].fresh /\ emp[b].account = NoAccount
  /\ Put(b, [emp[b] EXCEPT !.account = a, !.code = NoCode, !.fresh = FALSE])
  /\ wrong' = [wrong EXCEPT ![emp[b].code] = 0]
  /\ ForgetFailures(a) /\ UNCHANGED child

-----------------------------------------------------------------------------
(* Onboarding. *)

\* generate_next_q_badge: one above the highest there is, so that the highest
\* is given again once its employee is gone.
NextQ ==
  LET taken == {i \in DOMAIN QBadges : Is(QBadges[i])}
  IN CHOOSE i \in 1 .. Len(QBadges) + 1 :
       (\A j \in taken : j < i) /\ (i = 1 \/ i - 1 \in taken)

Applicant(a) == [Blank EXCEPT !.active = FALSE, !.pending = TRUE, !.self = TRUE, !.account = a]

\* submit_onboarding
Apply(a) ==
  /\ Does("apply") /\ CountApplication(a)
  /\ IF HasAccount(a) \/ NextQ > Len(QBadges) THEN UNCHANGED emp
     ELSE Put(QBadges[NextQ], Applicant(a))
  /\ UNCHANGED <<child, wrong>>

\* The default grants come on top of those there are.
Approve(b, defaults) ==
  /\ Does("decide") /\ Is(b) /\ emp[b].pending
  /\ Put(b, [emp[b] EXCEPT !.active = TRUE, !.pending = FALSE])
  /\ child' = Granting(b, GrantsOf(b) \cup defaults) /\ UNCHANGED wrong

Cascades == {"schedule"}

\* Mutant: an applicant who has scanned is deleted all the same.
RejectAlwaysDeletes(b) ==
  /\ Does("decide") /\ Is(b) /\ emp[b].pending
  /\ Put(b, NoRow) /\ child' = {r \in child : ~(r.badge = b /\ r.table \in Cascades)}
  /\ UNCHANGED wrong

Reject(b) ==
  /\ Does("decide") /\ Is(b) /\ emp[b].pending
  /\ IF \E r \in ChildrenOf(b) : r.table = "attendance"
     THEN Put(b, [emp[b] EXCEPT !.active = FALSE, !.pending = FALSE]) /\ UNCHANGED child
     ELSE Put(b, NoRow) /\ child' = {r \in child : ~(r.badge = b /\ r.table \in Cascades)}
  /\ UNCHANGED wrong

-----------------------------------------------------------------------------
(* The merge. *)

Moved(rows, to) == {[r EXCEPT !.badge = to] : r \in rows}
Known(r) == r.table # "request"

\* Rows that break a constraint of their table undo the whole merge: two scans
\* of one moment; on a rename also rows left behind under the new badge.
Clash(from, to, tables) ==
  \E r \in ChildrenOf(from), s \in ChildrenOf(to) :
    r.table = s.table /\ r.key = s.key /\ r.table \in tables

\* Rename: every row of the tables the merge knows.
Rename(from, to) ==
  /\ ~Clash(from, to, Tables \ {"request"})
  /\ emp' = [emp EXCEPT ![to] = emp[from], ![from] = NoRow]
  /\ child' = (child \ {r \in ChildrenOf(from) : Known(r)})
                \cup Moved({r \in ChildrenOf(from) : Known(r)}, to)

IfEmpty(value, empty, other) == IF value = empty THEN other ELSE value

Joined(row, other) ==
  [row EXCEPT !.account = IfEmpty(row.account, NoAccount, other.account),
              !.code = IfEmpty(row.code, NoCode, other.code),
              !.fresh = IF row.code = NoCode THEN other.fresh ELSE row.fresh,
              !.card = IfEmpty(row.card, NoCard, other.card)]

\* Rows of a unique table lose against one of the same key.  The moves are not
\* flushed when the employee is deleted, so the cascade still finds its rows
\* under the old badge and deletes them.
MergeInto(from, to) ==
  LET moving == {r \in ChildrenOf(from) : Known(r) /\ r.table \notin Cascades}
  IN /\ child' = (child \ {r \in ChildrenOf(from) : Known(r)}) \cup Moved(moving, to)
     /\ emp' = [emp EXCEPT ![from] = NoRow, ![to] = Joined(emp[to], emp[from])]

Merge(from, to) ==
  /\ Does("merge") /\ from # to /\ Is(from) /\ UNCHANGED wrong
  /\ IF Is(to)
     THEN /\ NoAccount \in {emp[from].account, emp[to].account} /\ ~Clash(from, to, {"attendance"})
          /\ MergeInto(from, to)
     ELSE Rename(from, to)

=============================================================================
