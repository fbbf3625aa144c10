------------------------------- MODULE MCRegistry -------------------------------
(***************************************************************************)
(* Scenes: linking and merging; onboarding; trying again and again; menus, *)
(* alone and beside the script of a deployment.                            *)
(***************************************************************************)
EXTENDS Registry

CONSTANTS b1, b2, q1, q2, ann, c1

MCQBadges == <<q1, q2>>

Nobody == [b \in Badges |-> NoRow]
Coded == [Blank EXCEPT !.code = c1, !.fresh = TRUE]

Scene(staff, kinds, n) ==
  [staff |-> staff, kinds |-> kinds, ops |-> n, who |-> Accounts, ticks |-> 0, faults |-> 0]

MCBudgets ==
  {Scene([b \in Badges |-> IF b \in {b1, b2} THEN Blank ELSE NoRow],
         {"code", "expire", "link", "unlink", "merge", "active"}, 6),
   Scene(Nobody, {"apply", "decide", "child", "create", "merge", "card", "active"}, 5),
   [Scene([Nobody EXCEPT ![b1] = Coded], {"link", "apply"}, 6) EXCEPT !.ticks = 6, !.who = {ann}],
   [Scene([Nobody EXCEPT ![b1] = [Blank EXCEPT !.account = ann]], {"hub", "grants"}, 1)
      EXCEPT !.faults = 2],
   [Scene([Nobody EXCEPT ![q1] = [Blank EXCEPT !.account = ann, !.active = FALSE, !.pending = TRUE]],
          {"hub", "grants", "decide", "follow"}, 2) EXCEPT !.faults = 1],
   Scene([Nobody EXCEPT ![b1] = Coded], {"hub", "grants", "link", "active"}, 3),
   Scene([Nobody EXCEPT ![b1] = [Blank EXCEPT !.account = ann]], {"hub", "grants", "sync"}, 2),
   [Scene([Nobody EXCEPT ![b1] = [Blank EXCEPT !.account = ann]], {"hub", "sync"}, 1)
      EXCEPT !.faults = 1]}

=============================================================================
