------------------------------ MODULE MCOperations ------------------------------
(***************************************************************************)
(* Plans: two releases with crashes and a migration by hand; a release of  *)
(* an older commit; the directory; the passcode.                           *)
(***************************************************************************)
EXTENDS Operations

CONSTANTS ann, bob

MCCommit == <<1, 1, 2>>
MCLatest == <<2, 1>>

Plan(runs, faultsOf, byHandOf) ==
  [runs |-> runs, faults |-> faultsOf, byHand |-> byHandOf, ticks |-> 0, edits |-> 0, outages |-> 0, logins |-> 0]

MCPlans ==
  {Plan(2, 2, 0), Plan(2, 1, 1), Plan(3, 0, 0),
   [Plan(1, 1, 0) EXCEPT !.edits = 2, !.outages = 1],
   [Plan(1, 1, 0) EXCEPT !.ticks = 3, !.logins = 4]}

=============================================================================
