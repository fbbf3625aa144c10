------------------------------- MODULE OpService -------------------------------
(***************************************************************************)
(* What ZkSession.submit promises its callers, whatever the session thread *)
(* goes through: ops reach the reader one at a time and in the order they  *)
(* were accepted, each at most once, and an op that was turned away        *)
(* without having run never runs.  A call that finds the service stopped   *)
(* runs its op at once, on its own.                                        *)
(***************************************************************************)
EXTENDS Sequences

CONSTANT Ops

VARIABLES
  pending,  \* accepted and not answered, oldest first
  fut,      \* the answer of each op: "none", "result" or "error"
  ran       \* ops that were applied to the reader, in order

TypeOK ==
  /\ pending \in Seq(Ops) /\ ran \in Seq(Ops)
  /\ fut \in [Ops -> {"none", "result", "error"}]

Init == pending = <<>> /\ fut = [o \in Ops |-> "none"] /\ ran = <<>>

Fresh(o) ==
  /\ fut[o] = "none"
  /\ \A i \in DOMAIN pending : pending[i] # o
  /\ \A i \in DOMAIN ran : ran[i] # o

Accept(o) == Fresh(o) /\ pending' = Append(pending, o) /\ UNCHANGED <<fut, ran>>

\* The op runs and returns or raises.
Answer ==
  /\ pending # <<>>
  /\ \E a \in {"result", "error"} : fut' = [fut EXCEPT ![Head(pending)] = a]
  /\ ran' = Append(ran, Head(pending))
  /\ pending' = Tail(pending)

\* The reader cannot be reached: the caller is told, the op does not run.
TurnAway ==
  /\ pending # <<>>
  /\ fut' = [fut EXCEPT ![Head(pending)] = "error"]
  /\ pending' = Tail(pending)
  /\ UNCHANGED ran

\* A one-shot call, connected or not.
Direct(o) ==
  /\ Fresh(o)
  /\ \/ \E a \in {"result", "error"} : fut' = [fut EXCEPT ![o] = a] /\ ran' = Append(ran, o)
     \/ fut' = [fut EXCEPT ![o] = "error"] /\ UNCHANGED ran
  /\ UNCHANGED pending

Next == Answer \/ TurnAway \/ \E o \in Ops : Accept(o) \/ Direct(o)

Spec == Init /\ [][Next]_<<pending, fut, ran>>

=============================================================================
