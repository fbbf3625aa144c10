------------------------ MODULE ReaderServiceProofs -------------------------
(***************************************************************************)
(* Proofs about the two services that keep the reader and the pages in     *)
(* step.  ZkSession, for every set of calls, every back-off and every      *)
(* number of faults: the types with the exclusiveness of the reader's one  *)
(* session, and that the session thread with its callers implements        *)
(* OpService, whatever step of either comes next.  BackgroundScheduler,    *)
(* for any number of imports at once, any retry budget and any number of   *)
(* punches: the cache stays coherent, and until the first import that      *)
(* brought records a fast retry follows a failed one within the budget.    *)
(***************************************************************************)
EXTENDS ZkSession, BackgroundScheduler, SequenceTheorems, FiniteSetTheorems, TLAPS

-----------------------------------------------------------------------------
(* Reader session: the inductive invariant. *)

TypeInv ==
  /\ TypeOK
  /\ kicks <= faults
  /\ (pc = "run") <=> (cur # None)

\* The thread's connections belong to phases that exclude each other, and a
\* caller opens one of its own only after a shutdown.
ConnsInv ==
  /\ started = ~stop
  /\ "stream" \in conns => pc \in {"catchup", "stream", "ended"}
  /\ "ops" \in conns => pc \in {"drain", "run"}
  /\ \A o \in Ops : o \in conns => call[o] = "oneshot"
  /\ \A o \in Ops : call[o] = "oneshot" => stop

SessionInv == TypeInv /\ ConnsInv

Queued == {queue[i] : i \in DOMAIN queue}
Applied == {ran[i] : i \in DOMAIN ran}

\* An op waits in one place of the queue, without an answer, until the thread
\* takes it; before its caller has put it there it is nowhere.
QueueInv ==
  /\ \A i, j \in DOMAIN queue : queue[i] = queue[j] => i = j
  /\ cur \notin Queued
  /\ \A o \in Ops : o \in Queued \cup {cur} =>
       fut[o] = "none" /\ call[o] \notin {"new", "accepted", "oneshot"}
  /\ \A o \in Ops : call[o] \in {"new", "accepted", "oneshot"} => fut[o] = "none" /\ o \notin Applied

-----------------------------------------------------------------------------
(* One session at a time. *)

LEMMA TypeInit == Init => TypeInv
<1> SUFFICES ASSUME Init PROVE TypeInv
  OBVIOUS
<1>1. /\ call \in [Ops -> Calls] /\ fut \in [Ops -> {"none", "result", "error"}]
      /\ queue \in Seq(Ops) /\ ran \in Seq(Ops)
  BY DEF Init, Calls
<1>2. /\ started \in BOOLEAN /\ stop \in BOOLEAN /\ needs \in BOOLEAN /\ died \in BOOLEAN
      /\ pc \in Pcs /\ conns \subseteq {"stream", "ops"} \cup Ops
  BY DEF Init, Pcs
<1>3. /\ backoff \in MinBackoff .. MaxBackoff /\ kickBackoff \in MinKickBackoff .. MaxKickBackoff
      /\ kicks \in 0 .. MaxFaults /\ faults \in 0 .. MaxFaults /\ kicks <= faults
  BY SessionAssumption DEF Init
<1>4. cur = None /\ pc # "run"
  BY DEF Init
<1>. QED
  BY <1>1, <1>2, <1>3, <1>4 DEF TypeInv, TypeOK

LEMMA DoubledType ==
  ASSUME NEW low \in Nat, NEW high \in Nat, NEW b \in low .. high
  PROVE  Doubled(b, high) \in low .. high
  BY DEF Doubled

LEMMA TypeStep == TypeInv /\ [Next]_vars => TypeInv'
<1> SUFFICES ASSUME TypeInv, [Next]_vars PROVE TypeInv'
  OBVIOUS
<1> USE SessionAssumption DEF TypeInv, TypeOK, thread, ThreadOnly, Goto, Fault
<1>1. ASSUME NEW o \in Ops, Submit(o)
      PROVE  TypeInv'
  BY <1>1 DEF Submit, Calls
<1>2. ASSUME NEW o \in Ops, Put(o)
      PROVE  TypeInv'
  BY <1>2 DEF Put, Calls
<1>3. ASSUME NEW o \in Ops, Return(o)
      PROVE  TypeInv'
  BY <1>3 DEF Return, Calls
<1>4. ASSUME NEW o \in Ops, OneShotConnect(o)
      PROVE  TypeInv'
  <2>1. CASE UNCHANGED <<call, fut, faults>>
    BY <1>4, <2>1 DEF OneShotConnect
  <2>2. CASE /\ Fault /\ UNCHANGED conns
             /\ fut' = [fut EXCEPT ![o] = "error"]
             /\ call' = [call EXCEPT ![o] = "returned"]
    <3>1. call' \in [Ops -> Calls] /\ fut' \in [Ops -> {"none", "result", "error"}]
      BY <2>2 DEF Calls
    <3>. QED
      BY <1>4, <2>2, <3>1 DEF OneShotConnect
  <2>. QED
    BY <1>4, <2>1, <2>2 DEF OneShotConnect
<1>5. ASSUME NEW o \in Ops, OneShotRun(o)
      PROVE  TypeInv'
  BY <1>5 DEF OneShotRun, Calls
<1>6. CASE Shutdown
  BY <1>6 DEF Shutdown
<1>7. CASE Grace \/ Leave \/ KickWait \/ OpsCheck \/ StreamEnded
  BY <1>7 DEF Grace, Leave, KickWait, OpsCheck, StreamEnded, Pcs
<1>16. CASE CatchUp
  <2>1. CASE needs' = FALSE /\ UNCHANGED faults
    BY <1>16, <2>1 DEF CatchUp, Pcs
  <2>2. CASE Fault /\ UNCHANGED needs
    BY <1>16, <2>2 DEF CatchUp, Pcs
  <2>. QED
    BY <1>16, <2>1, <2>2 DEF CatchUp
<1>17. CASE StreamBreak
  BY <1>17 DEF StreamBreak, Pcs
<1>18. CASE PunchFails
  BY <1>18 DEF PunchFails
<1>8. CASE ConnectStream
  <2>1. CASE /\ pc' = "catchup" /\ conns' = conns \cup {"stream"}
             /\ backoff' = MinBackoff /\ UNCHANGED faults
    BY <1>8, <2>1 DEF ConnectStream, Pcs
  <2>2. CASE pc' = "failing" /\ Fault /\ UNCHANGED <<conns, backoff>>
    BY <1>8, <2>2 DEF ConnectStream, Pcs
  <2>. QED
    BY <1>8, <2>1, <2>2 DEF ConnectStream
<1>19. CASE ConnectOps
  <2>1. CASE pc' = "drain" /\ conns' = conns \cup {"ops"} /\ UNCHANGED <<needs, faults>>
    BY <1>19, <2>1 DEF ConnectOps, Pcs
  <2>2. CASE pc' = "top" /\ needs' = TRUE /\ Fault /\ UNCHANGED conns
    BY <1>19, <2>2 DEF ConnectOps, Pcs
  <2>. QED
    BY <1>19, <2>1, <2>2 DEF ConnectOps
<1>9. CASE FailQueued
  <2>1. queue' \in Seq(Ops) /\ Head(queue) \in Ops
    BY <1>9 DEF FailQueued
  <2>2. fut' \in [Ops -> {"none", "result", "error"}]
    BY <1>9, <2>1 DEF FailQueued
  <2>. QED
    BY <1>9, <2>1, <2>2 DEF FailQueued
<1>10. CASE FailedAll
  BY <1>10 DEF FailedAll, Pcs
<1>11. CASE Backoff
  <2>1. backoff' \in MinBackoff .. MaxBackoff
    BY <1>11, DoubledType DEF Backoff
  <2>. QED
    BY <1>11, <2>1 DEF Backoff, Pcs
<1>12. CASE NextOp
  <2>1. CASE queue = <<>>
    BY <1>12, <2>1 DEF NextOp, Pcs
  <2>2. CASE queue # <<>>
    <3>1. Head(queue) \in Ops /\ Tail(queue) \in Seq(Ops)
      BY <2>2
    <3>. QED
      BY <1>12, <2>2, <3>1 DEF NextOp, Pcs
  <2>. QED
    BY <2>1, <2>2
<1>13. CASE RunOp
  <2>1. cur \in Ops
    BY <1>13 DEF RunOp
  <2>2. ran' \in Seq(Ops) /\ fut' \in [Ops -> {"none", "result", "error"}]
    BY <1>13, <2>1 DEF RunOp
  <2>. QED
    BY <1>13, <2>2 DEF RunOp, Pcs
<1>14. ASSUME NEW soon \in BOOLEAN, StreamDies(soon)
       PROVE  TypeInv'
  <2>1. kickBackoff' \in MinKickBackoff .. MaxKickBackoff
    BY <1>14, DoubledType DEF StreamDies
  <2>. QED
    BY <1>14, <2>1 DEF StreamDies, Pcs
<1>15. CASE UNCHANGED vars
  BY <1>15 DEF vars, callers
<1>. QED
  BY <1>1, <1>2, <1>3, <1>4, <1>5, <1>6, <1>7, <1>8, <1>9, <1>10, <1>11, <1>12, <1>13, <1>14, <1>15,
     <1>16, <1>17, <1>18, <1>19
  DEF Next, CallerStep, ThreadStep

LEMMA ConnsStep == SessionInv /\ [Next]_vars => ConnsInv'
<1> SUFFICES ASSUME SessionInv, [Next]_vars PROVE ConnsInv'
  OBVIOUS
<1> USE SessionAssumption DEF SessionInv, ConnsInv, thread, ThreadOnly, Goto
<1>1. call \in [Ops -> Calls]
  BY DEF TypeInv, TypeOK
<1>2. ASSUME NEW o \in Ops, Submit(o) \/ Put(o) \/ Return(o)
      PROVE  ConnsInv'
  <2>1. /\ UNCHANGED <<started, stop, pc, conns>>
        /\ \A q \in Ops : q # o => call'[q] = call[q]
        /\ call[o] # "oneshot" /\ (call'[o] = "oneshot" => ~started)
    BY <1>1, <1>2 DEF Submit, Put, Return
  <2>. QED
    BY <2>1
<1>3. ASSUME NEW o \in Ops, OneShotConnect(o)
      PROVE  ConnsInv'
  BY <1>1, <1>3 DEF OneShotConnect
<1>4. ASSUME NEW o \in Ops, OneShotRun(o)
      PROVE  ConnsInv'
  BY <1>1, <1>4 DEF OneShotRun
<1>5. CASE Shutdown
  BY <1>5 DEF Shutdown
<1>6. CASE Grace \/ Leave \/ KickWait \/ OpsCheck \/ FailQueued \/ FailedAll \/ Backoff \/ RunOp
  BY <1>6 DEF Grace, Leave, KickWait, OpsCheck, FailQueued, FailedAll, Backoff, RunOp
<1>7. CASE ConnectStream \/ ConnectOps
  BY <1>7 DEF ConnectStream, ConnectOps
<1>8. CASE CatchUp \/ StreamBreak \/ PunchFails
  BY <1>8 DEF CatchUp, StreamBreak, PunchFails
<1>9. CASE StreamEnded \/ NextOp
  BY <1>9 DEF StreamEnded, NextOp
<1>10. ASSUME NEW soon \in BOOLEAN, StreamDies(soon)
       PROVE  ConnsInv'
  BY <1>10 DEF StreamDies
<1>11. CASE UNCHANGED vars
  BY <1>11 DEF vars, callers
<1>. QED
  BY <1>2, <1>3, <1>4, <1>5, <1>6, <1>7, <1>8, <1>9, <1>10, <1>11
  DEF Next, CallerStep, ThreadStep

\* Until a shutdown is requested this process holds at most one connection to
\* the reader, through every eviction, refused connection and op; and no
\* variable leaves its type, the two back-offs included.
THEOREM SessionsStayExclusive == Spec => []SessionsAreExclusive
<1>1. Init => SessionInv
  <2>1. Init => ConnsInv
    BY DEF Init, ConnsInv
  <2>. QED
    BY <2>1, TypeInit DEF SessionInv
<1>2. SessionInv /\ [Next]_vars => SessionInv'
  BY TypeStep, ConnsStep DEF SessionInv
<1>3. SessionInv => SessionsAreExclusive
  <2> SUFFICES ASSUME SessionInv, ~stop PROVE Cardinality(conns) <= 1
    BY DEF SessionsAreExclusive, OneSessionBeforeShutdown, SessionInv, TypeInv
  <2>1. conns \subseteq {"stream", "ops"} /\ ~("stream" \in conns /\ "ops" \in conns)
    BY DEF SessionInv, ConnsInv, TypeInv, TypeOK
  <2>2. conns = {} \/ conns = {"stream"} \/ conns = {"ops"}
    BY <2>1
  <2>3. Cardinality({}) = 0 /\ Cardinality({"stream"}) = 1 /\ Cardinality({"ops"}) = 1
    BY FS_EmptySet, FS_Singleton
  <2>. QED
    BY <2>2, <2>3
<1>. QED
  BY <1>1, <1>2, <1>3, PTL DEF Spec

-----------------------------------------------------------------------------
(* What submit() promises. *)

LEMMA QueueInit == Init => QueueInv
  BY SessionAssumption DEF Init, QueueInv, Queued, Applied

\* Steps that do not touch an op.
LEMMA QueueFrame ==
  ASSUME QueueInv, UNCHANGED <<queue, cur, call, fut, ran>>
  PROVE  QueueInv'
  BY DEF QueueInv, Queued, Applied

LEMMA QueueStep == SessionInv /\ QueueInv /\ [Next]_vars => QueueInv'
<1> SUFFICES ASSUME SessionInv, QueueInv, [Next]_vars PROVE QueueInv'
  OBVIOUS
<1> USE SessionAssumption DEF thread, ThreadOnly, Goto
<1>1. /\ queue \in Seq(Ops) /\ ran \in Seq(Ops) /\ cur \in Ops \cup {None}
      /\ call \in [Ops -> Calls] /\ fut \in [Ops -> {"none", "result", "error"}]
  BY DEF SessionInv, TypeInv, TypeOK
<1>2. Queued \subseteq Ops /\ Applied \subseteq Ops
  BY <1>1 DEF Queued, Applied
<1>3. ASSUME NEW o \in Ops, Submit(o)
      PROVE  QueueInv'
  <2>1. UNCHANGED <<queue, cur, fut, ran>> /\ call[o] = "new"
        /\ \A q \in Ops : call'[q] = call[q] \/ q = o
    BY <1>1, <1>3 DEF Submit
  <2>. QED
    BY <2>1 DEF QueueInv, Queued, Applied
<1>4. ASSUME NEW o \in Ops, Put(o)
      PROVE  QueueInv'
  <2>1. /\ queue' = Append(queue, o) /\ UNCHANGED <<cur, fut, ran>> /\ call[o] = "accepted"
        /\ \A q \in Ops : call'[q] = IF q = o THEN "waiting" ELSE call[q]
    BY <1>1, <1>4 DEF Put
  <2>2. \A i \in DOMAIN queue' : \/ i \in DOMAIN queue /\ queue'[i] = queue[i]
                                 \/ i = Len(queue) + 1 /\ queue'[i] = o
    BY <1>1, <2>1
  <2>3. Queued' \subseteq Queued \cup {o} /\ Applied' = Applied
    BY <2>1, <2>2 DEF Queued, Applied
  <2>4. o \notin Queued \cup {cur} /\ fut[o] = "none"
    BY <2>1 DEF QueueInv
  <2>5. \A i, j \in DOMAIN queue' : queue'[i] = queue'[j] => i = j
    BY <2>2, <2>4 DEF QueueInv, Queued
  <2>. QED
    BY <2>1, <2>3, <2>4, <2>5 DEF QueueInv
<1>5. ASSUME NEW o \in Ops, Return(o)
      PROVE  QueueInv'
  <2>1. /\ UNCHANGED <<queue, cur, fut, ran>>
        /\ \A q \in Ops : call'[q] = call[q] \/ call'[q] \in {"gaveup", "returned"}
    BY <1>1, <1>5 DEF Return
  <2>. QED
    BY <2>1 DEF QueueInv, Queued, Applied
<1>6. ASSUME NEW o \in Ops, OneShotConnect(o) \/ OneShotRun(o)
      PROVE  QueueInv'
  <2>1. call[o] = "oneshot"
    BY <1>6 DEF OneShotConnect, OneShotRun, SessionInv, ConnsInv
  <2>2. CASE UNCHANGED <<queue, cur, call, fut, ran>>
    BY <2>2, QueueFrame
  <2>3. CASE /\ UNCHANGED <<queue, cur>>
             /\ ran' = ran \/ ran' = Append(ran, o)
             /\ \E a \in {"result", "error"} : fut' = [fut EXCEPT ![o] = a]
             /\ call' = [call EXCEPT ![o] = "returned"]
    <3>1. \A i \in DOMAIN ran' : (i \in DOMAIN ran /\ ran'[i] = ran[i]) \/ ran'[i] = o
      BY <1>1, <2>3
    <3>2. Applied' \subseteq Applied \cup {o} /\ Queued' = Queued
      BY <2>3, <3>1 DEF Applied, Queued
    <3>3. \A q \in Ops : IF q = o THEN call'[q] = "returned"
                         ELSE call'[q] = call[q] /\ fut'[q] = fut[q]
      BY <1>1, <2>3
    <3>4. o \notin Queued \cup {cur}
      BY <2>1 DEF QueueInv
    <3>. QED
      BY <2>3, <3>2, <3>3, <3>4 DEF QueueInv
  <2>. QED
    BY <1>6, <2>2, <2>3 DEF OneShotConnect, OneShotRun
<1>7. CASE FailQueued
  <2>1. PICK o \in Ops : o = Head(queue)
    BY <1>1, <1>7 DEF FailQueued
  <2>2. /\ queue # <<>> /\ queue' = Tail(queue) /\ UNCHANGED <<cur, call, ran>>
        /\ fut' = IF fut[o] = "none" THEN [fut EXCEPT ![o] = "error"] ELSE fut
    BY <1>7, <2>1 DEF FailQueued
  <2>3. /\ \A k \in DOMAIN queue' : k + 1 \in DOMAIN queue /\ queue'[k] = queue[k + 1] /\ k + 1 # 1
        /\ 1 \in DOMAIN queue /\ o = queue[1]
        /\ \A j, k \in DOMAIN queue' : j + 1 = k + 1 => j = k
    BY <1>1, <2>1, <2>2
  <2>4. Queued' \subseteq Queued /\ o \in Queued \ Queued'
    BY <2>3 DEF QueueInv, Queued
  <2>5. \A j, k \in DOMAIN queue' : queue'[j] = queue'[k] => j = k
    BY <2>3 DEF QueueInv
  <2>6. \A q \in Ops : q # o => fut'[q] = fut[q]
    BY <1>1, <2>2
  <2>7. Applied' = Applied
    BY <2>2 DEF Applied
  <2>. QED
    BY <2>2, <2>4, <2>5, <2>6, <2>7 DEF QueueInv
<1>8. CASE NextOp
  <2>1. CASE queue = <<>>
    BY <1>8, <2>1, QueueFrame DEF NextOp
  <2>2. CASE queue # <<>>
    <3>1. PICK o \in Ops : o = Head(queue)
      BY <1>1, <2>2
    <3>2. queue' = Tail(queue) /\ cur' = o /\ UNCHANGED <<call, fut, ran>>
      BY <1>8, <2>2, <3>1 DEF NextOp
    <3>3. /\ \A k \in DOMAIN queue' : k + 1 \in DOMAIN queue /\ queue'[k] = queue[k + 1] /\ k + 1 # 1
          /\ 1 \in DOMAIN queue /\ o = queue[1]
          /\ \A j, k \in DOMAIN queue' : j + 1 = k + 1 => j = k
      BY <1>1, <2>2, <3>1, <3>2
    <3>4. Queued' \subseteq Queued /\ o \in Queued \ Queued'
      BY <3>3 DEF QueueInv, Queued
    <3>5. \A j, k \in DOMAIN queue' : queue'[j] = queue'[k] => j = k
      BY <3>3 DEF QueueInv
    <3>6. Applied' = Applied
      BY <3>2 DEF Applied
    <3>. QED
      BY <3>2, <3>4, <3>5, <3>6 DEF QueueInv
  <2>. QED
    BY <2>1, <2>2
<1>9. CASE RunOp
  <2>1. PICK o \in Ops : o = cur
    BY <1>1, <1>9 DEF RunOp, SessionInv, TypeInv
  <2>2. /\ UNCHANGED <<queue, call>> /\ cur' = None /\ ran' = Append(ran, o)
        /\ \E a \in {"result", "error"} : fut' = [fut EXCEPT ![o] = a]
    BY <1>9, <2>1 DEF RunOp
  <2>3. \A i \in DOMAIN ran' : (i \in DOMAIN ran /\ ran'[i] = ran[i]) \/ ran'[i] = o
    BY <1>1, <2>2
  <2>4. Applied' \subseteq Applied \cup {o} /\ Queued' = Queued
    BY <2>2, <2>3 DEF Applied, Queued
  <2>5. \A q \in Ops : q # o => fut'[q] = fut[q]
    BY <1>1, <2>2
  <2>6. None \notin Queued
    BY <1>2
  <2>. QED
    BY <2>1, <2>2, <2>4, <2>5, <2>6 DEF QueueInv
<1>10. CASE Shutdown \/ PunchFails \/ \E soon \in BOOLEAN : StreamDies(soon)
  BY <1>10, QueueFrame DEF Shutdown, PunchFails, StreamDies
<1>11. CASE Grace \/ Leave \/ ConnectStream \/ FailedAll \/ Backoff \/ CatchUp \/ StreamBreak
            \/ StreamEnded \/ KickWait \/ OpsCheck \/ ConnectOps
  BY <1>11, QueueFrame DEF Grace, Leave, ConnectStream, FailedAll, Backoff, CatchUp, StreamBreak,
                           StreamEnded, KickWait, OpsCheck, ConnectOps
<1>12. CASE UNCHANGED vars
  BY <1>12, QueueFrame DEF vars, callers
<1>. QED
  BY <1>3, <1>4, <1>5, <1>6, <1>7, <1>8, <1>9, <1>10, <1>11, <1>12
  DEF Next, CallerStep, ThreadStep

\* What OpService counts as pending: the op the thread runs, then the queue.
Waiting == IF cur = None THEN queue ELSE <<cur>> \o queue

\* Before it is accepted an op is nowhere in the service.
LEMMA NewIsFresh ==
  ASSUME SessionInv, QueueInv, NEW o \in Ops, call[o] \in {"accepted", "oneshot"}
  PROVE  /\ fut[o] = "none"
         /\ \A i \in DOMAIN Waiting : Waiting[i] # o
         /\ \A i \in DOMAIN ran : ran[i] # o
<1>1. queue \in Seq(Ops) /\ cur \in Ops \cup {None}
  BY DEF SessionInv, TypeInv, TypeOK
<1>2. fut[o] = "none" /\ o \notin Queued \cup {cur} /\ o \notin Applied
  BY SessionAssumption DEF QueueInv
<1>3. \A i \in DOMAIN Waiting : Waiting[i] \in Queued \cup {cur}
  <2>1. CASE cur = None
    BY <2>1 DEF Waiting, Queued
  <2>2. CASE cur # None
    <3>1. cur \in Ops
      BY <1>1, <2>2
    <3>2. \A i \in DOMAIN (<<cur>> \o queue) :
            \/ (<<cur>> \o queue)[i] = cur
            \/ i - 1 \in DOMAIN queue /\ (<<cur>> \o queue)[i] = queue[i - 1]
      BY <1>1, <3>1
    <3>. QED
      BY <2>2, <3>2 DEF Waiting, Queued
  <2>. QED
    BY <2>1, <2>2
<1>. QED
  BY <1>2, <1>3 DEF Applied

\* Each step of the thread or of a caller is one step of the service, or none.
LEMMA ServiceStep ==
  ASSUME SessionInv, QueueInv, [Next]_vars
  PROVE  [Service!Next]_<<Waiting, fut, ran>>
<1> USE SessionAssumption DEF thread, ThreadOnly, Goto
<1>1. /\ queue \in Seq(Ops) /\ ran \in Seq(Ops) /\ cur \in Ops \cup {None}
      /\ call \in [Ops -> Calls] /\ fut \in [Ops -> {"none", "result", "error"}]
      /\ (pc = "run") <=> (cur # None)
  BY DEF SessionInv, TypeInv, TypeOK
<1>2. CASE UNCHANGED <<queue, cur, fut, ran>>
  BY <1>2 DEF Waiting
<1>3. ASSUME NEW o \in Ops, Put(o)
      PROVE  Service!Accept(o)
  <2>1. call[o] = "accepted" /\ queue' = Append(queue, o) /\ UNCHANGED <<cur, fut, ran>>
    BY <1>3 DEF Put
  <2>2. Waiting' = Append(Waiting, o)
    BY <1>1, <2>1 DEF Waiting
  <2>. QED
    BY <2>1, <2>2, NewIsFresh DEF Service!Accept, Service!Fresh, Waiting
<1>4. ASSUME NEW o \in Ops, OneShotConnect(o) \/ OneShotRun(o)
      PROVE  [Service!Direct(o)]_<<Waiting, fut, ran>>
  <2>1. call[o] = "oneshot"
    BY <1>4 DEF OneShotConnect, OneShotRun, SessionInv, ConnsInv
  <2>2. CASE UNCHANGED <<queue, cur, fut, ran>>
    BY <2>2 DEF Waiting
  <2>3. CASE /\ UNCHANGED <<queue, cur>>
             /\ \/ /\ \E a \in {"result", "error"} : fut' = [fut EXCEPT ![o] = a]
                   /\ ran' = Append(ran, o)
                \/ fut' = [fut EXCEPT ![o] = "error"] /\ UNCHANGED ran
    BY <2>1, <2>3, NewIsFresh DEF Service!Direct, Service!Fresh, Waiting
  <2>. QED
    BY <1>4, <2>2, <2>3 DEF OneShotConnect, OneShotRun
<1>5. CASE FailQueued
  <2>1. queue # <<>> /\ queue' = Tail(queue) /\ UNCHANGED <<cur, ran>> /\ cur = None
    BY <1>1, <1>5 DEF FailQueued
  <2>2. fut[Head(queue)] = "none"
    <3>1. Head(queue) \in Queued /\ Head(queue) \in Ops
      BY <1>1, <2>1 DEF Queued
    <3>. QED
      BY <3>1 DEF QueueInv
  <2>3. fut' = [fut EXCEPT ![Head(queue)] = "error"]
    BY <1>5, <2>2 DEF FailQueued
  <2>. QED
    BY <2>1, <2>3 DEF Service!Next, Service!TurnAway, Waiting
<1>6. CASE NextOp
  <2>1. CASE queue = <<>>
    BY <1>2, <1>6, <2>1 DEF NextOp
  <2>2. CASE queue # <<>>
    <3>1. /\ Head(queue) \in Ops /\ queue = <<Head(queue)>> \o Tail(queue)
      BY <1>1, <2>2
    <3>2. /\ cur = None /\ cur' = Head(queue) /\ queue' = Tail(queue)
          /\ UNCHANGED <<fut, ran>>
      BY <1>1, <1>6, <2>2 DEF NextOp
    <3>3. Waiting' = Waiting
      BY <3>1, <3>2 DEF Waiting
    <3>. QED
      BY <3>2, <3>3
  <2>. QED
    BY <2>1, <2>2
<1>7. CASE RunOp
  <2>1. PICK o \in Ops : o = cur
    BY <1>1, <1>7 DEF RunOp
  <2>2. /\ queue' = queue /\ cur' = None /\ ran' = Append(ran, o)
        /\ \E a \in {"result", "error"} : fut' = [fut EXCEPT ![o] = a]
    BY <1>7, <2>1 DEF RunOp
  <2>3. Waiting = <<o>> \o queue /\ Waiting' = queue
    BY <2>1, <2>2 DEF Waiting
  <2>4. Waiting # <<>> /\ Head(Waiting) = o /\ Tail(Waiting) = queue
    BY <1>1, <2>3
  <2>. QED
    BY <2>2, <2>3, <2>4 DEF Service!Next, Service!Answer, Waiting
<1>8. ASSUME NEW o \in Ops, Submit(o) \/ Return(o)
      PROVE  UNCHANGED <<queue, cur, fut, ran>>
  BY <1>8 DEF Submit, Return
<1>9. CASE Shutdown \/ PunchFails \/ \E soon \in BOOLEAN : StreamDies(soon)
  BY <1>2, <1>9 DEF Shutdown, PunchFails, StreamDies
<1>10. CASE Grace \/ Leave \/ ConnectStream \/ FailedAll \/ Backoff \/ CatchUp \/ StreamBreak
            \/ StreamEnded \/ KickWait \/ OpsCheck \/ ConnectOps
  BY <1>2, <1>10 DEF Grace, Leave, ConnectStream, FailedAll, Backoff, CatchUp, StreamBreak,
                     StreamEnded, KickWait, OpsCheck, ConnectOps
<1>11. CASE UNCHANGED vars
  BY <1>2, <1>11 DEF vars, callers
<1>. QED
  BY <1>2, <1>3, <1>4, <1>5, <1>6, <1>7, <1>8, <1>9, <1>10, <1>11
  DEF Next, CallerStep, ThreadStep, Service!Next

\* Through evictions, refused connections, callers that gave up and a shutdown
\* at any point, the session thread and its callers do what OpService says: ops
\* run one at a time in the order they were accepted, none twice, and none that
\* was turned away.
THEOREM SessionServesOps == Spec => ServesOps
<1>1. Init => SessionInv /\ QueueInv
  <2>1. Init => ConnsInv
    BY DEF Init, ConnsInv
  <2>. QED
    BY <2>1, TypeInit, QueueInit DEF SessionInv
<1>2. SessionInv /\ QueueInv /\ [Next]_vars => (SessionInv /\ QueueInv)'
  BY TypeStep, ConnsStep, QueueStep DEF SessionInv
<1>3. Init => Service!Init
  BY DEF Init, Service!Init
<1>4. SessionInv /\ QueueInv /\ [Next]_vars
        => [Service!Next]_<<IF cur = None THEN queue ELSE <<cur>> \o queue, fut, ran>>
  BY ServiceStep DEF Waiting
<1>. QED
  BY <1>1, <1>2, <1>3, <1>4, PTL DEF Spec, ServesOps, Service!Spec

-----------------------------------------------------------------------------
(* Background scheduler. *)

Syncing == {s \in Slots : import[s].pc = "sync"}

\* Every retry in the store stands for an import that was started and has
\* failed, so that no more of them wait than were started; a reader whose
\* clock is being set again was found connected.
SchedulerInv ==
  /\ SchedulerTypes
  /\ retries + Cardinality(Syncing) <= importsStarted
  /\ UsersSurviveFailedChecks
  /\ TimeOnlyOfConnectedReader
  /\ check = "syncing" => cache.status = "up"

Imports ==
  [kind : Kinds, pc : {"idle", "sync", "summary", "cache", "broadcast"},
   synced : BOOLEAN, summary : 0 .. MaxPunches]

LEMMA NoImportType == NoImport \in Imports /\ NoImport.pc = "idle"
BY SchedulerAssumption DEF NoImport, Imports, Kinds

LEMMA SchedulerInvInit == SchedulerInit => SchedulerInv
<1> SUFFICES ASSUME SchedulerInit PROVE SchedulerInv
  OBVIOUS
<1>1. Syncing = {}
  BY DEF SchedulerInit, Syncing, NoImport
<1>2. Cardinality(Syncing) = 0
  BY <1>1, FS_EmptySet
<1>3. /\ 0 \in 0 .. RetryBudget /\ 0 \in 0 .. MaxImports /\ 0 \in 0 .. MaxPunches
      /\ Unread \in -1 .. MaxPunches
  BY SchedulerAssumption DEF Unread
<1>4. SchedulerTypes
  BY <1>3 DEF SchedulerInit, SchedulerTypes, NoImport, Kinds
<1> QED
  BY <1>2, <1>4 DEF SchedulerInit, SchedulerInv, UsersSurviveFailedChecks,
                    TimeOnlyOfConnectedReader

\* The imports under way, counted: one slot begins to sync or ceases to.
LEMMA SyncingCounted ==
  ASSUME SchedulerTypes, NEW s \in Slots,
         \A r \in Slots : r # s => import'[r] = import[r]
  PROVE  /\ Cardinality(Syncing) \in Nat /\ Cardinality(Syncing') \in Nat
         /\ import[s].pc = "sync" /\ import'[s].pc # "sync" =>
              Cardinality(Syncing') = Cardinality(Syncing) - 1
         /\ import[s].pc # "sync" /\ import'[s].pc = "sync" =>
              Cardinality(Syncing') = Cardinality(Syncing) + 1
         /\ import[s].pc # "sync" /\ import'[s].pc # "sync" =>
              Cardinality(Syncing') = Cardinality(Syncing)
<1>1. IsFiniteSet(Syncing) /\ IsFiniteSet(Syncing')
  BY SchedulerAssumption, FS_Subset DEF Syncing
<1>2. CASE import[s].pc = "sync" /\ import'[s].pc # "sync"
  <2>1. Syncing' = Syncing \ {s} /\ s \in Syncing
    BY <1>2 DEF Syncing
  <2> QED BY <1>1, <1>2, <2>1, FS_RemoveElement, FS_CardinalityType
<1>3. CASE import[s].pc # "sync" /\ import'[s].pc = "sync"
  <2>1. Syncing' = Syncing \cup {s} /\ s \notin Syncing
    BY <1>3 DEF Syncing
  <2> QED BY <1>1, <1>3, <2>1, FS_AddElement, FS_CardinalityType
<1>4. CASE import[s].pc # "sync" /\ import'[s].pc # "sync"
  <2>1. Syncing' = Syncing
    BY <1>4 DEF Syncing
  <2> QED BY <1>1, <1>4, <2>1, FS_CardinalityType
<1>5. CASE import[s].pc = "sync" /\ import'[s].pc = "sync"
  BY <1>1, <1>5, FS_CardinalityType
<1> QED BY <1>2, <1>3, <1>4, <1>5

\* A step that leaves the imports alone.
LEMMA SyncingKept ==
  ASSUME SchedulerTypes, UNCHANGED import
  PROVE  Cardinality(Syncing') = Cardinality(Syncing) /\ Cardinality(Syncing) \in Nat
<1>1. IsFiniteSet(Syncing) /\ Syncing' = Syncing
  BY SchedulerAssumption, FS_Subset DEF Syncing
<1> QED BY <1>1, FS_CardinalityType

\* Starting an import, with the jobs it leaves in the store.
LEMMA BeginKeeps ==
  ASSUME SchedulerInv, NEW s \in Slots, NEW kind \in Kinds, Begin(s, kind),
         retries' \in Nat, retries' <= retries, backfillStored' \in BOOLEAN,
         UNCHANGED <<running, firstSucceeded, retryCount, failures, check, summaryJob, punch, qr,
                     db, cache, everUsers>>
  PROVE  SchedulerInv'
<1> USE DEF SchedulerInv
<1>1. /\ import' \in [Slots -> Imports] /\ import[s].pc # "sync" /\ import'[s].pc = "sync"
      /\ \A r \in Slots : r # s => import'[r] = import[r]
  <2> DEFINE i == [NoImport EXCEPT !.kind = kind, !.pc = "sync"]
  <2>1. i \in Imports /\ i.pc = "sync"
    BY NoImportType DEF Imports
  <2> HIDE DEF i
  <2> QED BY <2>1 DEF Begin, SchedulerTypes, Imports, i
<1>2. /\ Cardinality(Syncing') = Cardinality(Syncing) + 1
      /\ Cardinality(Syncing) \in Nat
  BY <1>1, SyncingCounted
<1>3. importsStarted' = importsStarted + 1 /\ importsStarted' <= MaxImports
  BY SchedulerAssumption DEF Begin, SchedulerTypes
<1>4. retries' + Cardinality(Syncing') <= importsStarted'
  BY <1>2, <1>3 DEF SchedulerTypes
<1>5. SchedulerTypes'
  BY <1>1, <1>3, SchedulerAssumption DEF SchedulerTypes, Imports
<1> QED BY <1>4, <1>5 DEF UsersSurviveFailedChecks, TimeOnlyOfConnectedReader

\* A step of an import that leaves the other slots, the cache's status, time
\* and users alone.
LEMMA ImportKeeps ==
  ASSUME SchedulerInv, NEW s \in Slots, NEW i \in Imports,
         import' = [import EXCEPT ![s] = i], import[s].pc # "idle",
         i.pc # "sync",
         retries' = retries \/ (import[s].pc = "sync" /\ retries' = retries + 1),
         retryCount' \in 0 .. RetryBudget, failures' \in Nat, firstSucceeded' \in BOOLEAN,
         db' \in 0 .. MaxPunches,
         cache' \in [status : {"none", "up", "down"}, time : {"none", "ok", "failed"},
                     users : {"none", "list"}, summary : -1 .. MaxPunches],
         cache'.status = cache.status, cache'.time = cache.time, cache'.users = cache.users,
         UNCHANGED <<running, backfillStored, importsStarted, check, summaryJob, punch, qr,
                     everUsers>>
  PROVE  SchedulerInv'
<1> USE DEF SchedulerInv
<1>1. /\ import' \in [Slots -> Imports] /\ import'[s] = i
      /\ \A r \in Slots : r # s => import'[r] = import[r]
  BY DEF SchedulerTypes, Imports
<1>2. /\ Cardinality(Syncing') \in Nat /\ Cardinality(Syncing) \in Nat
      /\ Cardinality(Syncing') <= Cardinality(Syncing)
      /\ import[s].pc = "sync" => Cardinality(Syncing') = Cardinality(Syncing) - 1
  BY <1>1, SyncingCounted
<1>3. retries' + Cardinality(Syncing') <= importsStarted' /\ retries' \in Nat
  BY <1>2 DEF SchedulerTypes
<1>4. retries' \in 0 .. MaxImports
  BY <1>2, <1>3, SchedulerAssumption DEF SchedulerTypes
<1>5. SchedulerTypes'
  BY <1>1, <1>4 DEF SchedulerTypes, Imports
<1> QED BY <1>3, <1>5 DEF UsersSurviveFailedChecks, TimeOnlyOfConnectedReader

LEMMA SchedulerInvNext == SchedulerInv /\ [SchedulerNext]_schedulerVars => SchedulerInv'
<1> SUFFICES ASSUME SchedulerInv, [SchedulerNext]_schedulerVars PROVE SchedulerInv'
  OBVIOUS
<1>0. SchedulerTypes /\ import \in [Slots -> Imports]
  BY DEF SchedulerInv, SchedulerTypes, Imports
<1>1. ASSUME NEW s \in Slots, IntervalFires(s) PROVE SchedulerInv'
  BY <1>0, <1>1, BeginKeeps DEF IntervalFires, Kinds, SchedulerTypes
<1>2. ASSUME NEW s \in Slots, RetryFires(s) PROVE SchedulerInv'
  BY <1>0, <1>2, BeginKeeps DEF RetryFires, Kinds, SchedulerTypes
<1>3. ASSUME NEW s \in Slots, OnDemand(s) PROVE SchedulerInv'
  BY <1>0, <1>3, BeginKeeps DEF OnDemand, Kinds, SchedulerTypes
<1>4. ASSUME NEW s \in Slots, BackfillFires(s) PROVE SchedulerInv'
  <2>1. CASE Begin(s, "backfill")
    <3>0. backfillStored' = FALSE /\ retries' = retries
      BY <1>4 DEF BackfillFires
    <3>1. retries' \in Nat /\ retries' <= retries
      <4>1. retries \in 0 .. MaxImports
        BY <1>0 DEF SchedulerTypes
      <4> QED BY <3>0, <4>1
    <3> QED BY <1>4, <2>1, <3>0, <3>1, BeginKeeps DEF BackfillFires, Kinds
  <2>2. CASE UNCHANGED <<import, importsStarted>>
    BY <1>0, <1>4, <2>2, SyncingKept
       DEF BackfillFires, SchedulerInv, SchedulerTypes, UsersSurviveFailedChecks,
           TimeOnlyOfConnectedReader
  <2> QED BY <1>4, <2>1, <2>2 DEF BackfillFires
<1>5. ASSUME NEW s \in Slots, ImportRaises(s) PROVE SchedulerInv'
  <2>1. retryCount' \in 0 .. RetryBudget /\ failures' \in Nat
    BY <1>0, <1>5, SchedulerAssumption DEF ImportRaises, MayRetry, SchedulerTypes
  <2>2. retries' = retries \/ retries' = retries + 1
    BY <1>5 DEF ImportRaises
  <2>3. UNCHANGED <<firstSucceeded, db, cache>>
    BY <1>5 DEF ImportRaises
  <2> QED BY <1>0, <1>5, <2>1, <2>2, <2>3, ImportKeeps, NoImportType
             DEF ImportRaises, SchedulerTypes
<1>6. ASSUME NEW s \in Slots, NEW synced \in BOOLEAN, ImportReturns(s, synced)
      PROVE SchedulerInv'
  <2> DEFINE i == [import[s] EXCEPT !.pc = "summary", !.synced = synced]
  <2>1. import' = [import EXCEPT ![s] = i] /\ i \in Imports /\ i.pc = "summary"
    BY <1>0, <1>6 DEF ImportReturns, Imports
  <2>2. db' \in 0 .. MaxPunches
    BY <1>0, <1>6, SchedulerAssumption DEF ImportReturns, SchedulerTypes
  <2> HIDE DEF i
  <2> QED BY <1>0, <1>6, <2>1, <2>2, ImportKeeps DEF ImportReturns, SchedulerTypes, jobs
<1>7. ASSUME NEW s \in Slots, ImportReads(s) PROVE SchedulerInv'
  <2> DEFINE i == [import[s] EXCEPT !.pc = "cache", !.summary = db]
  <2>1. import' = [import EXCEPT ![s] = i] /\ i \in Imports /\ i.pc = "cache"
    BY <1>0, <1>7 DEF ImportReads, Imports, SchedulerTypes
  <2> HIDE DEF i
  <2>2. /\ retryCount' \in 0 .. RetryBudget /\ failures' \in Nat /\ firstSucceeded' \in BOOLEAN
        /\ db' \in 0 .. MaxPunches
    BY <1>0, <1>7, SchedulerAssumption DEF ImportReads, SchedulerTypes
  <2>3. cache' \in [status : {"none", "up", "down"}, time : {"none", "ok", "failed"},
                    users : {"none", "list"}, summary : -1 .. MaxPunches]
    BY <1>0, <1>7 DEF ImportReads, SchedulerTypes
  <2> QED BY <1>7, <2>1, <2>2, <2>3, ImportKeeps DEF ImportReads
<1>8. ASSUME NEW s \in Slots, ImportReadFails(s) PROVE SchedulerInv'
  <2>1. firstSucceeded' \in BOOLEAN
    BY <1>0, <1>8 DEF ImportReadFails, SchedulerTypes, Imports
  <2>2. retryCount' \in 0 .. RetryBudget /\ failures' \in Nat /\ db' \in 0 .. MaxPunches
    BY <1>0, <1>8, SchedulerAssumption DEF ImportReadFails, SchedulerTypes
  <2>3. cache' \in [status : {"none", "up", "down"}, time : {"none", "ok", "failed"},
                    users : {"none", "list"}, summary : -1 .. MaxPunches]
    BY <1>0, <1>8 DEF ImportReadFails, SchedulerTypes
  <2> QED BY <1>8, <2>1, <2>2, <2>3, ImportKeeps, NoImportType DEF ImportReadFails
<1>9. ASSUME NEW s \in Slots, ImportCaches(s) PROVE SchedulerInv'
  <2> DEFINE i == IF import[s].synced THEN [import[s] EXCEPT !.pc = "broadcast"] ELSE NoImport
  <2>1. import' = [import EXCEPT ![s] = i]
    BY <1>0, <1>9 DEF ImportCaches
  <2>2. i \in Imports /\ i.pc # "sync"
    BY <1>0, NoImportType DEF Imports
  <2>3. import[s].summary \in 0 .. MaxPunches
    BY <1>0 DEF Imports
  <2>4. /\ cache' \in [status : {"none", "up", "down"}, time : {"none", "ok", "failed"},
                       users : {"none", "list"}, summary : -1 .. MaxPunches]
        /\ cache'.status = cache.status /\ cache'.time = cache.time
        /\ cache'.users = cache.users
    BY <1>0, <1>9, <2>3, SchedulerAssumption DEF ImportCaches, SchedulerTypes
  <2> HIDE DEF i
  <2> QED BY <1>0, <1>9, <2>1, <2>2, <2>4, ImportKeeps DEF ImportCaches, SchedulerTypes, jobs
<1>10. ASSUME NEW s \in Slots, ImportEnds(s) PROVE SchedulerInv'
  BY <1>0, <1>10, ImportKeeps, NoImportType DEF ImportEnds, SchedulerTypes
<1> USE DEF SchedulerInv, SchedulerTypes, UsersSurviveFailedChecks, TimeOnlyOfConnectedReader
<1>11. CASE RequestBackfill
  BY <1>0, <1>11, SyncingKept DEF RequestBackfill
<1>12. CASE CheckFires
  BY <1>0, <1>12, SyncingKept DEF CheckFires, jobs
<1>13. ASSUME NEW status \in {"up", "down"}, NEW time \in {"ok", "failed", "drifted"},
              NEW users \in {"list", "failed"}, CheckReturns(status, time, users)
       PROVE SchedulerInv'
  <2>1. /\ cache' \in [status : {"none", "up", "down"}, time : {"none", "ok", "failed"},
                       users : {"none", "list"}, summary : -1 .. MaxPunches]
        /\ cache'.status = status
        /\ cache'.users = IF users = "failed" THEN cache.users ELSE users
        /\ cache'.time = IF time = "drifted" THEN cache.time ELSE time
    BY <1>0, <1>13 DEF CheckReturns, CacheCheck
  <2>2. /\ status = "down" => time = "failed" /\ users = "failed"
        /\ everUsers' = (everUsers \/ users = "list")
        /\ check' = IF time = "drifted" THEN "syncing" ELSE "idle"
        /\ UNCHANGED <<jobs, import, summaryJob, punch, qr, db>>
    BY <1>13 DEF CheckReturns
  <2>3. SchedulerTypes'
    BY <1>0, <2>1, <2>2 DEF jobs
  <2>4. retries' + Cardinality(Syncing') <= importsStarted'
    BY <1>0, <2>2, SyncingKept DEF jobs
  <2>5. UsersSurviveFailedChecks' /\ TimeOnlyOfConnectedReader'
    BY <2>1, <2>2
  <2> QED BY <2>1, <2>2, <2>3, <2>4, <2>5
<1>14. ASSUME NEW ok \in BOOLEAN, SyncReturns(ok) PROVE SchedulerInv'
  BY <1>0, <1>14, SyncingKept DEF SyncReturns, jobs
<1>15. CASE SummaryRead
  BY <1>0, <1>15, SyncingKept DEF SummaryRead, jobs
<1>16. CASE SummaryCached
  BY <1>0, <1>16, SyncingKept, SchedulerAssumption DEF SummaryCached, Unread, jobs
<1>17. CASE Punch
  BY <1>0, <1>17, SyncingKept, SchedulerAssumption DEF Punch, jobs
<1>18. CASE PunchCached
  BY <1>0, <1>18, SyncingKept, SchedulerAssumption DEF PunchCached, Unread, jobs
<1>19. CASE QrCheckIn
  BY <1>0, <1>19, SyncingKept, SchedulerAssumption DEF QrCheckIn, jobs
<1>20. CASE QrInvalidates
  <2>1. Unread \in -1 .. MaxPunches
    BY SchedulerAssumption DEF Unread
  <2>2. cache' \in [status : {"none", "up", "down"}, time : {"none", "ok", "failed"},
                    users : {"none", "list"}, summary : -1 .. MaxPunches]
    BY <1>20, <2>1 DEF QrInvalidates
  <2> QED BY <1>20, <2>2, SyncingKept DEF QrInvalidates, jobs
<1>21. CASE SchedulerShutdown
  BY <1>0, <1>21, SyncingKept DEF SchedulerShutdown
<1>22. CASE UNCHANGED schedulerVars
  BY <1>0, <1>22, SyncingKept DEF schedulerVars, jobs
<1> HIDE DEF SchedulerInv, SchedulerTypes
<1>23. CASE WorkerStep
  BY <1>6, <1>15, <1>17, <1>18, <1>23 DEF WorkerStep
<1>24. CASE LoopStep
  BY <1>1, <1>2, <1>3, <1>4, <1>5, <1>7, <1>8, <1>9, <1>10, <1>11, <1>12, <1>13, <1>14, <1>16,
     <1>19, <1>21, <1>24 DEF LoopStep
<1> QED BY <1>20, <1>22, <1>23, <1>24 DEF SchedulerNext

LEMMA SchedulerInvHolds == SchedulerSpec => []SchedulerInv
BY SchedulerInvInit, SchedulerInvNext, PTL DEF SchedulerSpec

\* What the pages read from the cache stays coherent, whatever imports, checks
\* and re-synchronisations overlap.
THEOREM CacheStaysCoherent == SchedulerSpec => []CacheIsCoherent
<1>1. SchedulerInv => CacheIsCoherent
  BY DEF SchedulerInv, CacheIsCoherent
<1> QED BY <1>1, SchedulerInvHolds, PTL

\* Until the first success the count of retries says how many imports have
\* failed in a row, and a retry is on its way as long as the budget has not
\* been exceeded.
OnItsWay(s) == import[s].kind = "retry" /\ import[s].pc \in {"sync", "summary"}
Spent == IF failures <= RetryBudget THEN failures ELSE RetryBudget
ChainInv ==
  running /\ ~firstSucceeded =>
    /\ retryCount = Spent
    /\ failures \in 1 .. RetryBudget => retries > 0 \/ \E s \in Slots : OnItsWay(s)

\* Steps that leave the retries alone.
LEMMA ChainKept ==
  ASSUME ChainInv, UNCHANGED <<retryCount, failures>>, retries' >= retries, retries \in Nat,
         retries' \in Nat, running' => running, firstSucceeded => firstSucceeded',
         \A s \in Slots : OnItsWay(s) => OnItsWay(s)'
  PROVE  ChainInv'
<1> SUFFICES ASSUME running', ~firstSucceeded' PROVE ChainInv'
  BY DEF ChainInv
<1>1. running /\ ~firstSucceeded
  OBVIOUS
<1>2. retryCount' = Spent'
  BY <1>1 DEF ChainInv, Spent
<1>3. failures' \in 1 .. RetryBudget => retries' > 0 \/ \E s \in Slots : OnItsWay(s)'
  BY <1>1 DEF ChainInv
<1> QED BY <1>2, <1>3 DEF ChainInv

\* Starting an import takes no slot that is busy.
LEMMA ChainBegin ==
  ASSUME SchedulerInv, ChainInv, NEW s \in Slots, NEW kind \in Kinds, Begin(s, kind),
         UNCHANGED <<running, firstSucceeded, retryCount, failures>>, retries' \in Nat,
         retries' = retries \/ kind = "retry"
  PROVE  ChainInv'
<1>1. import \in [Slots -> Imports] /\ retries \in Nat /\ import[s].pc = "idle"
  BY DEF Begin, SchedulerInv, SchedulerTypes, Imports
<1>2. import' = [import EXCEPT ![s] = [NoImport EXCEPT !.kind = kind, !.pc = "sync"]]
  BY DEF Begin
<1>3. import'[s].kind = kind /\ import'[s].pc = "sync"
  BY <1>1, <1>2 DEF NoImport
<1>4. \A r \in Slots : r # s => import'[r] = import[r]
  BY <1>1, <1>2
<1>5. \A r \in Slots : OnItsWay(r) => OnItsWay(r)'
  BY <1>1, <1>4 DEF OnItsWay
<1>6. CASE retries' = retries
  BY <1>1, <1>5, <1>6, ChainKept
<1>7. CASE kind = "retry"
  <2>1. OnItsWay(s)'
    BY <1>3, <1>7 DEF OnItsWay
  <2> QED BY <2>1 DEF ChainInv, Spent
<1> QED BY <1>6, <1>7

LEMMA ChainNext ==
  ASSUME SchedulerInv, ChainInv, [SchedulerNext]_schedulerVars
  PROVE  ChainInv'
<1>0. /\ SchedulerTypes /\ import \in [Slots -> Imports] /\ retries \in Nat
      /\ failures \in Nat /\ RetryBudget \in Nat
  BY SchedulerAssumption DEF SchedulerInv, SchedulerTypes, Imports
<1>1. ASSUME NEW s \in Slots,
             IntervalFires(s) \/ RetryFires(s) \/ OnDemand(s) \/ BackfillFires(s)
      PROVE  ChainInv'
  <2>1. CASE UNCHANGED <<import, retries>>
    BY <1>0, <1>1, <2>1, ChainKept
       DEF IntervalFires, RetryFires, OnDemand, BackfillFires, OnItsWay
  <2>2. CASE RetryFires(s)
    BY <1>0, <2>2, ChainBegin DEF RetryFires, Kinds
  <2>3. ASSUME NEW kind \in Kinds, Begin(s, kind), retries' = retries PROVE ChainInv'
    <3>1. UNCHANGED <<running, firstSucceeded, retryCount, failures>>
      BY <1>1 DEF IntervalFires, RetryFires, OnDemand, BackfillFires
    <3> QED BY <1>0, <2>3, <3>1, ChainBegin
  <2> QED BY <1>1, <2>1, <2>2, <2>3 DEF IntervalFires, OnDemand, BackfillFires, Kinds
<1>2. ASSUME NEW s \in Slots, ImportRaises(s) PROVE ChainInv'
  <2> SUFFICES ASSUME running', ~firstSucceeded' PROVE ChainInv'
    BY DEF ChainInv
  <2>1. running /\ ~firstSucceeded /\ failures' = failures + 1
    BY <1>2 DEF ImportRaises
  <2>2. retryCount = Spent
    BY <2>1 DEF ChainInv
  <2>3. CASE failures < RetryBudget
    <3>1. retryCount = failures /\ MayRetry
      BY <1>0, <2>1, <2>2, <2>3 DEF Spent, MayRetry
    <3>2. retryCount' = retryCount + 1 /\ retries' > 0
      BY <1>0, <1>2, <3>1 DEF ImportRaises
    <3> QED BY <1>0, <2>1, <2>3, <3>1, <3>2 DEF ChainInv, Spent
  <2>4. CASE ~(failures < RetryBudget)
    <3>1. retryCount = RetryBudget /\ ~MayRetry
      BY <1>0, <2>1, <2>2, <2>4 DEF Spent, MayRetry
    <3>2. retryCount' = retryCount
      BY <1>2, <3>1 DEF ImportRaises
    <3> QED BY <1>0, <2>1, <2>4, <3>1, <3>2 DEF ChainInv, Spent
  <2> QED BY <2>3, <2>4
<1>3. ASSUME NEW s \in Slots, ImportReads(s) \/ ImportReadFails(s) PROVE ChainInv'
  <2>1. retryCount' = 0 /\ failures' = 0
    BY <1>3 DEF ImportReads, ImportReadFails
  <2> QED BY <1>0, <2>1 DEF ChainInv, Spent
<1>4. ASSUME NEW s \in Slots, NEW synced \in BOOLEAN, ImportReturns(s, synced)
      PROVE  ChainInv'
  <2>1. /\ import'[s].kind = import[s].kind /\ import'[s].pc = "summary"
        /\ \A r \in Slots : r # s => import'[r] = import[r]
    BY <1>0, <1>4 DEF ImportReturns, Imports
  <2>2. \A r \in Slots : OnItsWay(r) => OnItsWay(r)'
    BY <2>1 DEF OnItsWay
  <2> QED BY <1>0, <1>4, <2>2, ChainKept DEF ImportReturns, jobs
<1>5. ASSUME NEW s \in Slots, ImportCaches(s) \/ ImportEnds(s) PROVE ChainInv'
  <2>1. \A r \in Slots : r # s => import'[r] = import[r]
    BY <1>0, <1>5 DEF ImportCaches, ImportEnds
  <2>2. ~OnItsWay(s)
    BY <1>5 DEF ImportCaches, ImportEnds, OnItsWay
  <2>3. \A r \in Slots : OnItsWay(r) => OnItsWay(r)'
    BY <2>1, <2>2 DEF OnItsWay
  <2> QED BY <1>0, <1>5, <2>3, ChainKept DEF ImportCaches, ImportEnds, jobs
<1>6. CASE \/ RequestBackfill \/ CheckFires \/ SummaryRead \/ SummaryCached \/ Punch
           \/ PunchCached \/ QrCheckIn \/ QrInvalidates \/ SchedulerShutdown
           \/ UNCHANGED schedulerVars
  <2>1. /\ UNCHANGED <<retryCount, failures, retries, import, firstSucceeded>>
        /\ running' => running
    BY <1>6 DEF RequestBackfill, CheckFires, SummaryRead, SummaryCached, Punch, PunchCached,
                QrCheckIn, QrInvalidates, SchedulerShutdown, schedulerVars, jobs
  <2> QED BY <1>0, <2>1, ChainKept DEF OnItsWay
<1>7. ASSUME NEW status, NEW time, NEW users, CheckReturns(status, time, users)
      PROVE  ChainInv'
  BY <1>0, <1>7, ChainKept DEF CheckReturns, OnItsWay, jobs
<1>8. ASSUME NEW ok, SyncReturns(ok) PROVE ChainInv'
  BY <1>0, <1>8, ChainKept DEF SyncReturns, OnItsWay, jobs
<1> QED BY <1>1, <1>2, <1>3, <1>4, <1>5, <1>6, <1>7, <1>8
        DEF SchedulerNext, WorkerStep, LoopStep

\* Before the first import that brought records, and until more imports in a
\* row have failed than the budget holds, a fast retry is on its way.
THEOREM FastRetriesHold == SchedulerSpec => []FastRetriesGoOn
<1>1. SchedulerInit => ChainInv
  BY SchedulerAssumption DEF SchedulerInit, ChainInv, Spent
<1>2. SchedulerInv /\ ChainInv /\ [SchedulerNext]_schedulerVars => ChainInv'
  BY ChainNext
<1>3. ChainInv => FastRetriesGoOn
  BY DEF ChainInv, FastRetriesGoOn, OnItsWay
<1> QED BY <1>1, <1>2, <1>3, SchedulerInvHolds, PTL DEF SchedulerSpec

=============================================================================
