------------------------------- MODULE ZkSession -------------------------------
(***************************************************************************)
(* The session thread of app/services/zk_session.py and its op queue: the  *)
(* connections _run opens, the streaming and ops phases, evictions, the    *)
(* two back-offs, submit with its time-out, and the one-shot connection a  *)
(* call opens when it finds the session not started.                       *)
(*                                                                         *)
(* Init is the state lifespan() leaves: start() has run and the thread is  *)
(* in its 2 s grace.  lifespan() ends with shutdown(wait=False).  Every op *)
(* of Ops is submitted at most once, by a caller of its own.  What a       *)
(* catch-up or a live event does to the database is PunchIngest's.         *)
(***************************************************************************)
EXTENDS Integers, Sequences, FiniteSets

CONSTANTS
  Ops,          \* the calls of submit()
  None,         \* no op
  MinBackoff, MaxBackoff,          \* _BACKOFF_MIN_SECONDS, _BACKOFF_MAX_SECONDS
  MinKickBackoff, MaxKickBackoff,  \* _KICK_BACKOFF_BASE_SECONDS, ..._MAX_SECONDS
  MaxFaults     \* bound on refused connections, evictions and raising calls

ASSUME SessionAssumption ==
  /\ None \notin Ops /\ {"stream", "ops"} \cap Ops = {}
  /\ MinBackoff \in Nat \ {0} /\ MaxBackoff \in Nat /\ MinBackoff <= MaxBackoff
  /\ MinKickBackoff \in Nat \ {0} /\ MaxKickBackoff \in Nat /\ MinKickBackoff <= MaxKickBackoff
  /\ MaxFaults \in Nat

VARIABLES
  started,     \* _started
  stop,        \* the _shutdown event
  pc,          \* where the thread is in _run
  conns,       \* connections this process holds: "stream", "ops", one-shot calls
  needs,       \* _needs_catch_up
  died,        \* what _stream returned
  backoff,     \* local of _run
  kickBackoff, \* _kick_backoff
  kicks,       \* evictions so far (the deque is empty or not)
  queue,       \* _op_queue
  cur,         \* the op _drain_op_queue is running
  call,        \* per op: where its caller is in submit()
  fut,         \* per op: its future
  ran,         \* history: ops applied to the reader
  faults

thread == <<needs, died, backoff, kickBackoff, kicks>>
callers == <<call, ran>>
vars == <<started, stop, pc, conns, thread, queue, cur, call, fut, ran, faults>>

Calls == {"new", "accepted", "waiting", "oneshot", "returned", "gaveup"}
Pcs == {"grace", "top", "failing", "backoff", "catchup", "stream", "ended", "kickwait",
        "opscheck", "opsconnect", "drain", "run", "exited"}

Init ==
  /\ started = TRUE /\ stop = FALSE /\ pc = "grace" /\ conns = {}
  /\ needs = TRUE /\ died = FALSE
  /\ backoff = MinBackoff /\ kickBackoff = MinKickBackoff /\ kicks = 0
  /\ queue = <<>> /\ cur = None
  /\ call = [o \in Ops |-> "new"] /\ fut = [o \in Ops |-> "none"]
  /\ ran = <<>> /\ faults = 0

Fault == faults < MaxFaults /\ faults' = faults + 1

Doubled(b, cap) == IF 2 * b <= cap THEN 2 * b ELSE cap

-----------------------------------------------------------------------------
(* Callers: submit() and _run_op_one_shot(). *)

\* The read of _started is one step, the put another: shutdown can come
\* between them.
Submit(o) ==
  /\ call[o] = "new"
  /\ call' = [call EXCEPT ![o] = IF started THEN "accepted" ELSE "oneshot"]
  /\ UNCHANGED <<started, stop, pc, conns, thread, queue, cur, fut, ran, faults>>

Put(o) ==
  /\ call[o] = "accepted"
  /\ queue' = Append(queue, o)
  /\ call' = [call EXCEPT ![o] = "waiting"]
  /\ UNCHANGED <<started, stop, pc, conns, thread, cur, fut, ran, faults>>

\* future.result(timeout) returns, raises what the op raised, or times out.
Return(o) ==
  /\ call[o] = "waiting"
  /\ call' = [call EXCEPT ![o] = IF fut[o] = "none" THEN "gaveup" ELSE "returned"]
  /\ UNCHANGED <<started, stop, pc, conns, thread, queue, cur, fut, ran, faults>>

OneShotConnect(o) ==
  /\ call[o] = "oneshot" /\ o \notin conns
  /\ \/ conns' = conns \cup {o} /\ UNCHANGED <<call, fut, faults>>
     \/ /\ Fault
        /\ fut' = [fut EXCEPT ![o] = "error"]
        /\ call' = [call EXCEPT ![o] = "returned"]
        /\ UNCHANGED conns
  /\ UNCHANGED <<started, stop, pc, thread, queue, cur, ran>>

\* op(conn), then the disconnect of the finally clause.
OneShotRun(o) ==
  /\ o \in conns
  /\ \/ fut' = [fut EXCEPT ![o] = "result"] /\ UNCHANGED faults
     \/ fut' = [fut EXCEPT ![o] = "error"] /\ Fault
  /\ ran' = Append(ran, o)
  /\ conns' = conns \ {o}
  /\ call' = [call EXCEPT ![o] = "returned"]
  /\ UNCHANGED <<started, stop, pc, thread, queue, cur>>

\* shutdown(wait=False) of lifespan().
Shutdown ==
  /\ started
  /\ stop' = TRUE /\ started' = FALSE
  /\ UNCHANGED <<pc, conns, thread, queue, cur, call, fut, ran, faults>>

-----------------------------------------------------------------------------
(* The session thread: _run. *)

ThreadOnly == UNCHANGED <<started, stop, call>>

Goto(from, to) == pc = from /\ pc' = to

\* _shutdown.wait(seconds) returns: the event is set or the time is over.
Grace ==
  /\ Goto("grace", "top")
  /\ ThreadOnly /\ UNCHANGED <<conns, thread, queue, cur, fut, ran, faults>>

Leave ==
  /\ Goto("top", "exited")
  /\ stop
  /\ ThreadOnly /\ UNCHANGED <<conns, thread, queue, cur, fut, ran, faults>>

ConnectStream ==
  /\ pc = "top" /\ ~stop
  /\ \/ /\ pc' = "catchup"
        /\ conns' = conns \cup {"stream"}
        /\ backoff' = MinBackoff
        /\ UNCHANGED faults
     \/ pc' = "failing" /\ Fault /\ UNCHANGED <<conns, backoff>>
  /\ ThreadOnly /\ UNCHANGED <<needs, died, kickBackoff, kicks, queue, cur, fut, ran>>

\* One turn of _fail_queued_ops: ops put meanwhile are failed as well.
FailQueued ==
  /\ pc = "failing" /\ queue # <<>>
  /\ queue' = Tail(queue)
  /\ fut' = IF fut[Head(queue)] = "none" THEN [fut EXCEPT ![Head(queue)] = "error"] ELSE fut
  /\ ThreadOnly /\ UNCHANGED <<pc, conns, thread, cur, ran, faults>>

FailedAll ==
  /\ pc = "failing" /\ queue = <<>>
  /\ needs' = TRUE
  /\ pc' = IF stop THEN "exited" ELSE "backoff"
  /\ ThreadOnly /\ UNCHANGED <<conns, died, backoff, kickBackoff, kicks, queue, cur, fut, ran, faults>>

\* _shutdown.wait(backoff).
Backoff ==
  /\ pc = "backoff"
  /\ IF stop THEN pc' = "exited" /\ UNCHANGED backoff
             ELSE pc' = "top" /\ backoff' = Doubled(backoff, MaxBackoff)
  /\ ThreadOnly /\ UNCHANGED <<conns, needs, died, kickBackoff, kicks, queue, cur, fut, ran, faults>>

CatchUp ==
  /\ Goto("catchup", "stream")
  /\ \/ needs' = FALSE /\ UNCHANGED faults
     \/ needs /\ Fault /\ UNCHANGED needs
  /\ ThreadOnly /\ UNCHANGED <<conns, died, backoff, kickBackoff, kicks, queue, cur, fut, ran>>

\* Mutants: the stream notices only one of the two reasons to end.
StreamBreakForOps ==
  /\ Goto("stream", "ended") /\ queue # <<>>
  /\ died' = FALSE
  /\ ThreadOnly /\ UNCHANGED <<conns, needs, backoff, kickBackoff, kicks, queue, cur, fut, ran, faults>>
StreamBreakForStop ==
  /\ Goto("stream", "ended") /\ stop
  /\ died' = FALSE
  /\ ThreadOnly /\ UNCHANGED <<conns, needs, backoff, kickBackoff, kicks, queue, cur, fut, ran, faults>>

\* live_capture yields at least every _LIVE_CAPTURE_IDLE_SECONDS; _should_break
\* is looked at after each yield.
StreamBreak ==
  /\ Goto("stream", "ended")
  /\ stop \/ queue # <<>>
  /\ died' = FALSE
  /\ ThreadOnly /\ UNCHANGED <<conns, needs, backoff, kickBackoff, kicks, queue, cur, fut, ran, faults>>

\* A punch whose handler raises re-arms the catch-up; the stream goes on.
PunchFails ==
  /\ pc = "stream" /\ Fault
  /\ needs' = TRUE
  /\ ThreadOnly /\ UNCHANGED <<pc, conns, died, backoff, kickBackoff, kicks, queue, cur, fut, ran>>

\* live_capture raises: _record_stream_kick.  "soon": the last eviction is
\* less than _KICK_CONSECUTIVE_WINDOW_SECONDS ago.
StreamDies(soon) ==
  /\ Goto("stream", "ended") /\ Fault
  /\ died' = TRUE /\ needs' = TRUE
  /\ soon => kicks > 0
  /\ kicks' = kicks + 1
  /\ kickBackoff' = IF soon THEN Doubled(kickBackoff, MaxKickBackoff) ELSE MinKickBackoff
  /\ ThreadOnly /\ UNCHANGED <<conns, backoff, queue, cur, fut, ran>>

\* Mutant: the stream's connection stays open.
StreamEndedOpen ==
  /\ pc = "ended"
  /\ pc' = IF stop THEN "exited"
           ELSE IF died /\ queue = <<>> THEN "kickwait" ELSE "opscheck"
  /\ ThreadOnly /\ UNCHANGED <<conns, thread, queue, cur, fut, ran, faults>>

\* The disconnect, the shutdown check and the choice whether to back off.
StreamEnded ==
  /\ pc = "ended"
  /\ conns' = conns \ {"stream"}
  /\ pc' = IF stop THEN "exited"
           ELSE IF died /\ queue = <<>> THEN "kickwait" ELSE "opscheck"
  /\ ThreadOnly /\ UNCHANGED <<thread, queue, cur, fut, ran, faults>>

\* _shutdown.wait(_kick_backoff).
KickWait ==
  /\ pc = "kickwait"
  /\ pc' = IF stop THEN "exited" ELSE "opscheck"
  /\ ThreadOnly /\ UNCHANGED <<conns, thread, queue, cur, fut, ran, faults>>

\* Is there an op?  Then a pause of 1 s before the second connection.
OpsCheck ==
  /\ pc = "opscheck"
  /\ pc' = IF queue = <<>> THEN "top" ELSE "opsconnect"
  /\ ThreadOnly /\ UNCHANGED <<conns, thread, queue, cur, fut, ran, faults>>

\* A refused ops connection keeps the queue.
ConnectOps ==
  /\ pc = "opsconnect"
  /\ \/ pc' = "drain" /\ conns' = conns \cup {"ops"} /\ UNCHANGED <<needs, faults>>
     \/ pc' = "top" /\ needs' = TRUE /\ Fault /\ UNCHANGED conns
  /\ ThreadOnly /\ UNCHANGED <<died, backoff, kickBackoff, kicks, queue, cur, fut, ran>>

\* _drain_op_queue: get_nowait.
NextOp ==
  /\ pc = "drain"
  /\ IF queue = <<>>
     THEN pc' = "top" /\ conns' = conns \ {"ops"} /\ UNCHANGED <<queue, cur>>
     ELSE pc' = "run" /\ cur' = Head(queue) /\ queue' = Tail(queue) /\ UNCHANGED conns
  /\ ThreadOnly /\ UNCHANGED <<thread, fut, ran, faults>>

\* Mutant: an op that raises goes back to the queue.
RunOpRequeued ==
  /\ Goto("run", "drain")
  /\ \/ fut' = [fut EXCEPT ![cur] = "result"] /\ UNCHANGED <<queue, faults>>
     \/ queue' = Append(queue, cur) /\ Fault /\ UNCHANGED fut
  /\ ran' = Append(ran, cur)
  /\ cur' = None
  /\ ThreadOnly /\ UNCHANGED <<conns, thread>>

\* op(conn) and the resolution of its future, whether or not its caller still
\* waits.
RunOp ==
  /\ Goto("run", "drain")
  /\ \/ fut' = [fut EXCEPT ![cur] = "result"] /\ UNCHANGED faults
     \/ fut' = [fut EXCEPT ![cur] = "error"] /\ Fault
  /\ ran' = Append(ran, cur)
  /\ cur' = None
  /\ ThreadOnly /\ UNCHANGED <<conns, thread, queue>>

-----------------------------------------------------------------------------
CallerStep(o) == Put(o) \/ Return(o) \/ OneShotConnect(o) \/ OneShotRun(o)

\* The steps the thread takes on its own account, without a fault.
ThreadStep ==
  \/ Grace \/ Leave \/ ConnectStream \/ FailQueued \/ FailedAll \/ Backoff \/ CatchUp
  \/ StreamBreak \/ StreamEnded \/ KickWait \/ OpsCheck \/ ConnectOps \/ NextOp \/ RunOp

Next ==
  \/ \E o \in Ops : Submit(o) \/ CallerStep(o)
  \/ Shutdown
  \/ ThreadStep \/ PunchFails \/ \E soon \in BOOLEAN : StreamDies(soon)

Spec == Init /\ [][Next]_vars

\* The thread runs; it is the only one.  A caller between its two reads of
\* submit() goes on.  Nothing obliges anyone to submit or to shut down.
Fairness == WF_vars(ThreadStep) /\ \A o \in Ops : WF_vars(CallerStep(o))

FairSpec == Spec /\ Fairness

-----------------------------------------------------------------------------
(* Properties. *)

TypeOK ==
  /\ started \in BOOLEAN /\ stop \in BOOLEAN /\ pc \in Pcs
  /\ conns \subseteq {"stream", "ops"} \cup Ops
  /\ needs \in BOOLEAN /\ died \in BOOLEAN
  /\ backoff \in MinBackoff .. MaxBackoff
  /\ kickBackoff \in MinKickBackoff .. MaxKickBackoff
  /\ kicks \in 0 .. MaxFaults
  /\ queue \in Seq(Ops) /\ cur \in Ops \cup {None}
  /\ call \in [Ops -> Calls] /\ fut \in [Ops -> {"none", "result", "error"}]
  /\ ran \in Seq(Ops) /\ faults \in 0 .. MaxFaults

\* The refinement: the op the thread is running is still pending.
Service ==
  INSTANCE OpService WITH pending <- (IF cur = None THEN queue ELSE <<cur>> \o queue)

\* Through evictions, refused connections, callers that gave up and a shutdown
\* in the middle, submit() keeps what OpService promises: ops run in the order
\* they were accepted, none twice, and none after its caller was told that the
\* reader could not be reached.
ServesOps == Service!Spec

\* As long as no shutdown has been requested, this process holds at most one
\* connection to the reader: the ops phase, the stream and the callers never
\* overlap.
OneSessionBeforeShutdown == ~stop => Cardinality(conns) <= 1

\* The same, with the types: no back-off leaves its range.
SessionsAreExclusive == TypeOK /\ OneSessionBeforeShutdown

\* Unless the service is shut down, an accepted op is answered: it breaks the
\* stream, survives refused ops connections and is not forgotten in a back-off.
AcceptedIsAnswered == \A o \in Ops : (call[o] = "waiting") ~> (fut[o] # "none" \/ stop)

\* A shutdown ends the thread, from whatever wait or phase it is in.
ShutdownEndsThread == stop ~> (pc = "exited")

=============================================================================
