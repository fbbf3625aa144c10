----------------------------- MODULE SlackNotifier -----------------------------
(***************************************************************************)
(* app/services/slack_notifier.py: which results of the 5-minute reader    *)
(* check reach Slack.  Every region under _lock is one step; the post to   *)
(* the webhook between two regions is another step's time, and succeeds or *)
(* fails as far as the caller knows: a post whose answer timed out failed, *)
(* though Slack may have taken it.  The pattern is "commit before send":   *)
(* the state is written as if the message had gone out, and rolled back if *)
(* the post failed and no other commit came in between (_commit_gen).      *)
(***************************************************************************)
EXTENDS Integers, Sequences, FiniteSets

CONSTANTS
  Callers,       \* threads inside the notifier; the scheduler has one
  PageAfter,     \* page_after_failures
  Suppress,      \* failure_suppress_seconds
  NoteSuppress,  \* degraded_suppress_seconds
  DayLength, HeartbeatHour,
  MaxTime, MaxCalls

ASSUME NotifierAssumption ==
  /\ PageAfter \in Nat \ {0} /\ Suppress \in Nat /\ NoteSuppress \in Nat
  /\ DayLength \in Nat \ {0} /\ HeartbeatHour \in 0 .. DayLength - 1
  /\ MaxTime \in Nat /\ MaxCalls \in Nat

VARIABLES
  now,
  lastSuccess,     \* _last_success: "none", "ok", "bad"
  heartbeatDate,   \* _last_heartbeat_date
  lastFailureAt,   \* _last_failure_at
  failures,        \* _consecutive_failures
  paged,           \* _paged
  lastDegradedAt,  \* _last_degraded_at
  gen,             \* _commit_gen
  call,            \* per caller, the locals of its call
  calls,           \* bound on calls
  streak,          \* history: failed checks since the last good one
  good,            \* history: good checks so far
  log,             \* history: messages Slack took, with their decision's time, good checks
                   \* and commit, and whether the answer came back
  repageLost,      \* history: a second page for an outage failed
  overlapped       \* history: two callers have been inside at once

state == <<lastSuccess, heartbeatDate, lastFailureAt, failures, paged, lastDegradedAt, gen>>
history == <<streak, good, log, repageLost, overlapped>>
notifierVars == <<now, state, call, calls, history>>

Never == -1
Local(pc, failed, g, old) ==
  [pc |-> pc, failed |-> failed, gen |-> g, old |-> old, at |-> now, good |-> good]
NoCall == [pc |-> "idle", failed |-> 0, gen |-> 0, old |-> Never, at |-> 0, good |-> 0]

Today == now \div DayLength
Hour == now % DayLength

NotifierInit ==
  /\ now = 0
  /\ lastSuccess = "none" /\ heartbeatDate = Never /\ lastFailureAt = Never
  /\ failures = 0 /\ paged = FALSE /\ lastDegradedAt = Never /\ gen = 0
  /\ call = [c \in Callers |-> NoCall] /\ calls = 0
  /\ streak = 0 /\ good = 0 /\ log = <<>> /\ repageLost = FALSE /\ overlapped = FALSE

Tick == now < MaxTime /\ now' = now + 1 /\ UNCHANGED <<state, call, calls, history>>

Quiet == \A c \in Callers : call[c].pc = "idle"
Enters(c) ==
  /\ call[c].pc = "idle" /\ calls < MaxCalls
  /\ calls' = calls + 1 /\ overlapped' = (overlapped \/ ~Quiet)
Becomes(c, local) == call' = [call EXCEPT ![c] = local]

-----------------------------------------------------------------------------
(* Decisions, under the lock. *)

\* Mutants: a paged outage is paged for at every check; one check too early.
ShouldPageAlways == failures + 1 >= PageAfter
ShouldPageEarly ==
  /\ failures + 2 >= PageAfter
  /\ ~paged \/ (lastFailureAt # Never /\ now - lastFailureAt >= Suppress)

\* The streak is long enough, and this outage is unpaged or its page is old.
ShouldPage ==
  /\ failures + 1 >= PageAfter
  /\ ~paged \/ (lastFailureAt # Never /\ now - lastFailureAt >= Suppress)

NotifyFailure(c) ==
  /\ Enters(c)
  /\ failures' = failures + 1 /\ streak' = streak + 1
  /\ lastSuccess' = "bad"
  /\ IF ShouldPage
     THEN /\ paged' = TRUE /\ lastFailureAt' = now /\ gen' = gen + 1
          /\ Becomes(c, Local("page", failures + 1, gen + 1, Never))
     ELSE UNCHANGED <<paged, lastFailureAt, gen, call>>
  /\ UNCHANGED <<now, heartbeatDate, lastDegradedAt, good, log, repageLost>>

\* _handle_success, first region.
NotifySuccess(c) ==
  /\ Enters(c)
  /\ streak' = 0 /\ good' = good + 1
  /\ IF paged
     THEN /\ paged' = FALSE /\ failures' = 0 /\ gen' = gen + 1
          /\ Becomes(c, Local("recovery", failures, gen + 1, Never))
     ELSE /\ Becomes(c, Local(IF failures > 0 THEN "blip" ELSE "normal", failures, gen, Never))
          /\ UNCHANGED <<paged, failures, gen>>
  /\ UNCHANGED <<now, lastSuccess, heartbeatDate, lastFailureAt, lastDegradedAt, log, repageLost>>

\* Its second region, for a streak nobody was paged for.
ForgetBlip(c) ==
  /\ call[c].pc = "blip"
  /\ failures' = 0
  /\ Becomes(c, [call[c] EXCEPT !.pc = "normal"])
  /\ UNCHANGED <<now, lastSuccess, heartbeatDate, lastFailureAt, paged, lastDegradedAt, gen,
                 calls, history>>

HeartbeatDue == lastSuccess # "none" /\ Hour = HeartbeatHour /\ heartbeatDate # Today

\* _handle_normal_success: the start-up message, the heartbeat or nothing.
NormalSuccess(c) ==
  /\ call[c].pc = "normal"
  /\ lastSuccess' = "ok"
  /\ \/ /\ lastSuccess = "none"
        /\ gen' = gen + 1 /\ UNCHANGED heartbeatDate
        /\ Becomes(c, Local("startup", 0, gen + 1, Never))
     \/ /\ HeartbeatDue
        /\ gen' = gen + 1 /\ heartbeatDate' = Today
        /\ Becomes(c, Local("heartbeat", 0, gen + 1, heartbeatDate))
     \/ /\ lastSuccess # "none" /\ ~HeartbeatDue
        /\ Becomes(c, NoCall) /\ UNCHANGED <<gen, heartbeatDate>>
  /\ UNCHANGED <<now, lastFailureAt, failures, paged, lastDegradedAt, calls, history>>

NoteAllowed == lastDegradedAt = Never \/ now - lastDegradedAt >= NoteSuppress

NotifyDegraded(c) ==
  /\ Enters(c)
  /\ IF NoteAllowed
     THEN /\ lastDegradedAt' = now /\ gen' = gen + 1
          /\ Becomes(c, Local("note", 0, gen + 1, Never))
     ELSE UNCHANGED <<lastDegradedAt, gen, call>>
  /\ UNCHANGED <<now, lastSuccess, heartbeatDate, lastFailureAt, failures, paged,
                 streak, good, log, repageLost>>

-----------------------------------------------------------------------------
(* The post returns. *)

Kinds == {"page", "recovery", "startup", "heartbeat", "note"}

\* What Slack has taken of a call.
Message(l, answered) ==
  [kind |-> l.pc, at |-> l.at, good |-> l.good, gen |-> l.gen, answered |-> answered]

PostTaken(c) ==
  /\ call[c].pc \in Kinds
  /\ log' = Append(log, Message(call[c], TRUE))
  /\ lastSuccess' = IF call[c].pc = "recovery" THEN "ok" ELSE lastSuccess
  /\ Becomes(c, NoCall)
  /\ UNCHANGED <<now, heartbeatDate, lastFailureAt, failures, paged, lastDegradedAt, gen,
                 calls, streak, good, repageLost, overlapped>>

\* An outage somebody was paged for and not yet told the end of, as far as
\* Slack has answered.
OpenOutage ==
  \E i \in DOMAIN log :
    /\ log[i].kind = "page" /\ log[i].answered
    /\ \A j \in i + 1 .. Len(log) : log[j].kind = "recovery" => ~log[j].answered

\* Mutant: a lost recovery message is not owed again.
PostLostUnrecovered(c) ==
  /\ call[c].pc \in Kinds
  /\ paged' = IF call[c].pc = "page" /\ gen = call[c].gen THEN FALSE ELSE paged
  /\ Becomes(c, NoCall)
  /\ UNCHANGED <<now, lastSuccess, heartbeatDate, lastFailureAt, failures, lastDegradedAt, gen,
                 calls, history>>

\* The post failed: what the decision wrote is taken back if it is still the
\* newest commit.  Slack never saw the message, or it took the message and the
\* answer timed out; _send does not tell the two apart.
PostLost(c) ==
  /\ call[c].pc \in Kinds
  /\ LET newest == gen = call[c].gen
         back(kind) == newest /\ call[c].pc = kind
     IN  /\ paged' = IF back("page") THEN FALSE ELSE IF back("recovery") THEN TRUE ELSE paged
         /\ lastFailureAt' = IF back("page") THEN Never ELSE lastFailureAt
         /\ failures' = IF back("recovery") THEN call[c].failed ELSE failures
         /\ heartbeatDate' = IF back("heartbeat") THEN call[c].old ELSE heartbeatDate
         /\ lastDegradedAt' = IF back("note") THEN Never ELSE lastDegradedAt
  /\ log' \in {log, Append(log, Message(call[c], FALSE))}
  /\ repageLost' = (repageLost \/ (call[c].pc = "page" /\ OpenOutage))
  /\ Becomes(c, NoCall)
  /\ UNCHANGED <<now, lastSuccess, gen, calls, streak, good, overlapped>>

-----------------------------------------------------------------------------
NotifierNext ==
  \/ Tick
  \/ \E c \in Callers :
       \/ NotifyFailure(c) \/ NotifySuccess(c) \/ NotifyDegraded(c)
       \/ ForgetBlip(c) \/ NormalSuccess(c)
       \/ PostTaken(c) \/ PostLost(c)

NotifierSpec == NotifierInit /\ [][NotifierNext]_notifierVars

-----------------------------------------------------------------------------
(* Properties. *)

NotifierTypes ==
  /\ now \in 0 .. MaxTime /\ lastSuccess \in {"none", "ok", "bad"}
  /\ heartbeatDate \in -1 .. MaxTime \div DayLength
  /\ lastFailureAt \in -1 .. now /\ lastDegradedAt \in -1 .. now
  /\ failures \in 0 .. MaxCalls /\ streak \in 0 .. MaxCalls /\ good \in 0 .. MaxCalls
  /\ paged \in BOOLEAN /\ repageLost \in BOOLEAN /\ overlapped \in BOOLEAN
  /\ gen \in 0 .. 2 * MaxCalls /\ calls \in 0 .. MaxCalls
  /\ call \in [Callers -> [pc : Kinds \cup {"idle", "blip", "normal"}, failed : 0 .. MaxCalls,
                           gen : 0 .. 2 * MaxCalls, old : -1 .. MaxTime \div DayLength,
                           at : 0 .. MaxTime, good : 0 .. MaxCalls]]
  /\ log \in Seq([kind : Kinds, at : 0 .. MaxTime, good : 0 .. MaxCalls,
                  gen : 0 .. 2 * MaxCalls, answered : BOOLEAN])

\* An answered message and one that was decided upon after it.
Follows(i, j, kind) ==
  /\ log[i].kind = kind /\ log[j].kind = kind
  /\ log[i].answered /\ log[i].gen < log[j].gen

\* The channel is not flooded: a page whose post was answered is followed by
\* none of the same streak of failures, no good check in between, within the
\* suppression time, also when posts overlap, fail and are taken back, and
\* whether or not the later post is answered.  A page whose answer is lost is
\* repeated at the next failed check.
PagesAreSpaced ==
  \A i, j \in DOMAIN log :
    Follows(i, j, "page") /\ log[i].good = log[j].good => log[j].at - log[i].at >= Suppress

\* The same of the "degraded" notes and of the daily heartbeat, with any
\* number of callers inside the notifier.
NotesAreSpaced ==
  \A i, j \in DOMAIN log : Follows(i, j, "note") => log[j].at - log[i].at >= NoteSuppress
OneHeartbeatADay ==
  \A i, j \in DOMAIN log :
    Follows(i, j, "heartbeat") => log[i].at \div DayLength < log[j].at \div DayLength

\* A page is decided upon only after PageAfter failed checks in a row, unless
\* an outage already paged for is still open: its recovery has not been posted
\* or Slack has not answered that it was.  Stated for callers that have come
\* one after the other, as the scheduler's job does.
PagesAreConfirmed ==
  ~overlapped => \A c \in Callers : call[c].pc = "page" => streak >= PageAfter \/ OpenOutage

\* What the roll-back of a recovery message is for: with callers one after the
\* other, an outage whose page was answered stays marked until an answer says
\* that its recovery went out, however many posts fail, unless the one that
\* failed was a second page.
RecoveryIsOwed == ~overlapped /\ Quiet /\ OpenOutage /\ ~repageLost => paged

\* What limits the messages, whatever gets lost; and the types.
ChannelIsNotFlooded == NotifierTypes /\ PagesAreSpaced /\ NotesAreSpaced /\ OneHeartbeatADay

=============================================================================
