--------------------------- MODULE ConnectionManager ---------------------------
(***************************************************************************)
(* The WebSocket registry of app/main_unified.py: connect, disconnect and  *)
(* broadcast of ConnectionManager, with the endpoint /ws that calls them.  *)
(*                                                                         *)
(* All of it runs on one event loop, so code between two awaits is one     *)
(* step.  broadcast() awaits every send and iterates the live list: Python *)
(* keeps an index, and looks at the list again for every next element.     *)
(***************************************************************************)
EXTENDS Integers, Sequences, FiniteSets

CONSTANTS
  Clients,       \* WebSocket objects; each connects once
  Broadcasters   \* coroutines that broadcast: the import job, punches, QR check-ins

ASSUME ManagerAssumption == IsFiniteSet(Clients) /\ Clients # {}

VARIABLES
  active,   \* active_connections
  socket,   \* per client: "new", "open", "closed"
  endpoint, \* per client: "none", "serving", "gone"
  task      \* per broadcaster, the local state of its broadcast()

vars == <<active, socket, endpoint, task>>

\* index: of the next element; current: the client a send is awaited for;
\* failed: the list "disconnected".  sent, due and lost are history: who has
\* got the message, who was registered when it started and has stayed, and
\* whom the list has lost since.
NoTask == [pc |-> "idle", index |-> 1, current |-> {}, failed |-> <<>>,
           sent |-> <<>>, due |-> {}, lost |-> {}]

Init ==
  /\ active = <<>>
  /\ socket = [c \in Clients |-> "new"]
  /\ endpoint = [c \in Clients |-> "none"]
  /\ task = [b \in Broadcasters |-> NoTask]

Elements(s) == {s[i] : i \in DOMAIN s}
Registered == Elements(active)

\* list.remove of the clients of D that are registered: the others keep their
\* order, and place n now has what was at place at[n].
Unregister(D) ==
  LET kept == {i \in DOMAIN active : active[i] \notin D}
  IN \E at \in [1 .. Cardinality(kept) -> kept] :
       /\ \A i, j \in DOMAIN at : i < j => at[i] < at[j]
       /\ active' = [n \in DOMAIN at |-> active[at[n]]]

-----------------------------------------------------------------------------
(* The endpoint. *)

\* Mutant: the newest client first.
ConnectInFront(c) ==
  /\ socket[c] = "new"
  /\ socket' = [socket EXCEPT ![c] = "open"]
  /\ endpoint' = [endpoint EXCEPT ![c] = "serving"]
  /\ active' = <<c>> \o active
  /\ UNCHANGED task

\* accept(), then the append.
Connect(c) ==
  /\ socket[c] = "new"
  /\ socket' = [socket EXCEPT ![c] = "open"]
  /\ endpoint' = [endpoint EXCEPT ![c] = "serving"]
  /\ active' = Append(active, c)
  /\ UNCHANGED task

\* The browser goes away; nobody here knows yet.
PeerCloses(c) ==
  /\ socket[c] = "open"
  /\ socket' = [socket EXCEPT ![c] = "closed"]
  /\ UNCHANGED <<active, endpoint, task>>

\* What losing the clients of L means for a broadcast under way.
Loses(t, L) == [t EXCEPT !.due = @ \ L, !.lost = @ \cup (L \cap Registered)]
Lost(L) == [b \in Broadcasters |-> Loses(task[b], L)]

\* receive_text raises (the peer left, or a message that cannot be handled):
\* manager.disconnect.  remove() of an absent client raises out of the
\* handler, which ends all the same.
EndpointEnds(c) ==
  /\ endpoint[c] = "serving"
  /\ endpoint' = [endpoint EXCEPT ![c] = "gone"]
  /\ socket' = [socket EXCEPT ![c] = "closed"]
  /\ Unregister({c})
  /\ task' = Lost({c})

-----------------------------------------------------------------------------
(* broadcast(). *)

\* What the steps of the coroutine do to its locals.
Begun(D) == [NoTask EXCEPT !.pc = "loop", !.due = D]
Picked(t, c) == [t EXCEPT !.pc = "sending", !.index = @ + 1, !.current = {c}]
Delivered(t, c) == [t EXCEPT !.pc = "loop", !.current = {}, !.sent = Append(@, c)]
Refused(t, c) == [t EXCEPT !.pc = "loop", !.current = {}, !.failed = Append(@, c)]

Start(b) ==
  /\ task[b].pc = "idle" /\ active # <<>>
  /\ task' = [task EXCEPT ![b] = Begun({c \in Registered : socket[c] = "open"})]
  /\ UNCHANGED <<active, socket, endpoint>>

\* The loop asks for its next element and starts to send.
Pick(b) ==
  /\ task[b].pc = "loop" /\ task[b].index <= Len(active)
  /\ task' = [task EXCEPT ![b] = Picked(task[b], active[task[b].index])]
  /\ UNCHANGED <<active, socket, endpoint>>

\* send_json returns or raises.  To a closed socket it can do either.
SendReturns(b) ==
  /\ task[b].pc = "sending"
  /\ \E c \in task[b].current :
       \/ task' = [task EXCEPT ![b] = Delivered(task[b], c)]
       \/ socket[c] = "closed" /\ task' = [task EXCEPT ![b] = Refused(task[b], c)]
  /\ UNCHANGED <<active, socket, endpoint>>

\* The failed clients that are removed: the first one that is not registered
\* any more raises ValueError out of broadcast().
Removable(failed) ==
  {failed[i] : i \in {n \in DOMAIN failed : \A k \in 1 .. n : failed[k] \in Registered}}

\* Mutant: the clean-up drops the oldest clients, one per failure.
CleanUpByPosition(b) ==
  /\ task[b].pc = "loop" /\ task[b].index > Len(active)
  /\ active' = SubSeq(active, Cardinality(Removable(task[b].failed)) + 1, Len(active))
  /\ task' = [task EXCEPT ![b] = NoTask]
  /\ UNCHANGED <<socket, endpoint>>

\* The loop is over: the clean-up, without an await.
CleanUp(b) ==
  /\ task[b].pc = "loop" /\ task[b].index > Len(active)
  /\ Unregister(Removable(task[b].failed))
  /\ task' = [Lost(Removable(task[b].failed)) EXCEPT ![b] = NoTask]
  /\ UNCHANGED <<socket, endpoint>>

-----------------------------------------------------------------------------
Broadcast(b) == Start(b) \/ Pick(b) \/ SendReturns(b) \/ CleanUp(b)

Next ==
  \/ \E c \in Clients : Connect(c) \/ PeerCloses(c) \/ EndpointEnds(c)
  \/ \E b \in Broadcasters : Broadcast(b)

Spec == Init /\ [][Next]_vars

-----------------------------------------------------------------------------
(* Properties. *)

Tasks ==
  [pc : {"idle", "loop", "sending"}, index : Nat \ {0}, current : SUBSET Clients,
   failed : Seq(Clients), sent : Seq(Clients), due : SUBSET Clients, lost : SUBSET Clients]

TypeOK ==
  /\ active \in Seq(Clients)
  /\ socket \in [Clients -> {"new", "open", "closed"}]
  /\ endpoint \in [Clients -> {"none", "serving", "gone"}]
  /\ task \in [Broadcasters -> Tasks]
  /\ \A b \in Broadcasters : \A c, d \in task[b].current : c = d

\* A dashboard gets one broadcast once, however the list shrinks and grows
\* under the loop's index while other broadcasts and endpoints touch it.
NobodyGetsItTwice ==
  \A b \in Broadcasters : \A i, j \in DOMAIN task[b].sent :
    task[b].sent[i] = task[b].sent[j] => i = j

\* The clean-up after failed sends never costs a healthy client its place: a
\* client that is served on an open socket is registered.
ServedIsRegistered ==
  \A c \in Clients : endpoint[c] = "serving" /\ socket[c] = "open" => c \in Registered

\* When the loop ends and nobody left during it, everybody who was there when
\* it began and is still there has the message.
CompleteUnlessSomebodyLeft ==
  \A b \in Broadcasters :
    task[b].pc = "loop" /\ task[b].index > Len(active) /\ task[b].lost = {} =>
      \A c \in task[b].due : socket[c] = "open" => c \in Elements(task[b].sent)

\* A client whose endpoint has ended does not stay in the registry, nor come
\* back to it, also when the clean-up of a broadcast was cut short by a
\* ValueError: no later broadcast sends to it.
GoneIsForgotten == \A c \in Clients : endpoint[c] = "gone" => c \notin Registered

\* The registry has the served clients and nobody who is gone, and its types.
RegistryMatchesEndpoints == TypeOK /\ ServedIsRegistered /\ GoneIsForgotten

\* A broadcast reaches whom it is due to, once.
BroadcastsAreExact == NobodyGetsItTwice /\ CompleteUnlessSomebodyLeft

=============================================================================
