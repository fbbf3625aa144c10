--------------------------- MODULE ChannelProofs ----------------------------
(***************************************************************************)
(* Proofs about the two channels that tell people of the reader.           *)
(* ConnectionManager, for any number of clients and of broadcasts under    *)
(* way: the registry has exactly whom it should have, and a broadcast that *)
(* iterates the live list reaches whom it is due to, once.  SlackNotifier, *)
(* for any number of callers and any suppression times: messages of a kind *)
(* stay apart, a page is confirmed and a recovery is owed, whatever posts  *)
(* are lost.                                                               *)
(***************************************************************************)
EXTENDS ConnectionManager, SlackNotifier, FiniteSetTheorems, SequenceTheorems, TLAPS

-----------------------------------------------------------------------------
(* Dashboard broadcasts: the inductive invariant. *)

Distinct(s) == \A i, j \in DOMAIN s : s[i] = s[j] => i = j

TypeInv == TypeOK

\* A client is registered once, while its endpoint serves it; only a closed
\* socket fails.
RegistryInv ==
  /\ Distinct(active)
  /\ \A c \in Clients : socket[c] = "new" <=> endpoint[c] = "none"
  /\ \A c \in Registered : endpoint[c] = "serving"
  /\ ServedIsRegistered
  /\ \A b \in Broadcasters : \A c \in Elements(task[b].failed) : socket[c] = "closed"

Started(t) == Elements(t.sent) \cup t.current
Visited(t) == Started(t) \cup Elements(t.failed)

\* Whom a broadcast has sent to stands before its index, wherever the list has
\* moved him; and while the list has lost nobody, everybody before the index
\* has been visited.
BroadcastInv(t) ==
  /\ Distinct(t.sent)
  /\ t.current \cap Elements(t.sent) = {}
  /\ t.pc # "sending" => t.current = {}
  /\ \A c \in Started(t) : endpoint[c] # "none"
  /\ \A i \in DOMAIN active : active[i] \in Started(t) => i < t.index
  /\ t.due \subseteq Registered
  /\ t.lost = {} =>
       /\ t.index <= Len(active) + 1
       /\ \A i \in DOMAIN active : i < t.index => active[i] \in Visited(t)

SendInv == \A b \in Broadcasters : BroadcastInv(task[b])

ManagerInv == TypeInv /\ RegistryInv /\ SendInv

-----------------------------------------------------------------------------
(* What the list looks like after removals. *)

\* An increasing choice of places puts nobody further back than he was; if
\* nobody is left out it is the identity.
LEMMA IncreasingPlaces ==
  ASSUME NEW m \in Nat, NEW n \in Nat, NEW at \in [1 .. m -> 1 .. n],
         \A i, j \in 1 .. m : i < j => at[i] < at[j]
  PROVE  /\ \A k \in 1 .. m : k <= at[k]
         /\ m = n => \A k \in 1 .. m : at[k] = k
<1>1. ASSUME NEW k \in 1 .. m
      PROVE  k <= at[k]
  <2> DEFINE g == [i \in 1 .. k |-> at[i]]
  <2>1. at[k] \in 1 .. n /\ k \in Nat
    OBVIOUS
  <2>2. \A i \in 1 .. k : at[i] \in 1 .. at[k]
    BY <2>1
  <2>3. \A i, j \in 1 .. k : at[i] = at[j] => i = j
    BY <2>1
  <2>4. g \in Injection(1 .. k, 1 .. at[k])
    BY <2>2, <2>3 DEF Injection, IsInjective
  <2>5. /\ IsFiniteSet(1 .. at[k]) /\ Cardinality(1 .. at[k]) = at[k]
        /\ Cardinality(1 .. k) = k
    <3>1. at[k] \in Nat /\ k \in Nat
      BY <2>1
    <3>. QED
      BY <3>1, FS_Interval
  <2>6. Cardinality(1 .. k) <= Cardinality(1 .. at[k])
    BY <2>4, <2>5, FS_Injection
  <2>. QED
    BY <2>5, <2>6
<1>2. ASSUME m = n, NEW k \in 1 .. m
      PROVE  at[k] = k
  <2> DEFINE g == [i \in k .. m |-> at[i]]
  <2>1. at[k] \in 1 .. m /\ k \in 1 .. m
    BY <1>2
  <2>2. ASSUME NEW i \in k .. m PROVE at[i] \in at[k] .. m
    <3>1. i \in 1 .. m /\ at[i] \in 1 .. m
      BY <1>2
    <3>2. CASE i = k
      BY <2>1, <3>2
    <3>3. CASE i # k
      <4>1. k < i
        BY <1>2, <3>3
      <4>. QED
        BY <2>1, <3>1, <4>1
    <3>. QED
      BY <3>2, <3>3
  <2>3. ASSUME NEW i \in k .. m, NEW j \in k .. m, at[i] = at[j] PROVE i = j
    <3>1. i \in 1 .. m /\ j \in 1 .. m /\ at[i] \in 1 .. m /\ at[j] \in 1 .. m
      BY <1>2
    <3>2. ~(i < j) /\ ~(j < i)
      BY <2>3, <3>1
    <3>. QED
      BY <3>1, <3>2
  <2>4. g \in Injection(k .. m, at[k] .. m)
    BY <2>2, <2>3 DEF Injection, IsInjective
  <2>5. /\ IsFiniteSet(at[k] .. m) /\ Cardinality(at[k] .. m) = m - at[k] + 1
        /\ Cardinality(k .. m) = m - k + 1
    <3>1. at[k] \in Int /\ k \in Int /\ m \in Int /\ ~(at[k] > m) /\ ~(k > m)
      BY <2>1
    <3>. QED
      BY <3>1, FS_Interval
  <2>6. Cardinality(k .. m) <= Cardinality(at[k] .. m)
    BY <2>4, <2>5, FS_Injection
  <2>7. at[k] <= k
    BY <2>1, <2>5, <2>6
  <2>. QED
    BY <1>1, <2>1, <2>7
<1>. QED
  BY <1>1, <1>2

LEMMA Unregistering ==
  ASSUME active \in Seq(Clients), Distinct(active), NEW D, Unregister(D)
  PROVE  /\ active' \in Seq(Clients) /\ Distinct(active')
         /\ Elements(active') = Elements(active) \ D
         /\ \A n \in DOMAIN active' : \E i \in DOMAIN active : n <= i /\ active[i] = active'[n]
         /\ D \cap Elements(active) = {} => active' = active
<1> DEFINE kept == {i \in DOMAIN active : active[i] \notin D}
           m == Cardinality(kept)
<1>1. Len(active) \in Nat /\ DOMAIN active = 1 .. Len(active) /\ \A i \in DOMAIN active : active[i] \in Clients
  OBVIOUS
<1>2. IsFiniteSet(1 .. Len(active)) /\ Cardinality(1 .. Len(active)) = Len(active)
  BY <1>1, FS_Interval
<1>3. IsFiniteSet(kept) /\ m \in Nat
  BY <1>1, <1>2, FS_Subset, FS_CardinalityType
<1>4. PICK at \in [1 .. m -> kept] :
        /\ \A i, j \in DOMAIN at : i < j => at[i] < at[j]
        /\ active' = [n \in DOMAIN at |-> active[at[n]]]
  BY DEF Unregister
<1> DEFINE s == active'
<1>5. DOMAIN at = 1 .. m /\ DOMAIN s = 1 .. m /\ \A n \in 1 .. m : s[n] = active[at[n]]
  BY <1>4
<1>6. \A n \in 1 .. m : at[n] \in DOMAIN active /\ active[at[n]] \notin D
  BY <1>4
<1>7. s \in Seq(Clients)
  <2>1. s \in [1 .. m -> Clients]
    BY <1>1, <1>4, <1>6
  <2>. QED
    BY <1>3, <2>1, SeqDef, Zenon
<1>8. at \in [1 .. m -> 1 .. Len(active)] /\ \A i, j \in 1 .. m : i < j => at[i] < at[j]
  BY <1>1, <1>4, <1>5
<1> HIDE DEF kept, m
<1>9. /\ \A k \in 1 .. m : k <= at[k]
      /\ m = Len(active) => \A k \in 1 .. m : at[k] = k
  BY <1>1, <1>3, <1>8, IncreasingPlaces
<1>10. \A i, j \in 1 .. m : at[i] = at[j] => i = j
  <2>1. \A i, j \in 1 .. m : at[i] \in Int /\ (i < j \/ j < i \/ i = j)
    BY <1>1, <1>3, <1>8
  <2>. QED
    BY <1>8, <2>1
<1>11. Distinct(s)
  BY <1>5, <1>6, <1>10 DEF Distinct
<1>12. at \in Surjection(1 .. m, kept)
  <2>1. at \in Injection(1 .. m, kept)
    BY <1>4, <1>10 DEF Injection, IsInjective
  <2>2. IsFiniteSet(1 .. m) /\ Cardinality(1 .. m) = Cardinality(kept)
    BY <1>3, FS_Interval DEF m
  <2>. QED
    BY <1>3, <2>1, <2>2, FS_Injection
<1>13. Elements(s) = Elements(active) \ D
  <2>1. \A i \in kept : \E n \in 1 .. m : at[n] = i
    BY <1>12 DEF Surjection
  <2>. QED
    BY <1>5, <1>6, <2>1 DEF Elements, kept
<1>14. D \cap Elements(active) = {} => s = active
  <2>1. SUFFICES ASSUME D \cap Elements(active) = {} PROVE s = active
    OBVIOUS
  <2>2. kept = 1 .. Len(active)
    BY <1>1, <2>1 DEF kept, Elements
  <2>3. m = Len(active)
    BY <1>2, <2>2 DEF m
  <2>4. \A k \in 1 .. m : s[k] = active[k]
    BY <1>5, <1>9, <2>3
  <2>5. Len(s) = m
    BY <1>3, <1>5, <1>7
  <2>. QED
    BY <1>1, <1>5, <1>7, <2>3, <2>4, <2>5
<1>. QED
  BY <1>1, <1>5, <1>6, <1>7, <1>9, <1>11, <1>13, <1>14

-----------------------------------------------------------------------------
(* The record of a broadcast under way. *)

LEMMA TaskFields ==
  ASSUME NEW t \in Tasks
  PROVE  /\ t.pc \in {"idle", "loop", "sending"} /\ t.index \in Nat \ {0}
         /\ t.current \in SUBSET Clients /\ t.failed \in Seq(Clients) /\ t.sent \in Seq(Clients)
         /\ t.due \in SUBSET Clients /\ t.lost \in SUBSET Clients
  BY DEF Tasks

LEMMA NoTaskFields ==
  /\ NoTask \in Tasks
  /\ NoTask.pc = "idle" /\ NoTask.index = 1 /\ NoTask.current = {}
  /\ NoTask.failed = <<>> /\ NoTask.sent = <<>> /\ NoTask.due = {} /\ NoTask.lost = {}
  BY DEF NoTask, Tasks

LEMMA LosesFields ==
  ASSUME active \in Seq(Clients), NEW t \in Tasks, NEW L
  PROVE  /\ Loses(t, L) \in Tasks
         /\ Loses(t, L).pc = t.pc /\ Loses(t, L).index = t.index
         /\ Loses(t, L).current = t.current /\ Loses(t, L).failed = t.failed
         /\ Loses(t, L).sent = t.sent
         /\ Loses(t, L).due = t.due \ L /\ Loses(t, L).lost = t.lost \cup (L \cap Registered)
<1>1. L \cap Registered \in SUBSET Clients
  BY DEF Registered, Elements
<1> DEFINE M == L \cap Registered
<1> HIDE DEF M
<1>2. M \in SUBSET Clients
  BY <1>1 DEF M
<1>3. Loses(t, L) = [t EXCEPT !.due = @ \ L, !.lost = @ \cup M]
  BY DEF Loses, M
<1>4. t.due \ L \in SUBSET Clients /\ t.lost \cup M \in SUBSET Clients
  BY <1>2 DEF Tasks
<1>5. Loses(t, L) \in Tasks
  BY <1>3, <1>4 DEF Tasks
<1>6. /\ Loses(t, L).pc = t.pc /\ Loses(t, L).index = t.index
      /\ Loses(t, L).current = t.current /\ Loses(t, L).failed = t.failed
      /\ Loses(t, L).sent = t.sent
      /\ Loses(t, L).due = t.due \ L /\ Loses(t, L).lost = t.lost \cup M
  BY <1>3 DEF Tasks
<1>. QED
  BY <1>5, <1>6 DEF M

\* A broadcast under way whose list loses the clients of L.
LEMMA BroadcastLoses ==
  ASSUME active \in Seq(Clients), Distinct(active), NEW L, Unregister(L),
         endpoint \in [Clients -> {"none", "serving", "gone"}],
         \A c \in Clients : endpoint[c] # "none" => endpoint'[c] # "none",
         NEW t \in Tasks, BroadcastInv(t), NEW e \in Tasks, e = Loses(t, L)
  PROVE  BroadcastInv(e)'
<1>1. /\ e.pc = t.pc /\ e.index = t.index /\ e.current = t.current /\ e.failed = t.failed
      /\ e.sent = t.sent /\ e.due = t.due \ L /\ e.lost = t.lost \cup (L \cap Registered)
  BY LosesFields
<1>2. /\ active' \in Seq(Clients) /\ Registered' = Registered \ L
      /\ \A n \in DOMAIN active' : \E i \in DOMAIN active : n <= i /\ active[i] = active'[n]
      /\ L \cap Registered = {} => active' = active
  BY Unregistering DEF Registered
<1>3. Started(e) = Started(t) /\ Visited(e) = Visited(t) /\ Started(t) \subseteq Clients
  BY <1>1, TaskFields DEF Started, Visited, Elements
<1>4. /\ Distinct(e.sent) /\ e.current \cap Elements(e.sent) = {}
      /\ e.pc # "sending" => e.current = {}
  BY <1>1 DEF BroadcastInv
<1>5. \A c \in Started(e) : endpoint'[c] # "none"
  BY <1>3 DEF BroadcastInv
<1>6. \A n \in DOMAIN active' : active'[n] \in Started(e) => n < e.index
  <2>1. \A n \in DOMAIN active' : n \in Int
    BY <1>2
  <2>2. \A i \in DOMAIN active : i \in Int
    OBVIOUS
  <2>3. e.index \in Int
    BY TaskFields
  <2>. QED
    BY <1>1, <1>2, <1>3, <2>1, <2>2, <2>3 DEF BroadcastInv
<1>7. e.due \subseteq Registered'
  BY <1>1, <1>2 DEF BroadcastInv
<1>8. e.lost = {} => /\ e.index <= Len(active') + 1
                     /\ \A i \in DOMAIN active' : i < e.index => active'[i] \in Visited(e)
  BY <1>1, <1>2, <1>3 DEF BroadcastInv
<1>. QED
  BY <1>4, <1>5, <1>6, <1>7, <1>8 DEF BroadcastInv, Registered, Started, Visited

\* A broadcast under way whose list grows by a client that is new.
LEMMA BroadcastGrows ==
  ASSUME active \in Seq(Clients), NEW c \in Clients, active' = Append(active, c),
         endpoint[c] = "none", NEW t \in Tasks, BroadcastInv(t),
         \A d \in Clients : endpoint[d] # "none" => endpoint'[d] # "none"
  PROVE  BroadcastInv(t)'
<1>1. Started(t) \subseteq Clients /\ t.index \in Nat
  BY TaskFields DEF Started, Elements
<1>2. /\ Len(active') = Len(active) + 1 /\ Len(active) \in Nat
      /\ \A i \in DOMAIN active' : \/ i \in DOMAIN active /\ active'[i] = active[i]
                                   \/ i = Len(active) + 1 /\ active'[i] = c
      /\ \A i \in DOMAIN active : i \in DOMAIN active' /\ active'[i] = active[i]
  OBVIOUS
<1>3. Registered \subseteq Registered'
  BY <1>2 DEF Registered, Elements
<1>4. c \notin Started(t)
  BY DEF BroadcastInv
<1>5. \A d \in Started(t) : endpoint'[d] # "none"
  BY <1>1 DEF BroadcastInv
<1>6. \A i \in DOMAIN active' : active'[i] \in Started(t) => i < t.index
  BY <1>2, <1>4 DEF BroadcastInv
<1>7. t.lost = {} => /\ t.index <= Len(active') + 1
                     /\ \A i \in DOMAIN active' : i < t.index => active'[i] \in Visited(t)
  BY <1>1, <1>2 DEF BroadcastInv
<1>. QED
  BY <1>3, <1>5, <1>6, <1>7 DEF BroadcastInv, Started, Visited

LEMMA BroadcastFrame ==
  ASSUME active' = active, NEW t, BroadcastInv(t), Started(t) \subseteq Clients,
         \A d \in Clients : endpoint[d] # "none" => endpoint'[d] # "none"
  PROVE  BroadcastInv(t)'
  BY DEF BroadcastInv, Registered, Started, Visited

LEMMA BroadcastIdle ==
  ASSUME active \in Seq(Clients), NEW t, t = NoTask
  PROVE  BroadcastInv(t)
<1>1. Elements(<<>>) = {}
  BY DEF Elements
<1>2. \A i \in DOMAIN active : i \in Nat \ {0}
  OBVIOUS
<1>3. Len(active) \in Nat
  OBVIOUS
<1>. QED
  BY <1>1, <1>2, <1>3, NoTaskFields DEF BroadcastInv, Started, Visited, Distinct

\* The records after a step of the broadcast itself.
LEMMA BegunFields ==
  ASSUME NEW D \in SUBSET Clients
  PROVE  /\ Begun(D) \in Tasks
         /\ Begun(D).pc = "loop" /\ Begun(D).index = 1 /\ Begun(D).current = {}
         /\ Begun(D).failed = <<>> /\ Begun(D).sent = <<>> /\ Begun(D).due = D /\ Begun(D).lost = {}
  BY NoTaskFields DEF Begun, Tasks

LEMMA PickedFields ==
  ASSUME NEW t \in Tasks, NEW c \in Clients
  PROVE  /\ Picked(t, c) \in Tasks
         /\ Picked(t, c).pc = "sending" /\ Picked(t, c).index = t.index + 1
         /\ Picked(t, c).current = {c} /\ Picked(t, c).failed = t.failed
         /\ Picked(t, c).sent = t.sent /\ Picked(t, c).due = t.due /\ Picked(t, c).lost = t.lost
<1>1. t.index + 1 \in Nat \ {0} /\ {c} \in SUBSET Clients
  BY TaskFields
<1>. QED
  BY <1>1 DEF Picked, Tasks

LEMMA DeliveredFields ==
  ASSUME NEW t \in Tasks, NEW c \in Clients
  PROVE  /\ Delivered(t, c) \in Tasks
         /\ Delivered(t, c).pc = "loop" /\ Delivered(t, c).index = t.index
         /\ Delivered(t, c).current = {} /\ Delivered(t, c).failed = t.failed
         /\ Delivered(t, c).sent = Append(t.sent, c)
         /\ Delivered(t, c).due = t.due /\ Delivered(t, c).lost = t.lost
<1>1. Append(t.sent, c) \in Seq(Clients)
  BY TaskFields
<1>. QED
  BY <1>1 DEF Delivered, Tasks

LEMMA RefusedFields ==
  ASSUME NEW t \in Tasks, NEW c \in Clients
  PROVE  /\ Refused(t, c) \in Tasks
         /\ Refused(t, c).pc = "loop" /\ Refused(t, c).index = t.index
         /\ Refused(t, c).current = {} /\ Refused(t, c).failed = Append(t.failed, c)
         /\ Refused(t, c).sent = t.sent
         /\ Refused(t, c).due = t.due /\ Refused(t, c).lost = t.lost
<1>1. Append(t.failed, c) \in Seq(Clients)
  BY TaskFields
<1>. QED
  BY <1>1 DEF Refused, Tasks

LEMMA ElementsAppend ==
  ASSUME NEW s \in Seq(Clients), NEW c \in Clients
  PROVE  /\ Elements(Append(s, c)) = Elements(s) \cup {c}
         /\ Distinct(s) /\ c \notin Elements(s) => Distinct(Append(s, c))
<1>1. /\ \A i \in DOMAIN Append(s, c) : \/ i \in DOMAIN s /\ Append(s, c)[i] = s[i]
                                        \/ i = Len(s) + 1 /\ Append(s, c)[i] = c
      /\ \A i \in DOMAIN s : i \in DOMAIN Append(s, c)
      /\ Len(s) + 1 \in DOMAIN Append(s, c)
  OBVIOUS
<1>. QED
  BY <1>1 DEF Elements, Distinct

\* Each of them keeps the invariant of its broadcast.
LEMMA BroadcastBegins ==
  ASSUME active \in Seq(Clients), NEW D, D \subseteq Registered, NEW e, e = Begun(D)
  PROVE  BroadcastInv(e)
<1>1. D \in SUBSET Clients
  BY DEF Registered, Elements
<1>2. Elements(<<>>) = {} /\ Len(active) \in Nat /\ \A i \in DOMAIN active : i \in Nat \ {0}
  BY DEF Elements
<1>. QED
  BY <1>1, <1>2, BegunFields DEF BroadcastInv, Started, Visited, Distinct

LEMMA BroadcastPicks ==
  ASSUME active \in Seq(Clients), Distinct(active), \A c \in Registered : endpoint[c] = "serving",
         NEW t \in Tasks, BroadcastInv(t), t.pc = "loop", t.index <= Len(active),
         NEW e, e = Picked(t, active[t.index])
  PROVE  e \in Tasks /\ BroadcastInv(e)
<1> DEFINE n == t.index  c == active[n]
<1>1. n \in DOMAIN active /\ c \in Clients /\ c \in Registered
  <2>1. n \in DOMAIN active
    BY TaskFields
  <2>. QED
    BY <2>1 DEF Registered, Elements
<1>2. /\ e \in Tasks /\ e.pc = "sending" /\ e.index = n + 1 /\ e.current = {c}
      /\ e.failed = t.failed /\ e.sent = t.sent /\ e.due = t.due /\ e.lost = t.lost
  BY <1>1, PickedFields
<1>3. t.current = {} /\ Started(t) = Elements(t.sent)
  BY DEF BroadcastInv, Started
<1>4. c \notin Elements(t.sent)
  BY <1>1, <1>3 DEF BroadcastInv
<1>5. Started(e) = Started(t) \cup {c} /\ Visited(e) = Visited(t) \cup {c}
  BY <1>2, <1>3 DEF Started, Visited
<1>6. \A i \in DOMAIN active : i \in Int /\ (active[i] = c => i = n)
  BY <1>1 DEF Distinct
<1>7. n \in Int /\ Len(active) \in Int
  BY <1>1
<1> HIDE DEF n, c
<1>8. \A i \in DOMAIN active : active[i] \in Started(e) => i < e.index
  BY <1>2, <1>5, <1>6, <1>7 DEF BroadcastInv, n
<1>9. e.lost = {} => /\ e.index <= Len(active) + 1
                     /\ \A i \in DOMAIN active : i < e.index => active[i] \in Visited(e)
  <2>1. \A i \in DOMAIN active : i < n + 1 => i < n \/ i = n
    BY <1>6, <1>7
  <2>. QED
    BY <1>2, <1>5, <1>7, <2>1 DEF BroadcastInv, n, c
<1>. QED
  BY <1>1, <1>2, <1>4, <1>5, <1>8, <1>9 DEF BroadcastInv

LEMMA BroadcastDelivers ==
  ASSUME NEW t \in Tasks, BroadcastInv(t), \A c, d \in t.current : c = d,
         NEW c \in t.current, NEW e, e = Delivered(t, c) \/ e = Refused(t, c)
  PROVE  e \in Tasks /\ BroadcastInv(e)
<1>1. c \in Clients /\ t.current = {c} /\ t.sent \in Seq(Clients) /\ t.failed \in Seq(Clients)
  BY TaskFields
<1>2. /\ e \in Tasks /\ e.pc = "loop" /\ e.index = t.index /\ e.current = {}
      /\ e.due = t.due /\ e.lost = t.lost
      /\ \/ e.sent = Append(t.sent, c) /\ e.failed = t.failed
         \/ e.failed = Append(t.failed, c) /\ e.sent = t.sent
  <2>1. CASE e = Delivered(t, c)
    BY <1>1, <2>1, DeliveredFields, Zenon
  <2>2. CASE e = Refused(t, c)
    BY <1>1, <2>2, RefusedFields, Zenon
  <2>. QED
    BY <2>1, <2>2
<1>3. c \notin Elements(t.sent)
  BY DEF BroadcastInv
<1>4. /\ Distinct(e.sent)
      /\ \/ Elements(e.sent) = Elements(t.sent) \cup {c} /\ Elements(e.failed) = Elements(t.failed)
         \/ Elements(e.failed) = Elements(t.failed) \cup {c} /\ Elements(e.sent) = Elements(t.sent)
  <2>1. Distinct(t.sent)
    BY DEF BroadcastInv
  <2>2. /\ Elements(Append(t.sent, c)) = Elements(t.sent) \cup {c}
        /\ Elements(Append(t.failed, c)) = Elements(t.failed) \cup {c}
        /\ Distinct(Append(t.sent, c))
    BY <1>1, <1>3, <2>1, ElementsAppend
  <2>. QED
    BY <1>2, <2>1, <2>2
<1>5. Started(e) \subseteq Started(t) /\ Visited(e) = Visited(t)
  BY <1>1, <1>2, <1>4 DEF Started, Visited
<1>. QED
  BY <1>2, <1>4, <1>5 DEF BroadcastInv

-----------------------------------------------------------------------------
(* The steps. *)

\* A step of a broadcast that leaves the registry alone.
LEMMA TaskStep ==
  ASSUME ManagerInv, UNCHANGED <<active, socket, endpoint>>,
         NEW b \in Broadcasters, NEW e \in Tasks, task' = [task EXCEPT ![b] = e],
         BroadcastInv(e), \A c, d \in e.current : c = d,
         \A c \in Elements(e.failed) : socket[c] = "closed"
  PROVE  ManagerInv'
<1>1. \A v \in Broadcasters : task'[v] = IF v = b THEN e ELSE task[v]
  BY DEF ManagerInv, TypeInv, TypeOK
<1>2. TypeInv'
  BY <1>1 DEF ManagerInv, TypeInv, TypeOK
<1>3. Registered' = Registered
  BY DEF Registered
<1>4. RegistryInv'
  BY <1>1, <1>3 DEF ManagerInv, RegistryInv, ServedIsRegistered
<1>5. \A v \in Broadcasters : \E t \in Tasks : t = task'[v] /\ BroadcastInv(t)
  BY <1>1 DEF ManagerInv, TypeInv, TypeOK, SendInv
<1>6. \A v \in Broadcasters : BroadcastInv(task[v])'
  <2>1. SUFFICES ASSUME NEW v \in Broadcasters PROVE BroadcastInv(task[v])'
    OBVIOUS
  <2>2. PICK t \in Tasks : t = task'[v] /\ BroadcastInv(t)
    BY <1>5
  <2>3. BroadcastInv(t)'
    BY <2>2 DEF BroadcastInv, Registered, Started, Visited
  <2>. QED
    BY <2>2, <2>3 DEF BroadcastInv, Started, Visited
<1>. QED
  BY <1>2, <1>4, <1>6 DEF ManagerInv, SendInv

\* A step that removes clients: no broadcast may lose one whose socket is open
\* and served.
LEMMA LoseStep ==
  ASSUME ManagerInv, NEW L, Unregister(L),
         socket' \in [Clients -> {"new", "open", "closed"}],
         endpoint' \in [Clients -> {"none", "serving", "gone"}],
         \A c \in Clients : /\ endpoint[c] = "none" <=> endpoint'[c] = "none"
                            /\ socket[c] = "new" <=> socket'[c] = "new"
                            /\ socket[c] = "closed" => socket'[c] = "closed"
                            /\ socket'[c] = "open" => socket[c] = "open"
                            /\ endpoint'[c] = "serving" => endpoint[c] = "serving"
                            /\ c \in L /\ endpoint'[c] = "serving" => socket'[c] # "open"
                            /\ c \notin L => endpoint'[c] = endpoint[c],
         task' \in [Broadcasters -> Tasks],
         \A b \in Broadcasters : task'[b] = NoTask \/ task'[b] = Loses(task[b], L)
  PROVE  ManagerInv'
<1>1. /\ active \in Seq(Clients) /\ Distinct(active) /\ task \in [Broadcasters -> Tasks]
      /\ endpoint \in [Clients -> {"none", "serving", "gone"}]
  BY DEF ManagerInv, TypeInv, TypeOK, RegistryInv
<1>2. active' \in Seq(Clients) /\ Distinct(active') /\ Registered' = Registered \ L
  BY <1>1, Unregistering DEF Registered
<1>3. ASSUME NEW b \in Broadcasters
      PROVE  /\ Elements(task'[b].failed) \subseteq Elements(task[b].failed)
             /\ task'[b].current \subseteq task[b].current
             /\ BroadcastInv(task[b])'
  <2>1. PICK t \in Tasks : t = task[b] /\ BroadcastInv(t)
    BY <1>1 DEF ManagerInv, SendInv
  <2>2. PICK e \in Tasks : e = task'[b]
    OBVIOUS
  <2>3. CASE e = NoTask
    <3>1. Elements(<<>>) = {}
      BY DEF Elements
    <3>2. BroadcastInv(e)'
      <4>1. /\ Len(active') \in Nat
            /\ \A i \in DOMAIN active' : i \in Nat \ {0}
        BY <1>2
      <4>. QED
        BY <2>3, <3>1, <4>1, NoTaskFields DEF BroadcastInv, Started, Visited, Distinct
    <3>. QED
      BY <2>2, <2>3, <3>1, <3>2, NoTaskFields DEF BroadcastInv, Started, Visited
  <2>4. CASE e = Loses(t, L)
    <3>1. e.failed = t.failed /\ e.current = t.current
      BY <1>1, <2>4, LosesFields
    <3>2. BroadcastInv(e)'
      BY <1>1, <2>1, <2>4, BroadcastLoses
    <3>. QED
      BY <2>1, <2>2, <3>1, <3>2 DEF BroadcastInv, Started, Visited
  <2>. QED
    BY <2>1, <2>2, <2>3, <2>4
<1>4. TypeInv'
  BY <1>2, <1>3 DEF ManagerInv, TypeInv, TypeOK
<1>5. \A c \in Registered' : c \in Clients /\ c \notin L
  BY <1>1, <1>2 DEF Registered, Elements
<1>6. \A b \in Broadcasters : \A c \in Elements(task[b].failed) : c \in Clients
  BY <1>1, TaskFields DEF Elements
<1>7. RegistryInv'
  <2>1. \A c \in Clients : socket'[c] = "new" <=> endpoint'[c] = "none"
    BY DEF ManagerInv, RegistryInv
  <2>2. \A c \in Registered' : endpoint'[c] = "serving"
    BY <1>2, <1>5 DEF ManagerInv, RegistryInv
  <2>3. ServedIsRegistered'
    BY <1>2 DEF ManagerInv, RegistryInv, ServedIsRegistered
  <2>4. \A b \in Broadcasters : \A c \in Elements(task'[b].failed) : socket'[c] = "closed"
    BY <1>3, <1>6 DEF ManagerInv, RegistryInv
  <2>. QED
    BY <1>2, <2>1, <2>2, <2>3, <2>4 DEF RegistryInv
<1>. QED
  BY <1>3, <1>4, <1>7 DEF ManagerInv, SendInv

LEMMA LostTasks ==
  ASSUME ManagerInv, NEW L
  PROVE  /\ Lost(L) \in [Broadcasters -> Tasks]
         /\ \A b \in Broadcasters : Lost(L)[b] = Loses(task[b], L)
<1>1. active \in Seq(Clients) /\ \A b \in Broadcasters : task[b] \in Tasks
  BY DEF ManagerInv, TypeInv, TypeOK
<1>2. \A b \in Broadcasters : Loses(task[b], L) \in Tasks
  BY <1>1, LosesFields
<1>3. Lost(L) = [b \in Broadcasters |-> Loses(task[b], L)]
  BY DEF Lost
<1>. QED
  BY <1>2, <1>3

LEMMA ManagerStep == ManagerInv /\ [Next]_vars => ManagerInv'
<1> SUFFICES ASSUME ManagerInv, [Next]_vars PROVE ManagerInv'
  OBVIOUS
<1>1. /\ active \in Seq(Clients) /\ Distinct(active) /\ task \in [Broadcasters -> Tasks]
      /\ socket \in [Clients -> {"new", "open", "closed"}]
      /\ endpoint \in [Clients -> {"none", "serving", "gone"}]
      /\ \A c \in Clients : socket[c] = "new" <=> endpoint[c] = "none"
      /\ \A c \in Registered : endpoint[c] = "serving"
  BY DEF ManagerInv, TypeInv, TypeOK, RegistryInv
<1>2. ASSUME NEW c \in Clients, Connect(c)
      PROVE  ManagerInv'
  <2>1. /\ active' = Append(active, c) /\ task' = task
        /\ \A d \in Clients : IF d = c THEN socket'[d] = "open" /\ endpoint'[d] = "serving"
                              ELSE socket'[d] = socket[d] /\ endpoint'[d] = endpoint[d]
        /\ socket[c] = "new" /\ endpoint[c] = "none"
    BY <1>1, <1>2 DEF Connect
  <2>2. c \notin Registered
    BY <1>1, <2>1
  <2>3. Registered' = Registered \cup {c} /\ Distinct(active')
    BY <1>1, <2>1, <2>2, ElementsAppend DEF Registered
  <2>4. TypeInv'
    BY <1>2, <2>1 DEF Connect, ManagerInv, TypeInv, TypeOK
  <2>5. \A b \in Broadcasters : \A d \in Elements(task[b].failed) : d \in Clients /\ d # c
    <3>1. \A b \in Broadcasters : task[b].failed \in Seq(Clients)
      BY <1>1, TaskFields
    <3>. QED
      BY <2>1, <3>1 DEF Elements, ManagerInv, RegistryInv
  <2>6. Registered \subseteq Clients
    BY <1>1 DEF Registered, Elements
  <2>7. RegistryInv'
    <3>1. \A d \in Registered' : endpoint'[d] = "serving"
      BY <1>1, <2>1, <2>3, <2>6
    <3>2. ServedIsRegistered'
      BY <2>1, <2>3 DEF ManagerInv, RegistryInv, ServedIsRegistered
    <3>3. \A b \in Broadcasters : \A d \in Elements(task'[b].failed) : socket'[d] = "closed"
      BY <2>1, <2>5 DEF ManagerInv, RegistryInv
    <3>4. \A d \in Clients : socket'[d] = "new" <=> endpoint'[d] = "none"
      BY <1>1, <2>1
    <3>. QED
      BY <2>3, <3>1, <3>2, <3>3, <3>4 DEF RegistryInv
  <2>8. SendInv'
    <3>1. SUFFICES ASSUME NEW b \in Broadcasters PROVE BroadcastInv(task[b])'
      BY DEF SendInv
    <3>2. PICK t \in Tasks : t = task[b] /\ BroadcastInv(t)
      BY <1>1 DEF ManagerInv, SendInv
    <3>3. BroadcastInv(t)'
      BY <1>1, <2>1, <3>2, BroadcastGrows
    <3>. QED
      BY <2>1, <3>2, <3>3 DEF BroadcastInv, Started, Visited
  <2>. QED
    BY <2>4, <2>7, <2>8 DEF ManagerInv
<1>3. ASSUME NEW c \in Clients, PeerCloses(c)
      PROVE  ManagerInv'
  <2>1. /\ UNCHANGED <<active, endpoint, task>> /\ socket[c] = "open"
        /\ \A d \in Clients : socket'[d] = IF d = c THEN "closed" ELSE socket[d]
    BY <1>1, <1>3 DEF PeerCloses
  <2>2. TypeInv'
    BY <1>3 DEF PeerCloses, ManagerInv, TypeInv, TypeOK
  <2>3. \A b \in Broadcasters : \A d \in Elements(task[b].failed) : d \in Clients
    <3>1. \A b \in Broadcasters : task[b].failed \in Seq(Clients)
      BY <1>1, TaskFields
    <3>. QED
      BY <3>1 DEF Elements
  <2>4. RegistryInv'
    BY <1>1, <2>1, <2>3 DEF ManagerInv, RegistryInv, ServedIsRegistered, Registered
  <2>5. SendInv'
    BY <2>1 DEF ManagerInv, SendInv, BroadcastInv, Registered, Started, Visited
  <2>. QED
    BY <2>2, <2>4, <2>5 DEF ManagerInv
<1>4. ASSUME NEW c \in Clients, EndpointEnds(c)
      PROVE  ManagerInv'
  <2>1. /\ \A d \in Clients : IF d = c THEN socket'[d] = "closed" /\ endpoint'[d] = "gone"
                              ELSE socket'[d] = socket[d] /\ endpoint'[d] = endpoint[d]
        /\ endpoint[c] = "serving" /\ socket[c] # "new"
        /\ socket' \in [Clients -> {"new", "open", "closed"}]
        /\ endpoint' \in [Clients -> {"none", "serving", "gone"}]
    BY <1>1, <1>4 DEF EndpointEnds
  <2>2. Unregister({c}) /\ task' = Lost({c})
    BY <1>4 DEF EndpointEnds
  <2>. QED
    BY <2>1, <2>2, LostTasks, LoseStep
<1>5. ASSUME NEW b \in Broadcasters, Start(b)
      PROVE  ManagerInv'
  <2> DEFINE D == {c \in Registered : socket[c] = "open"}
             e == Begun(D)
  <2>1. D \subseteq Registered /\ D \in SUBSET Clients
    BY <1>1 DEF Registered, Elements
  <2>2. UNCHANGED <<active, socket, endpoint>> /\ task' = [task EXCEPT ![b] = e]
    BY <1>5 DEF Start
  <2> HIDE DEF D
  <2>3. e \in Tasks /\ e.current = {} /\ e.failed = <<>> /\ BroadcastInv(e)
    BY <1>1, <2>1, BegunFields, BroadcastBegins
  <2>4. Elements(<<>>) = {}
    BY DEF Elements
  <2> HIDE DEF e
  <2>. QED
    BY <2>2, <2>3, <2>4, TaskStep
<1>6. ASSUME NEW b \in Broadcasters, Pick(b)
      PROVE  ManagerInv'
  <2>1. PICK t \in Tasks : t = task[b] /\ BroadcastInv(t)
    BY <1>1 DEF ManagerInv, SendInv
  <2> DEFINE e == Picked(t, active[t.index])
  <2>2. /\ UNCHANGED <<active, socket, endpoint>> /\ task' = [task EXCEPT ![b] = e]
        /\ t.pc = "loop" /\ t.index <= Len(active)
    <3>1. /\ UNCHANGED <<active, socket, endpoint>>
          /\ task' = [task EXCEPT ![b] = Picked(task[b], active[task[b].index])]
          /\ task[b].pc = "loop" /\ task[b].index <= Len(active)
      BY <1>6 DEF Pick
    <3>. QED
      BY <2>1, <3>1
  <2>3. active[t.index] \in Clients
    BY <1>1, <2>2, TaskFields
  <2>4. e.current = {active[t.index]} /\ e.failed = t.failed
    BY <2>3, PickedFields
  <2>5. e \in Tasks /\ BroadcastInv(e)
    BY <1>1, <2>1, <2>2, BroadcastPicks
  <2>6. \A d \in Elements(t.failed) : socket[d] = "closed"
    BY <2>1 DEF ManagerInv, RegistryInv
  <2> HIDE DEF e
  <2>. QED
    BY <2>2, <2>4, <2>5, <2>6, TaskStep
<1>7. ASSUME NEW b \in Broadcasters, SendReturns(b)
      PROVE  ManagerInv'
  <2>1. PICK t \in Tasks : t = task[b] /\ BroadcastInv(t)
    BY <1>1 DEF ManagerInv, SendInv
  <2>2. UNCHANGED <<active, socket, endpoint>> /\ \A c, d \in t.current : c = d
    BY <1>7, <2>1 DEF SendReturns, ManagerInv, TypeInv, TypeOK
  <2>3. PICK c \in t.current :
          \/ task' = [task EXCEPT ![b] = Delivered(t, c)]
          \/ socket[c] = "closed" /\ task' = [task EXCEPT ![b] = Refused(t, c)]
    <3>1. PICK c \in task[b].current :
            \/ task' = [task EXCEPT ![b] = Delivered(task[b], c)]
            \/ socket[c] = "closed" /\ task' = [task EXCEPT ![b] = Refused(task[b], c)]
      BY <1>7, Zenon DEF SendReturns
    <3>. QED
      BY <2>1, <3>1
  <2>4. c \in Clients /\ t.failed \in Seq(Clients)
    BY TaskFields
  <2>5. \A d \in Elements(t.failed) : socket[d] = "closed"
    BY <2>1 DEF ManagerInv, RegistryInv
  <2>6. CASE task' = [task EXCEPT ![b] = Delivered(t, c)]
    <3>1. PICK e : e = Delivered(t, c)
      OBVIOUS
    <3>2. e \in Tasks /\ BroadcastInv(e)
      BY <2>1, <2>2, <3>1, BroadcastDelivers
    <3>3. e.current = {} /\ e.failed = t.failed
      BY <2>4, <3>1, DeliveredFields, Zenon
    <3>. QED
      BY <2>2, <2>5, <2>6, <3>1, <3>2, <3>3, TaskStep
  <2>7. CASE socket[c] = "closed" /\ task' = [task EXCEPT ![b] = Refused(t, c)]
    <3>1. PICK e : e = Refused(t, c)
      OBVIOUS
    <3>2. e \in Tasks /\ BroadcastInv(e)
      BY <2>1, <2>2, <3>1, BroadcastDelivers
    <3>3. e.current = {} /\ e.failed = Append(t.failed, c)
      BY <2>4, <3>1, RefusedFields, Zenon
    <3>4. \A d \in Elements(e.failed) : socket[d] = "closed"
      BY <2>4, <2>5, <2>7, <3>3, ElementsAppend
    <3>. QED
      BY <2>2, <2>7, <3>1, <3>2, <3>3, <3>4, TaskStep
  <2>. QED
    BY <2>3, <2>6, <2>7
<1>8. ASSUME NEW b \in Broadcasters, CleanUp(b)
      PROVE  ManagerInv'
  <2> DEFINE L == Removable(task[b].failed)
  <2>1. /\ Unregister(L) /\ task' = [Lost(L) EXCEPT ![b] = NoTask]
        /\ UNCHANGED <<socket, endpoint>>
    BY <1>8 DEF CleanUp
  <2>2. \A c \in L : socket[c] = "closed"
    BY DEF Removable, Elements, ManagerInv, RegistryInv
  <2> HIDE DEF L
  <2>3. Lost(L) \in [Broadcasters -> Tasks] /\ \A v \in Broadcasters : Lost(L)[v] = Loses(task[v], L)
    BY LostTasks
  <2>4. /\ task' \in [Broadcasters -> Tasks]
        /\ \A v \in Broadcasters : task'[v] = NoTask \/ task'[v] = Loses(task[v], L)
    BY <2>1, <2>3, NoTaskFields
  <2>. QED
    BY <1>1, <2>1, <2>2, <2>4, LoseStep
<1>9. CASE UNCHANGED vars
  BY <1>9 DEF vars, ManagerInv, TypeInv, TypeOK, RegistryInv, SendInv, BroadcastInv, Registered,
              Started, Visited, ServedIsRegistered
<1>. QED
  BY <1>2, <1>3, <1>4, <1>5, <1>6, <1>7, <1>8, <1>9 DEF Next, Broadcast

LEMMA ManagerInit == Init => ManagerInv
<1> SUFFICES ASSUME Init PROVE ManagerInv
  OBVIOUS
<1>1. /\ active = <<>> /\ active \in Seq(Clients) /\ Elements(<<>>) = {}
      /\ \A b \in Broadcasters : task[b] = NoTask
      /\ \A c \in Clients : socket[c] = "new" /\ endpoint[c] = "none"
  BY DEF Init, Elements
<1>2. TypeInv
  BY <1>1, NoTaskFields DEF Init, TypeInv, TypeOK
<1>3. RegistryInv
  BY <1>1, NoTaskFields DEF RegistryInv, Distinct, Registered, ServedIsRegistered
<1>4. SendInv
  <2>1. SUFFICES ASSUME NEW b \in Broadcasters PROVE BroadcastInv(task[b])
    BY DEF SendInv
  <2>2. PICK t : t = NoTask /\ t = task[b]
    BY <1>1
  <2>. QED
    BY <1>1, <2>2, BroadcastIdle
<1>. QED
  BY <1>2, <1>3, <1>4 DEF ManagerInv

\* The registry holds every client that is served on an open socket and nobody
\* whose endpoint has ended, however many broadcasts clean up after failed
\* sends and are cut short in it.
THEOREM RegistryStaysTrue == Spec => []RegistryMatchesEndpoints
<1>1. ManagerInv => RegistryMatchesEndpoints
  BY DEF ManagerInv, TypeInv, RegistryInv, RegistryMatchesEndpoints, GoneIsForgotten
<1>. QED
  BY ManagerInit, ManagerStep, <1>1, PTL DEF Spec

\* A broadcast that iterates the live list sends to nobody twice, and unless
\* the list loses somebody meanwhile it reaches everybody who was there.
THEOREM BroadcastsStayExact == Spec => []BroadcastsAreExact
<1>1. ManagerInv => BroadcastsAreExact
  <2> SUFFICES ASSUME ManagerInv PROVE BroadcastsAreExact
    OBVIOUS
  <2>1. NobodyGetsItTwice
    BY DEF ManagerInv, SendInv, BroadcastInv, Distinct, NobodyGetsItTwice
  <2>2. ASSUME NEW b \in Broadcasters, task[b].pc = "loop", task[b].index > Len(active),
               task[b].lost = {}, NEW c \in task[b].due, socket[c] = "open"
        PROVE  c \in Elements(task[b].sent)
    <3>1. active \in Seq(Clients) /\ task[b] \in Tasks /\ BroadcastInv(task[b])
      BY DEF ManagerInv, TypeInv, TypeOK, SendInv
    <3>2. task[b].index \in Nat
      BY <3>1, TaskFields
    <3>3. PICK i \in DOMAIN active : active[i] = c
      BY <3>1 DEF BroadcastInv, Registered, Elements
    <3>4. i < task[b].index
      BY <2>2, <3>1, <3>2, <3>3
    <3>5. c \in Visited(task[b]) /\ task[b].current = {}
      BY <2>2, <3>1, <3>3, <3>4 DEF BroadcastInv
    <3>6. c \notin Elements(task[b].failed)
      BY <2>2 DEF ManagerInv, RegistryInv
    <3>. QED
      BY <3>5, <3>6 DEF Visited, Started
  <2>. QED
    BY <2>1, <2>2 DEF BroadcastsAreExact, CompleteUnlessSomebodyLeft
<1>. QED
  BY ManagerInit, ManagerStep, <1>1, PTL DEF Spec

-----------------------------------------------------------------------------
(* Slack notifier: the types. *)

Days == MaxTime \div DayLength

Locals ==
  [pc : Kinds \cup {"idle", "blip", "normal"}, failed : 0 .. MaxCalls,
   gen : 0 .. 2 * MaxCalls, old : -1 .. Days, at : 0 .. MaxTime, good : 0 .. MaxCalls]

Messages ==
  [kind : Kinds, at : 0 .. MaxTime, good : 0 .. MaxCalls, gen : 0 .. 2 * MaxCalls,
   answered : BOOLEAN]

\* Callers that may still commit something for the good check they brought.
Undecided == {c \in Callers : call[c].pc \in {"blip", "normal"}}

\* A call counts one failure or one good check and commits once at most.
CountsInv ==
  /\ failures <= calls /\ streak <= calls /\ good <= calls
  /\ \A c \in Callers : call[c].failed <= calls /\ call[c].good <= calls
  /\ IsFiniteSet(Undecided) /\ gen + Cardinality(Undecided) <= calls

NotifierTypesInv == NotifierTypes /\ CountsInv

LEMMA DayMonotone ==
  ASSUME NEW m \in Nat, NEW n \in Nat, m <= n
  PROVE  /\ m \div DayLength \in Nat /\ n \div DayLength \in Nat
         /\ m \div DayLength <= n \div DayLength /\ n \div DayLength <= n
<1> DEFINE d == DayLength
          p == m \div d
          q == n \div d
<1>1. d \in Nat \ {0}
  BY NotifierAssumption
<1>2. /\ p \in Int /\ q \in Int
      /\ d * p <= m /\ m < d * p + d
      /\ d * q <= n /\ n < d * q + d
  BY <1>1
<1>3. \A x \in Int, y \in Int : x >= y + 1 => d * x >= d * y + d
  BY <1>1
<1>4. 0 <= p /\ 0 <= q
  BY <1>1
<1> HIDE DEF p, q, d
<1>5. p <= q
  BY <1>1, <1>2, <1>3, <1>4
<1>6. q <= d * q
  BY <1>1, <1>2, <1>4
<1>7. p \in Nat /\ q \in Nat /\ p <= q /\ q <= n
  BY <1>1, <1>2, <1>4, <1>5, <1>6
<1> QED BY <1>7 DEF p, q, d

LEMMA DayTypes ==
  ASSUME NotifierTypes
  PROVE  /\ Days \in Nat /\ Days <= MaxTime
         /\ Today \in 0 .. Days
         /\ \A t \in 0 .. now : t \div DayLength \in 0 .. Today
<1>1. now \in Nat /\ now <= MaxTime /\ MaxTime \in Nat
  BY NotifierAssumption DEF NotifierTypes
<1>2. Days \in Nat /\ Days <= MaxTime
  BY <1>1, DayMonotone DEF Days
<1>3. Today \in Nat /\ Today <= Days
  BY <1>1, DayMonotone DEF Days, Today
<1>4. ASSUME NEW t \in 0 .. now PROVE t \div DayLength \in 0 .. Today
  <2>1. t \in Nat /\ t <= now
    BY <1>1
  <2>2. t \div DayLength \in Nat /\ t \div DayLength <= Today
    BY <1>1, <2>1, DayMonotone DEF Today
  <2> QED BY <1>3, <2>2
<1> QED BY <1>2, <1>3, <1>4

LEMMA TypesOpened ==
  ASSUME NotifierTypesInv
  PROVE  /\ now \in Nat /\ now <= MaxTime /\ MaxTime \in Nat /\ MaxCalls \in Nat
         /\ lastFailureAt \in -1 .. now /\ lastDegradedAt \in -1 .. now
         /\ heartbeatDate \in -1 .. Days
         /\ failures \in Nat /\ streak \in Nat /\ good \in Nat /\ calls \in Nat /\ gen \in Nat
         /\ calls <= MaxCalls
         /\ call \in [Callers -> Locals]
         /\ log \in Seq(Messages)
         /\ Cardinality(Undecided) \in Nat
         /\ gen + Cardinality(Undecided) <= calls
BY NotifierAssumption, FS_CardinalityType
   DEF NotifierTypesInv, NotifierTypes, CountsInv, Days, Locals, Messages

LEMMA UndecidedCounted ==
  ASSUME NotifierTypesInv, NEW c \in Callers, NEW l \in Locals,
         call' = [call EXCEPT ![c] = l]
  PROVE  /\ IsFiniteSet(Undecided') /\ Cardinality(Undecided') \in Nat
         /\ l.pc \notin {"blip", "normal"} => Cardinality(Undecided') <= Cardinality(Undecided)
         /\ call[c].pc \in {"blip", "normal"} => Cardinality(Undecided') <= Cardinality(Undecided)
         /\ call[c].pc \in {"blip", "normal"} /\ l.pc \notin {"blip", "normal"} =>
              Cardinality(Undecided') = Cardinality(Undecided) - 1
         /\ Cardinality(Undecided') <= Cardinality(Undecided) + 1
<1> DEFINE n == Cardinality(Undecided)
<1>0. call \in [Callers -> Locals] /\ IsFiniteSet(Undecided) /\ n \in Nat
  BY TypesOpened DEF NotifierTypesInv, CountsInv
<1>a. /\ IsFiniteSet(Undecided \cup {c})
      /\ Cardinality(Undecided \cup {c}) = IF c \in Undecided THEN n ELSE n + 1
  BY <1>0, FS_AddElement
<1>b. /\ IsFiniteSet(Undecided \ {c})
      /\ Cardinality(Undecided \ {c}) = IF c \in Undecided THEN n - 1 ELSE n
  BY <1>0, FS_RemoveElement
<1>c. Cardinality(Undecided \ {c}) \in Nat
  BY <1>b, FS_CardinalityType
<1> HIDE DEF n
<1>1. call'[c] = l /\ \A d \in Callers : d # c => call'[d] = call[d]
  BY <1>0
<1>2. CASE l.pc \in {"blip", "normal"}
  <2>1. Undecided' = Undecided \cup {c}
    BY <1>1, <1>2 DEF Undecided
  <2>2. c \in Undecided <=> call[c].pc \in {"blip", "normal"}
    BY DEF Undecided
  <2> QED BY <1>0, <1>a, <1>2, <2>1, <2>2 DEF n
<1>3. CASE l.pc \notin {"blip", "normal"}
  <2>1. Undecided' = Undecided \ {c}
    BY <1>1, <1>3 DEF Undecided
  <2>2. c \in Undecided <=> call[c].pc \in {"blip", "normal"}
    BY DEF Undecided
  <2> QED BY <1>0, <1>b, <1>c, <1>3, <2>1, <2>2 DEF n
<1> QED BY <1>2, <1>3

\* What a step of one caller owes to the types.
LEMMA CallerTypes ==
  ASSUME NotifierTypesInv, NEW c \in Callers, NEW l \in Locals,
         call' = [call EXCEPT ![c] = l], UNCHANGED now,
         lastSuccess' \in {"none", "ok", "bad"}, heartbeatDate' \in -1 .. Days,
         lastFailureAt' \in -1 .. now, lastDegradedAt' \in -1 .. now,
         failures' \in Nat, streak' \in Nat, good' \in Nat, gen' \in Nat, calls' \in Nat,
         paged' \in BOOLEAN, repageLost' \in BOOLEAN, overlapped' \in BOOLEAN,
         log' \in Seq(Messages),
         calls <= calls', calls' <= MaxCalls,
         failures' <= calls', streak' <= calls', good' <= calls',
         l.failed <= calls', l.good <= calls',
         gen' + Cardinality(Undecided') <= calls'
  PROVE  NotifierTypesInv'
<1>0. /\ IsFiniteSet(Undecided') /\ Cardinality(Undecided') \in Nat
      /\ MaxCalls \in Nat /\ call \in [Callers -> Locals]
  BY UndecidedCounted, TypesOpened
<1>1. call' \in [Callers -> Locals]
  BY <1>0
<1>2. gen' \in 0 .. 2 * MaxCalls
  BY <1>0
<1>3. NotifierTypes'
  <2>1. calls' \in 0 .. MaxCalls /\ failures' \in 0 .. MaxCalls /\ streak' \in 0 .. MaxCalls
    BY <1>0
  <2>2. good' \in 0 .. MaxCalls
    BY <1>0
  <2>3. now' \in 0 .. MaxTime
    BY DEF NotifierTypesInv, NotifierTypes
  <2>4. lastFailureAt' \in -1 .. now' /\ lastDegradedAt' \in -1 .. now'
    OBVIOUS
  <2> QED BY <1>1, <1>2, <2>1, <2>2, <2>3, <2>4 DEF NotifierTypes, Locals, Messages, Days
<1>4. ASSUME NEW d \in Callers PROVE call'[d].failed <= calls' /\ call'[d].good <= calls'
  <2>1. CASE d = c
    BY <1>0, <2>1
  <2>2. CASE d # c
    <3>1. call'[d] = call[d] /\ call[d] \in Locals
      BY <1>0, <2>2
    <3>2. call[d].failed <= calls /\ call[d].good <= calls
      BY DEF NotifierTypesInv, CountsInv
    <3>3. call[d].failed \in Nat /\ call[d].good \in Nat
      BY <1>0, <3>1 DEF Locals
    <3>4. calls \in Nat /\ calls' \in Nat
      <4>1. calls \in 0 .. MaxCalls
        BY DEF NotifierTypesInv, NotifierTypes
      <4> QED BY <4>1
    <3> QED BY <3>1, <3>2, <3>3, <3>4, SMTT(20)
  <2> QED BY <2>1, <2>2
<1> QED BY <1>0, <1>3, <1>4 DEF NotifierTypesInv, CountsInv

LEMMA NoCallType == NoCall \in Locals
<1>1. MaxTime \in Nat /\ Days \in Nat /\ MaxCalls \in Nat
  BY NotifierAssumption, DayMonotone DEF Days
<1> QED BY <1>1 DEF NoCall, Locals, Never

LEMMA LocalType ==
  ASSUME NotifierTypesInv, NEW pc \in Kinds \cup {"idle", "blip", "normal"},
         NEW failed \in 0 .. MaxCalls, NEW g \in 0 .. 2 * MaxCalls, NEW old \in -1 .. Days
  PROVE  /\ Local(pc, failed, g, old) \in Locals
         /\ Local(pc, failed, g, old).pc = pc /\ Local(pc, failed, g, old).failed = failed
         /\ Local(pc, failed, g, old).gen = g /\ Local(pc, failed, g, old).old = old
         /\ Local(pc, failed, g, old).at = now /\ Local(pc, failed, g, old).good = good
<1>1. now \in 0 .. MaxTime /\ good \in 0 .. MaxCalls
  BY DEF NotifierTypesInv, NotifierTypes
<1>2. MaxTime \in Nat /\ Days \in Nat /\ Days <= MaxTime
  BY TypesOpened, DayTypes DEF NotifierTypesInv
<1>3. old \in -1 .. MaxTime
  BY <1>2
<1> QED BY <1>1, <1>3 DEF Local, Locals


LEMMA KeptCall ==
  ASSUME NotifierTypesInv, NEW c \in Callers
  PROVE  call[c] \in Locals /\ call = [call EXCEPT ![c] = call[c]]
BY TypesOpened

LEMMA FailureTypes ==
  ASSUME NotifierTypesInv, NEW c \in Callers, NotifyFailure(c)
  PROVE  NotifierTypesInv'
<1> USE DEF NotifyFailure, Enters, Becomes
<1>0. /\ failures \in Nat /\ gen \in Nat /\ calls \in Nat /\ MaxCalls \in Nat /\ now \in Nat
      /\ streak \in Nat /\ good \in Nat /\ calls < MaxCalls /\ calls' = calls + 1
      /\ failures <= calls /\ streak <= calls /\ good <= calls
      /\ lastFailureAt \in -1 .. now /\ lastDegradedAt \in -1 .. now
      /\ heartbeatDate \in -1 .. Days /\ log \in Seq(Messages)
      /\ Cardinality(Undecided) \in Nat /\ gen + Cardinality(Undecided) <= calls
  BY TypesOpened DEF NotifierTypesInv, CountsInv
<1>1. overlapped' \in BOOLEAN /\ repageLost' \in BOOLEAN /\ paged' \in BOOLEAN
  BY DEF NotifierTypesInv, NotifierTypes
<1>2. PICK l \in Locals :
        /\ call' = [call EXCEPT ![c] = l] /\ l.failed <= calls' /\ l.good <= calls'
        /\ l.pc \notin {"blip", "normal"}
  <2>1. CASE ShouldPage
    <3> DEFINE l == Local("page", failures + 1, gen + 1, Never)
    <3>1. /\ failures + 1 \in 0 .. MaxCalls /\ gen + 1 \in 0 .. 2 * MaxCalls
          /\ Never \in -1 .. Days
      BY <1>0, DayTypes DEF Never, NotifierTypesInv
    <3>2. l \in Locals /\ l.pc = "page" /\ l.failed = failures + 1 /\ l.good = good
      BY <3>1, LocalType DEF Kinds
    <3>3. call' = [call EXCEPT ![c] = l]
      BY <2>1
    <3> HIDE DEF l, NotifyFailure
    <3>4. l.failed <= calls' /\ l.good <= calls' /\ l.pc \notin {"blip", "normal"}
      BY <1>0, <3>2
    <3> QED BY <3>2, <3>3, <3>4
  <2>2. CASE ~ShouldPage
    <3>1. call' = [call EXCEPT ![c] = call[c]] /\ call[c] \in Locals
      BY <2>2, KeptCall
    <3>2. call[c].failed <= calls /\ call[c].good <= calls /\ call[c].pc = "idle"
      BY DEF NotifierTypesInv, CountsInv
    <3>3. call[c].failed \in Nat /\ call[c].good \in Nat
      BY <3>1 DEF Locals
    <3> HIDE DEF NotifyFailure
    <3>4. call[c].failed <= calls' /\ call[c].good <= calls' /\ call[c].pc \notin {"blip", "normal"}
      BY <1>0, <3>2, <3>3
    <3> QED BY <3>1, <3>4
  <2> QED BY <2>1, <2>2
<1>3. Cardinality(Undecided') \in Nat /\ Cardinality(Undecided') <= Cardinality(Undecided)
  BY <1>2, UndecidedCounted
<1>4. (gen' = gen \/ gen' = gen + 1) /\ lastFailureAt' \in -1 .. now
  BY <1>0
<1>5. gen' \in Nat /\ gen' + Cardinality(Undecided') <= calls'
  BY <1>0, <1>3, <1>4
<1>6. /\ failures' \in Nat /\ streak' \in Nat /\ good' \in Nat /\ calls' \in Nat
      /\ calls <= calls' /\ calls' <= MaxCalls
      /\ failures' <= calls' /\ streak' <= calls' /\ good' <= calls'
  BY <1>0
<1>7. /\ UNCHANGED <<now, heartbeatDate, lastDegradedAt, log>>
      /\ lastSuccess' \in {"none", "ok", "bad"}
  OBVIOUS
<1> HIDE DEF NotifyFailure, Enters, Becomes
<1> QED BY <1>0, <1>1, <1>2, <1>4, <1>5, <1>6, <1>7, CallerTypes

LEMMA SuccessTypes ==
  ASSUME NotifierTypesInv, NEW c \in Callers, NotifySuccess(c)
  PROVE  NotifierTypesInv'
<1> USE DEF NotifySuccess, Enters, Becomes
<1>0. /\ failures \in Nat /\ gen \in Nat /\ calls \in Nat /\ MaxCalls \in Nat /\ now \in Nat
      /\ streak \in Nat /\ good \in Nat /\ calls < MaxCalls /\ calls' = calls + 1
      /\ failures <= calls /\ streak <= calls /\ good <= calls
      /\ lastFailureAt \in -1 .. now /\ lastDegradedAt \in -1 .. now
      /\ heartbeatDate \in -1 .. Days /\ log \in Seq(Messages)
      /\ Cardinality(Undecided) \in Nat /\ gen + Cardinality(Undecided) <= calls
  BY TypesOpened DEF NotifierTypesInv, CountsInv
<1>1. overlapped' \in BOOLEAN /\ repageLost' \in BOOLEAN /\ paged' \in BOOLEAN
  BY DEF NotifierTypesInv, NotifierTypes
<1>2. /\ failures \in 0 .. MaxCalls /\ gen \in 0 .. 2 * MaxCalls /\ gen + 1 \in 0 .. 2 * MaxCalls
      /\ Never \in -1 .. Days
  BY <1>0, DayTypes DEF Never, NotifierTypesInv
<1>3. PICK l \in Locals :
        /\ call' = [call EXCEPT ![c] = l] /\ l.failed = failures /\ l.good = good
        /\ paged => l.pc = "recovery"
  <2>1. CASE paged
    <3> DEFINE l == Local("recovery", failures, gen + 1, Never)
    <3>2. l \in Locals /\ l.pc = "recovery" /\ l.failed = failures /\ l.good = good
      BY <1>2, LocalType DEF Kinds
    <3>3. call' = [call EXCEPT ![c] = l]
      BY <2>1
    <3> HIDE DEF l
    <3> QED BY <3>2, <3>3
  <2>2. CASE ~paged
    <3> DEFINE k == IF failures > 0 THEN "blip" ELSE "normal"
               l == Local(k, failures, gen, Never)
    <3>1. k \in Kinds \cup {"idle", "blip", "normal"}
      OBVIOUS
    <3>2. l \in Locals /\ l.failed = failures /\ l.good = good
      BY <1>2, <3>1, LocalType
    <3>3. call' = [call EXCEPT ![c] = l]
      BY <2>2
    <3> HIDE DEF l
    <3> QED BY <2>2, <3>2, <3>3
  <2> QED BY <2>1, <2>2
<1>4. /\ Cardinality(Undecided') \in Nat /\ Cardinality(Undecided') <= Cardinality(Undecided) + 1
      /\ paged => Cardinality(Undecided') <= Cardinality(Undecided)
  BY <1>3, UndecidedCounted
<1>5. gen' \in Nat /\ gen' + Cardinality(Undecided') <= calls'
  <2>1. CASE paged
    <3>1. gen' = gen + 1
      BY <2>1
    <3> QED BY <1>0, <1>4, <2>1, <3>1
  <2>2. CASE ~paged
    <3>1. gen' = gen
      BY <2>2
    <3> QED BY <1>0, <1>4, <3>1
  <2> QED BY <2>1, <2>2
<1>6. /\ failures' \in Nat /\ streak' \in Nat /\ good' \in Nat /\ calls' \in Nat
      /\ calls <= calls' /\ calls' <= MaxCalls
      /\ failures' <= calls' /\ streak' <= calls' /\ good' <= calls'
      /\ failures <= calls' /\ good <= calls'
  BY <1>0
<1>7. /\ UNCHANGED <<now, heartbeatDate, lastFailureAt, lastDegradedAt, log>>
      /\ lastSuccess' \in {"none", "ok", "bad"}
  BY DEF NotifierTypesInv, NotifierTypes
<1> HIDE DEF NotifySuccess, Enters, Becomes
<1> QED BY <1>0, <1>1, <1>3, <1>5, <1>6, <1>7, CallerTypes

LEMMA OtherTypes ==
  ASSUME NotifierTypesInv, NEW c \in Callers,
         ForgetBlip(c) \/ NormalSuccess(c) \/ PostTaken(c) \/ PostLost(c)
  PROVE  NotifierTypesInv'
<1>0. /\ failures \in Nat /\ gen \in Nat /\ calls \in Nat /\ MaxCalls \in Nat /\ now \in Nat
      /\ streak \in Nat /\ good \in Nat /\ calls <= MaxCalls
      /\ failures <= calls /\ streak <= calls /\ good <= calls
      /\ lastFailureAt \in -1 .. now /\ lastDegradedAt \in -1 .. now
      /\ heartbeatDate \in -1 .. Days /\ log \in Seq(Messages)
      /\ Cardinality(Undecided) \in Nat /\ gen + Cardinality(Undecided) <= calls
  BY TypesOpened DEF NotifierTypesInv, CountsInv
<1>1. /\ call[c] \in Locals /\ call[c].failed <= calls /\ call[c].good <= calls
      /\ call \in [Callers -> Locals]
  BY KeptCall, TypesOpened DEF NotifierTypesInv, CountsInv
<1>2. /\ lastSuccess \in {"none", "ok", "bad"} /\ paged \in BOOLEAN /\ repageLost \in BOOLEAN
      /\ overlapped \in BOOLEAN
  BY DEF NotifierTypesInv, NotifierTypes
<1>3. NoCall \in Locals /\ NoCall.pc = "idle" /\ NoCall.failed = 0 /\ NoCall.good = 0
  BY NoCallType DEF NoCall
<1>4. /\ Never \in -1 .. Days /\ Never \in -1 .. now /\ Today \in 0 .. Days
      /\ Days \in Nat /\ 0 \in 0 .. MaxCalls
  BY <1>0, DayTypes DEF Never, NotifierTypesInv
<1>5. CASE ForgetBlip(c)
  <2> DEFINE l == [call[c] EXCEPT !.pc = "normal"]
  <2>1. /\ call[c].pc = "blip" /\ call' = [call EXCEPT ![c] = l] /\ failures' = 0
        /\ UNCHANGED <<now, lastSuccess, heartbeatDate, lastFailureAt, paged, lastDegradedAt, gen,
                       calls, streak, good, log, repageLost, overlapped>>
    BY <1>5 DEF ForgetBlip, Becomes, history
  <2>2. l \in Locals /\ l.failed <= calls /\ l.good <= calls
    BY <1>1 DEF Locals
  <2> HIDE DEF l
  <2>3. Cardinality(Undecided') <= Cardinality(Undecided) /\ Cardinality(Undecided') \in Nat
    BY <2>1, <2>2, UndecidedCounted
  <2>4. gen + Cardinality(Undecided') <= calls
    BY <1>0, <2>3
  <2>5. /\ failures' \in Nat /\ streak' \in Nat /\ good' \in Nat /\ calls' \in Nat
        /\ calls <= calls' /\ calls' <= MaxCalls
        /\ failures' <= calls' /\ streak' <= calls' /\ good' <= calls'
        /\ lastFailureAt' \in -1 .. now /\ lastDegradedAt' \in -1 .. now
    BY <1>0, <2>1
  <2>6. gen' + Cardinality(Undecided') <= calls' /\ gen' \in Nat
    BY <1>0, <2>1, <2>4
  <2> QED BY <1>0, <1>2, <2>1, <2>2, <2>5, <2>6, CallerTypes
<1>6. CASE NormalSuccess(c)
  <2>0. /\ call[c].pc = "normal" /\ lastSuccess' = "ok"
        /\ UNCHANGED <<now, lastFailureAt, failures, paged, lastDegradedAt, calls,
                       streak, good, log, repageLost, overlapped>>
    BY <1>6 DEF NormalSuccess, history
  <2>1. PICK l \in Locals :
          /\ call' = [call EXCEPT ![c] = l] /\ l.failed = 0 /\ l.good <= calls
          /\ l.pc \notin {"blip", "normal"}
          /\ (gen' = gen \/ gen' = gen + 1) /\ (heartbeatDate' = heartbeatDate \/ heartbeatDate' = Today)
    <3>0. gen + 1 \in 0 .. 2 * MaxCalls /\ heartbeatDate \in -1 .. Days
      <4>1. call[c].pc \in {"blip", "normal"} /\ c \in Undecided
        BY <2>0 DEF Undecided
      <4>2. IsFiniteSet(Undecided) /\ Undecided # {}
        BY <4>1 DEF NotifierTypesInv, CountsInv
      <4>3. Cardinality(Undecided) # 0
        BY <4>2, FS_EmptySet
      <4> QED BY <1>0, <4>3
    <3>1. CASE /\ gen' = gen + 1 /\ UNCHANGED heartbeatDate
               /\ Becomes(c, Local("startup", 0, gen + 1, Never))
      <4> DEFINE l == Local("startup", 0, gen + 1, Never)
      <4>1. l \in Locals /\ l.pc = "startup" /\ l.failed = 0 /\ l.good = good
        BY <1>4, <3>0, LocalType DEF Kinds
      <4>2. call' = [call EXCEPT ![c] = l]
        BY <3>1 DEF Becomes
      <4> HIDE DEF l
      <4> QED BY <1>0, <3>1, <4>1, <4>2
    <3>2. CASE /\ gen' = gen + 1 /\ heartbeatDate' = Today
               /\ Becomes(c, Local("heartbeat", 0, gen + 1, heartbeatDate))
      <4> DEFINE l == Local("heartbeat", 0, gen + 1, heartbeatDate)
      <4>1. l \in Locals /\ l.pc = "heartbeat" /\ l.failed = 0 /\ l.good = good
        BY <1>4, <3>0, LocalType DEF Kinds
      <4>2. call' = [call EXCEPT ![c] = l]
        BY <3>2 DEF Becomes
      <4> HIDE DEF l
      <4> QED BY <1>0, <3>2, <4>1, <4>2
    <3>3. CASE Becomes(c, NoCall) /\ UNCHANGED <<gen, heartbeatDate>>
      <4>1. NoCall.good <= calls /\ NoCall.pc \notin {"blip", "normal"}
        BY <1>0, <1>3
      <4> QED BY <1>3, <3>3, <4>1 DEF Becomes
    <3> QED BY <1>6, <3>1, <3>2, <3>3 DEF NormalSuccess
  <2>2. Cardinality(Undecided') = Cardinality(Undecided) - 1 /\ Cardinality(Undecided') \in Nat
    BY <2>0, <2>1, UndecidedCounted
  <2>3. gen' \in Nat /\ gen' + Cardinality(Undecided') <= calls
    BY <1>0, <2>1, <2>2
  <2>4. heartbeatDate' \in -1 .. Days
    BY <1>0, <1>4, <2>1
  <2>5. l.failed <= calls
    BY <1>0, <2>1
  <2>6. /\ failures' \in Nat /\ streak' \in Nat /\ good' \in Nat /\ calls' \in Nat
        /\ calls <= calls' /\ calls' <= MaxCalls
        /\ failures' <= calls' /\ streak' <= calls' /\ good' <= calls'
        /\ lastFailureAt' \in -1 .. now /\ lastDegradedAt' \in -1 .. now
    BY <1>0, <2>0
  <2> QED BY <1>0, <1>2, <2>0, <2>1, <2>3, <2>4, <2>5, <2>6, CallerTypes
<1>7. CASE PostTaken(c)
  <2>0. /\ call[c].pc \in Kinds /\ call' = [call EXCEPT ![c] = NoCall]
        /\ UNCHANGED <<now, heartbeatDate, lastFailureAt, failures, paged, lastDegradedAt, gen,
                       calls, streak, good, repageLost, overlapped>>
        /\ log' = Append(log, Message(call[c], TRUE))
        /\ lastSuccess' \in {"none", "ok", "bad"}
    BY <1>2, <1>7 DEF PostTaken, Becomes
  <2>1. Message(call[c], TRUE) \in Messages
    BY <1>1, <2>0 DEF Locals, Messages, Message
  <2>2. log' \in Seq(Messages)
    BY <1>0, <2>0, <2>1, AppendProperties
  <2>3. Cardinality(Undecided') <= Cardinality(Undecided) /\ Cardinality(Undecided') \in Nat
    BY <1>3, <2>0, UndecidedCounted
  <2>4. gen + Cardinality(Undecided') <= calls /\ NoCall.failed <= calls /\ NoCall.good <= calls
    BY <1>0, <1>3, <2>3
  <2>5. /\ failures' \in Nat /\ streak' \in Nat /\ good' \in Nat /\ calls' \in Nat
        /\ calls <= calls' /\ calls' <= MaxCalls
        /\ failures' <= calls' /\ streak' <= calls' /\ good' <= calls'
        /\ lastFailureAt' \in -1 .. now /\ lastDegradedAt' \in -1 .. now
    BY <1>0, <2>0
  <2>6. gen' + Cardinality(Undecided') <= calls' /\ gen' \in Nat
    BY <1>0, <2>0, <2>4
  <2> QED BY <1>0, <1>2, <1>3, <2>0, <2>2, <2>4, <2>5, <2>6, CallerTypes
<1>8. CASE PostLost(c)
  <2>0. /\ call[c].pc \in Kinds /\ call' = [call EXCEPT ![c] = NoCall]
        /\ UNCHANGED <<now, lastSuccess, gen, calls, streak, good, overlapped>>
        /\ log' \in {log, Append(log, Message(call[c], FALSE))}
    BY <1>8 DEF PostLost, Becomes
  <2>10. log' \in Seq(Messages)
    <3>1. Message(call[c], FALSE) \in Messages
      BY <1>1, <2>0 DEF Locals, Messages, Message
    <3>2. Append(log, Message(call[c], FALSE)) \in Seq(Messages)
      BY <1>0, <3>1, AppendProperties
    <3> QED BY <1>0, <2>0, <3>2
  <2>1. paged' \in BOOLEAN /\ repageLost' \in BOOLEAN
    BY <1>2, <1>8 DEF PostLost
  <2>2. lastFailureAt' \in -1 .. now /\ lastDegradedAt' \in -1 .. now
    BY <1>0, <1>4, <1>8 DEF PostLost
  <2>3. failures' = failures \/ failures' = call[c].failed
    BY <1>8 DEF PostLost
  <2>4. failures' \in Nat /\ failures' <= calls
    BY <1>0, <1>1, <2>3 DEF Locals
  <2>5. heartbeatDate' \in -1 .. Days
    <3>1. call[c].old \in -1 .. Days
      BY <1>1 DEF Locals
    <3>2. heartbeatDate' = heartbeatDate \/ heartbeatDate' = call[c].old
      BY <1>8 DEF PostLost
    <3> QED BY <1>0, <3>1, <3>2
  <2>6. Cardinality(Undecided') <= Cardinality(Undecided) /\ Cardinality(Undecided') \in Nat
    BY <1>3, <2>0, UndecidedCounted
  <2>7. gen + Cardinality(Undecided') <= calls /\ NoCall.failed <= calls /\ NoCall.good <= calls
    BY <1>0, <1>3, <2>6
  <2>8. /\ failures' \in Nat /\ streak' \in Nat /\ good' \in Nat /\ calls' \in Nat
        /\ calls <= calls' /\ calls' <= MaxCalls
        /\ failures' <= calls' /\ streak' <= calls' /\ good' <= calls'
        /\ lastFailureAt' \in -1 .. now /\ lastDegradedAt' \in -1 .. now
    BY <1>0, <2>0, <2>2, <2>4
  <2>9. gen' + Cardinality(Undecided') <= calls' /\ gen' \in Nat
    BY <1>0, <2>0, <2>7
  <2> QED BY <1>0, <1>2, <1>3, <2>0, <2>1, <2>5, <2>7, <2>8, <2>9, <2>10, CallerTypes
<1> QED BY <1>5, <1>6, <1>7, <1>8

LEMMA DegradedTypes ==
  ASSUME NotifierTypesInv, NEW c \in Callers, NotifyDegraded(c)
  PROVE  NotifierTypesInv'
<1>0. /\ failures \in Nat /\ gen \in Nat /\ calls \in Nat /\ MaxCalls \in Nat /\ now \in Nat
      /\ streak \in Nat /\ good \in Nat
      /\ failures <= calls /\ streak <= calls /\ good <= calls
      /\ lastFailureAt \in -1 .. now /\ lastDegradedAt \in -1 .. now
      /\ heartbeatDate \in -1 .. Days /\ log \in Seq(Messages)
      /\ Cardinality(Undecided) \in Nat /\ gen + Cardinality(Undecided) <= calls
  BY TypesOpened DEF NotifierTypesInv, CountsInv
<1>1. /\ call[c].pc = "idle" /\ calls < MaxCalls /\ calls' = calls + 1
      /\ UNCHANGED <<now, lastSuccess, heartbeatDate, lastFailureAt, failures, paged,
                     streak, good, log, repageLost>>
      /\ overlapped' \in BOOLEAN
  BY DEF NotifyDegraded, Enters, NotifierTypesInv, NotifierTypes
<1>2. PICK l \in Locals :
        /\ call' = [call EXCEPT ![c] = l] /\ l.failed <= calls /\ l.good <= calls
        /\ l.pc \notin {"blip", "normal"}
        /\ (gen' = gen \/ gen' = gen + 1) /\ lastDegradedAt' \in -1 .. now
  <2>1. CASE NoteAllowed
    <3> DEFINE l == Local("note", 0, gen + 1, Never)
    <3>1. gen + 1 \in 0 .. 2 * MaxCalls /\ Never \in -1 .. Days /\ 0 \in 0 .. MaxCalls
      BY <1>0, <1>1, DayTypes DEF Never, NotifierTypesInv
    <3>2. l \in Locals /\ l.pc = "note" /\ l.failed = 0 /\ l.good = good
      BY <3>1, LocalType DEF Kinds
    <3>3. call' = [call EXCEPT ![c] = l] /\ gen' = gen + 1 /\ lastDegradedAt' = now
      BY <2>1 DEF NotifyDegraded, Becomes
    <3> HIDE DEF l
    <3>4. l.failed <= calls /\ l.good <= calls /\ l.pc \notin {"blip", "normal"}
      BY <1>0, <3>2
    <3>5. lastDegradedAt' \in -1 .. now
      BY <1>0, <3>3
    <3> QED BY <3>2, <3>3, <3>4, <3>5
  <2>2. CASE ~NoteAllowed
    <3>1. call' = [call EXCEPT ![c] = call[c]] /\ call[c] \in Locals
      BY <2>2, KeptCall DEF NotifyDegraded
    <3>2. call[c].failed <= calls /\ call[c].good <= calls
      BY DEF NotifierTypesInv, CountsInv
    <3>3. gen' = gen /\ lastDegradedAt' = lastDegradedAt
      BY <2>2 DEF NotifyDegraded
    <3> QED BY <1>0, <1>1, <3>1, <3>2, <3>3
  <2> QED BY <2>1, <2>2
<1>3. Cardinality(Undecided') \in Nat /\ Cardinality(Undecided') <= Cardinality(Undecided)
  BY <1>2, UndecidedCounted
<1>4. gen' \in Nat /\ gen' + Cardinality(Undecided') <= calls'
  BY <1>0, <1>1, <1>2, <1>3
<1>5. /\ calls' \in Nat /\ calls <= calls' /\ calls' <= MaxCalls
      /\ failures <= calls' /\ streak <= calls' /\ good <= calls'
  BY <1>0, <1>1
<1>6. l.failed <= calls' /\ l.good <= calls'
  BY <1>0, <1>1, <1>2 DEF Locals
<1>7. /\ lastSuccess \in {"none", "ok", "bad"} /\ paged \in BOOLEAN /\ repageLost \in BOOLEAN
  BY DEF NotifierTypesInv, NotifierTypes
<1> QED BY <1>0, <1>1, <1>2, <1>4, <1>5, <1>6, <1>7, CallerTypes

LEMMA NotifierTypesInit == NotifierInit => NotifierTypesInv
<1> SUFFICES ASSUME NotifierInit PROVE NotifierTypesInv
  OBVIOUS
<1>1. Undecided = {}
  BY DEF NotifierInit, Undecided, NoCall
<1>2. IsFiniteSet(Undecided) /\ Cardinality(Undecided) = 0
  BY <1>1, FS_EmptySet
<1>3. MaxTime \in Nat /\ Days \in Nat /\ MaxCalls \in Nat
  BY NotifierAssumption, DayMonotone DEF Days
<1>4. NotifierTypes
  <2>1. /\ now = 0 /\ lastFailureAt = -1 /\ lastDegradedAt = -1 /\ heartbeatDate = -1
        /\ failures = 0 /\ streak = 0 /\ good = 0 /\ gen = 0 /\ calls = 0
        /\ lastSuccess = "none" /\ paged = FALSE /\ repageLost = FALSE /\ overlapped = FALSE
    BY DEF NotifierInit, Never
  <2>2. call \in [Callers -> Locals] /\ log \in Seq(Messages)
    BY NoCallType, EmptySeq DEF NotifierInit
  <2>3. /\ now \in 0 .. MaxTime /\ lastFailureAt \in -1 .. now /\ lastDegradedAt \in -1 .. now
        /\ heartbeatDate \in -1 .. Days /\ failures \in 0 .. MaxCalls /\ streak \in 0 .. MaxCalls
        /\ good \in 0 .. MaxCalls /\ gen \in 0 .. 2 * MaxCalls /\ calls \in 0 .. MaxCalls
    BY <1>3, <2>1
  <2> QED BY <2>1, <2>2, <2>3 DEF NotifierTypes, Locals, Messages, Days
<1>5. CountsInv
  BY <1>2, <1>3 DEF NotifierInit, CountsInv, NoCall
<1> QED BY <1>4, <1>5 DEF NotifierTypesInv

LEMMA NotifierTypesStep ==
  ASSUME NotifierTypesInv, [NotifierNext]_notifierVars
  PROVE  NotifierTypesInv'
<1>1. CASE Tick
  <2>1. now' = now + 1 /\ now < MaxTime /\ UNCHANGED <<state, call, calls, history>>
    BY <1>1 DEF Tick
  <2>0. now \in Nat /\ MaxTime \in Nat
    BY TypesOpened
  <2>2. now' \in 0 .. MaxTime /\ now \in Nat
    BY <2>0, <2>1
  <2>3. lastFailureAt \in -1 .. now' /\ lastDegradedAt \in -1 .. now'
    <3>1. lastFailureAt \in -1 .. now /\ lastDegradedAt \in -1 .. now
      BY TypesOpened
    <3> QED BY <2>1, <2>2, <3>1
  <2>4. NotifierTypes'
    BY <2>1, <2>2, <2>3 DEF NotifierTypesInv, NotifierTypes, state, history
  <2>5. CountsInv'
    BY <2>1 DEF NotifierTypesInv, CountsInv, Undecided, state, history
  <2> QED BY <2>4, <2>5 DEF NotifierTypesInv
<1>2. CASE UNCHANGED notifierVars
  BY <1>2 DEF notifierVars, state, history, NotifierTypesInv, NotifierTypes, CountsInv, Undecided
<1>3. ASSUME NEW c \in Callers,
             \/ NotifyFailure(c) \/ NotifySuccess(c) \/ NotifyDegraded(c)
             \/ ForgetBlip(c) \/ NormalSuccess(c) \/ PostTaken(c) \/ PostLost(c)
      PROVE NotifierTypesInv'
  BY <1>3, FailureTypes, SuccessTypes, DegradedTypes, OtherTypes
<1> QED BY <1>1, <1>2, <1>3 DEF NotifierNext

-----------------------------------------------------------------------------
(* Slack notifier: what keeps the messages apart. *)

\* What a post under way leaves in the log if it is answered.
Pending(l) == Message(l, TRUE)
Sending(l) == l.pc \in Kinds

\* Of two messages, the one decided upon later keeps its distance from an
\* answered earlier one.
Before(e, f) ==
  /\ e.kind = "page" /\ f.kind = "page" /\ e.good = f.good => f.at - e.at >= Suppress
  /\ e.kind = "note" /\ f.kind = "note" => f.at - e.at >= NoteSuppress
  /\ e.kind = "heartbeat" /\ f.kind = "heartbeat" => e.at \div DayLength < f.at \div DayLength

Apart(e, f) ==
  /\ e.answered /\ e.gen < f.gen => Before(e, f)
  /\ f.answered /\ f.gen < e.gen => Before(f, e)

\* What the state remembers of a message that is answered or under way, so
\* that the next decision keeps its distance.
Remembered(e) ==
  /\ e.at <= now /\ e.good <= good
  /\ e.answered /\ e.kind = "page" /\ e.good = good =>
       IF paged THEN lastFailureAt # Never /\ e.at <= lastFailureAt
                ELSE e.at + Suppress <= now
  /\ e.answered /\ e.kind = "note" =>
       IF lastDegradedAt = Never THEN e.at + NoteSuppress <= now ELSE e.at <= lastDegradedAt
  /\ e.answered /\ e.kind = "heartbeat" => e.at \div DayLength <= heartbeatDate

\* What the newest commit has written is still there ...
Stands(l) ==
  /\ l.pc = "page" => paged /\ lastFailureAt = l.at /\ l.good = good
  /\ l.pc = "note" => lastDegradedAt = l.at
  /\ l.pc = "heartbeat" => heartbeatDate = l.at \div DayLength

\* ... and what it has overwritten remembers every other message.
Covers(l, e) ==
  e.answered =>
    /\ l.pc = "heartbeat" /\ e.kind = "heartbeat" => e.at \div DayLength <= l.old
    /\ l.pc = "recovery" /\ e.kind = "page" => e.good < good

Newest(l) == Sending(l) /\ l.gen = gen

\* Every post is of a commit of its own.
GensInv ==
  /\ \A c \in Callers : Sending(call[c]) => call[c].gen <= gen
  /\ \A c, d \in Callers : c # d /\ Sending(call[c]) /\ Sending(call[d]) =>
       call[c].gen # call[d].gen
  /\ \A i \in DOMAIN log : log[i].gen <= gen
  /\ \A c \in Callers, i \in DOMAIN log : Sending(call[c]) => log[i].gen # call[c].gen

CommitsInv ==
  /\ GensInv
  /\ \A c \in Callers : Newest(call[c]) =>
       /\ Stands(call[c])
       /\ \A i \in DOMAIN log : Covers(call[c], log[i])
       /\ \A d \in Callers : d # c /\ Sending(call[d]) => Covers(call[c], Pending(call[d]))

SpacingInv ==
  /\ \A i \in DOMAIN log : Remembered(log[i])
  /\ \A c \in Callers : Sending(call[c]) => Remembered(Pending(call[c]))
  /\ \A i, j \in DOMAIN log : i # j => Apart(log[i], log[j])
  /\ \A c \in Callers, i \in DOMAIN log : Sending(call[c]) => Apart(Pending(call[c]), log[i])
  /\ \A c, d \in Callers : c # d /\ Sending(call[c]) /\ Sending(call[d]) =>
       Apart(Pending(call[c]), Pending(call[d]))

DatesInv == heartbeatDate <= Today /\ \A c \in Callers : call[c].old <= Today

ApartInv == NotifierTypesInv /\ CommitsInv /\ SpacingInv /\ DatesInv

LEMMA MessageType ==
  ASSUME NEW l \in Locals, Sending(l)
  PROVE  /\ Pending(l) \in Messages /\ Pending(l).kind = l.pc /\ Pending(l).at = l.at
         /\ Pending(l).good = l.good /\ Pending(l).gen = l.gen /\ Pending(l).answered = TRUE
BY DEF Pending, Message, Messages, Locals, Sending

LEMMA LogType ==
  ASSUME NotifierTypesInv
  PROVE  \A i \in DOMAIN log : log[i] \in Messages
BY TypesOpened

LEMMA ApartSymmetric ==
  ASSUME NEW e \in Messages, NEW f \in Messages, Apart(e, f)
  PROVE  Apart(f, e)
BY DEF Apart

\* An unanswered message keeps the distances an answered one would.
LEMMA UnansweredKeeps ==
  ASSUME NEW l \in Locals, Sending(l), NEW m \in Messages, m = Message(l, FALSE)
  PROVE  /\ m.gen = l.gen /\ ~m.answered
         /\ Remembered(Pending(l)) => Remembered(m)
         /\ \A e \in Messages : Apart(Pending(l), e) => Apart(m, e)
         /\ \A k \in Locals : Covers(k, m)
<1>1. /\ m.kind = l.pc /\ m.at = l.at /\ m.good = l.good /\ m.gen = l.gen /\ m.answered = FALSE
      /\ Pending(l).kind = l.pc /\ Pending(l).at = l.at /\ Pending(l).good = l.good
      /\ Pending(l).gen = l.gen /\ Pending(l).answered = TRUE
  BY DEF Pending, Message
<1>2. Remembered(Pending(l)) => Remembered(m)
  BY <1>1 DEF Remembered
<1>3. \A k \in Locals : Covers(k, m)
  BY <1>1 DEF Covers
<1>4. ASSUME NEW e \in Messages, Apart(Pending(l), e) PROVE Apart(m, e)
  BY <1>1, <1>4 DEF Apart, Before
<1> QED BY <1>1, <1>2, <1>3, <1>4

\* The post of c has come to an end, or it had none; whether it was answered.
PostEnds(c) ==
  \/ UNCHANGED log
  \/ Sending(call[c]) /\ \E a \in BOOLEAN : log' = Append(log, Message(call[c], a))
Answered(c) == Sending(call[c]) /\ log' = Append(log, Pending(call[c]))

\* The log after such a step.
LEMMA LogAfter ==
  ASSUME ApartInv, NEW c \in Callers, PostEnds(c), NEW i \in DOMAIN log'
  PROVE  \/ i \in DOMAIN log /\ log'[i] = log[i] /\ log[i] \in Messages
         \/ /\ Sending(call[c]) /\ log'[i] \in Messages /\ i \notin DOMAIN log
            /\ \/ log'[i] = Pending(call[c]) /\ Answered(c)
               \/ log'[i] = Message(call[c], FALSE)
<1>1. call[c] \in Locals /\ log \in Seq(Messages) /\ \A j \in DOMAIN log : log[j] \in Messages
  BY TypesOpened, LogType DEF ApartInv
<1>2. CASE UNCHANGED log
  BY <1>1, <1>2
<1>3. ASSUME Sending(call[c]), NEW a \in BOOLEAN, log' = Append(log, Message(call[c], a))
      PROVE  \/ i \in DOMAIN log /\ log'[i] = log[i] /\ log[i] \in Messages
             \/ /\ log'[i] \in Messages /\ i \notin DOMAIN log
                /\ \/ log'[i] = Pending(call[c]) /\ Answered(c)
                   \/ log'[i] = Message(call[c], FALSE)
  <2>1. Message(call[c], a) \in Messages
    BY <1>1, <1>3 DEF Message, Messages, Locals, Sending
  <2>2. /\ DOMAIN log' = 1 .. Len(log) + 1 /\ Len(log) \in Nat /\ DOMAIN log = 1 .. Len(log)
        /\ log'[Len(log) + 1] = Message(call[c], a) /\ \A j \in DOMAIN log : log'[j] = log[j]
    BY <1>1, <1>3, <2>1, AppendProperties
  <2>3. CASE i \in DOMAIN log
    BY <1>1, <2>2, <2>3
  <2>4. CASE i = Len(log) + 1
    <3>1. a = TRUE => log'[i] = Pending(call[c]) /\ Answered(c)
      BY <1>3, <2>2, <2>4 DEF Pending, Answered
    <3>2. a = FALSE => log'[i] = Message(call[c], FALSE)
      BY <2>2, <2>4
    <3>3. log'[i] \in Messages /\ i \notin DOMAIN log
      BY <2>1, <2>2, <2>4
    <3> QED BY <1>3, <3>1, <3>2, <3>3
  <2>5. i \in DOMAIN log \/ i = Len(log) + 1
    BY <2>2
  <2> QED BY <2>3, <2>4, <2>5
<1> QED BY <1>2, <1>3 DEF PostEnds

\* At most one message is new.
LEMMA OneNew ==
  ASSUME ApartInv, NEW c \in Callers, PostEnds(c), NEW i \in DOMAIN log', NEW j \in DOMAIN log',
         i \notin DOMAIN log, j \notin DOMAIN log
  PROVE  i = j
<1>1. call[c] \in Locals /\ log \in Seq(Messages)
  BY TypesOpened DEF ApartInv
<1>2. PICK a \in BOOLEAN : Sending(call[c]) /\ log' = Append(log, Message(call[c], a))
  BY DEF PostEnds
<1>3. Message(call[c], a) \in Messages
  BY <1>1, <1>2 DEF Message, Messages, Locals, Sending
<1>4. DOMAIN log' = 1 .. Len(log) + 1 /\ Len(log) \in Nat /\ DOMAIN log = 1 .. Len(log)
  BY <1>1, <1>2, <1>3, AppendProperties
<1> QED BY <1>4

\* What a step leaves of the newest commit, if it is not of c.
CommitKept(c) ==
  \A l \in Locals : Newest(l) /\ Stands(l) /\ (Sending(call[c]) => l.gen # call[c].gen) =>
    Stands(l)' /\ \A e \in Messages : Covers(l, e) => Covers(l, e)'

\* A step by which c sends nothing, or nothing any more, and nobody commits.
LEMMA QuietCommits ==
  ASSUME ApartInv, NEW c \in Callers, NEW l \in Locals, call' = [call EXCEPT ![c] = l],
         ~Sending(l), UNCHANGED gen, CommitKept(c), PostEnds(c)
  PROVE  CommitsInv'
<1>1. /\ call \in [Callers -> Locals] /\ log \in Seq(Messages)
      /\ call'[c] = l /\ \A d \in Callers : d # c => call'[d] = call[d]
  BY TypesOpened DEF ApartInv
<1>2. \A d \in Callers : Sending(call'[d]) => d # c /\ call'[d] = call[d] /\ Sending(call[d])
  BY <1>1
<1>3. GensInv'
  <2>1. /\ \A d, e \in Callers : d # e /\ Sending(call'[d]) /\ Sending(call'[e]) =>
            call'[d].gen # call'[e].gen
        /\ \A d \in Callers : Sending(call'[d]) => call'[d].gen <= gen'
    BY <1>2 DEF ApartInv, CommitsInv, GensInv
  <2>2. ASSUME NEW i \in DOMAIN log'
        PROVE  /\ log'[i].gen <= gen'
               /\ \A d \in Callers : Sending(call'[d]) => log'[i].gen # call'[d].gen
    <3>1. CASE i \in DOMAIN log /\ log'[i] = log[i]
      BY <1>2, <3>1 DEF ApartInv, CommitsInv, GensInv
    <3>2. CASE Sending(call[c]) /\ log'[i].gen = call[c].gen
      BY <1>2, <3>2 DEF ApartInv, CommitsInv, GensInv
    <3>3. Pending(call[c]).gen = call[c].gen /\ Message(call[c], FALSE).gen = call[c].gen
      BY DEF Pending, Message
    <3> QED BY <3>1, <3>2, <3>3, LogAfter
  <2> QED BY <2>1, <2>2 DEF GensInv
<1>4. ASSUME NEW d \in Callers, Newest(call[d])'
      PROVE  /\ Stands(call[d])'
             /\ \A i \in DOMAIN log' : Covers(call[d], log[i])'
             /\ \A e \in Callers : e # d /\ Sending(call'[e]) => Covers(call[d], Pending(call[e]))'
  <2>1. d # c /\ call'[d] = call[d] /\ Newest(call[d])
    BY <1>2, <1>4 DEF Newest, Sending
  <2> DEFINE k == call[d]
  <2>2. k \in Locals /\ call'[d] = k /\ Newest(k) /\ Stands(k)
    BY <1>1, <2>1 DEF ApartInv, CommitsInv
  <2>3. Sending(call[c]) => k.gen # call[c].gen
    BY <2>1 DEF Newest, ApartInv, CommitsInv, GensInv
  <2>4. PICK m \in Locals : m = k
    BY <2>2
  <2>5. Stands(m)' /\ \A e \in Messages : Covers(m, e) => Covers(m, e)'
    BY <2>2, <2>3, <2>4 DEF CommitKept
  <2>6. call'[d] = m /\ call[d] = m
    BY <2>2, <2>4
  <2> HIDE DEF k
  <2>7. Stands(call[d])'
    BY <2>5, <2>6 DEF Stands
  <2>8. ASSUME NEW i \in DOMAIN log' PROVE Covers(call[d], log[i])'
    <3>1. PICK e \in Messages : log'[i] = e /\ Covers(m, e)
      <4>1. CASE i \in DOMAIN log /\ log'[i] = log[i] /\ log[i] \in Messages
        BY <2>1, <2>6, <4>1 DEF ApartInv, CommitsInv
      <4>2. CASE log'[i] = Pending(call[c]) /\ Sending(call[c])
        <5>1. Pending(call[c]) \in Messages
          BY <1>1, <4>2, MessageType
        <5>2. Covers(call[d], Pending(call[c]))
          BY <2>1, <4>2 DEF ApartInv, CommitsInv
        <5> QED BY <2>6, <4>2, <5>1, <5>2
      <4>3. CASE log'[i] = Message(call[c], FALSE) /\ Sending(call[c]) /\ log'[i] \in Messages
        BY <1>1, <4>3, UnansweredKeeps
      <4> QED BY <4>1, <4>2, <4>3, LogAfter
    <3>2. Covers(m, e)'
      BY <2>5, <3>1
    <3> QED BY <2>6, <3>1, <3>2 DEF Covers
  <2>9. ASSUME NEW e \in Callers, e # d, Sending(call'[e]) PROVE Covers(call[d], Pending(call[e]))'
    <3>1. e # c /\ call'[e] = call[e] /\ Sending(call[e])
      BY <1>2, <2>9
    <3>2. PICK f \in Messages : f = Pending(call[e])
      BY <1>1, <3>1, MessageType
    <3>3. Covers(m, f)
      BY <2>1, <2>6, <2>9, <3>1, <3>2 DEF ApartInv, CommitsInv
    <3>4. Covers(m, f)' /\ Pending(call[e])' = f
      BY <2>5, <3>1, <3>2, <3>3 DEF Pending, Message
    <3> QED BY <2>6, <3>4 DEF Covers
  <2> QED BY <2>7, <2>8, <2>9
<1> QED BY <1>3, <1>4 DEF CommitsInv

\* What a step remembers of the messages there are: if the post of c was not
\* answered, of the others.
MemoryKept(c) ==
  \A e \in Messages :
    /\ Remembered(e)
    /\ e.answered /\ ~Answered(c) /\ Sending(call[c]) =>
         /\ Apart(Pending(call[c]), e) /\ e.gen # call[c].gen /\ e.gen <= gen
         /\ Newest(call[c]) => Covers(call[c], e)
    => Remembered(e)'

LEMMA QuietSpacing ==
  ASSUME ApartInv, NEW c \in Callers, NEW l \in Locals, call' = [call EXCEPT ![c] = l],
         ~Sending(l), MemoryKept(c), PostEnds(c)
  PROVE  SpacingInv'
<1>1. /\ call \in [Callers -> Locals] /\ log \in Seq(Messages)
      /\ call'[c] = l /\ \A d \in Callers : d # c => call'[d] = call[d]
  BY TypesOpened DEF ApartInv
<1>2. \A d \in Callers : Sending(call'[d]) => d # c /\ call'[d] = call[d] /\ Sending(call[d])
  BY <1>1
<1>3. ASSUME NEW d \in Callers, Sending(call'[d])
      PROVE  /\ Pending(call[d])' = Pending(call[d]) /\ Pending(call[d]) \in Messages
             /\ Remembered(Pending(call[d])) /\ Pending(call[d]).gen <= gen
             /\ Sending(call[c]) =>
                  Apart(Pending(call[c]), Pending(call[d])) /\ Pending(call[d]).gen # call[c].gen
             /\ Newest(call[c]) => Covers(call[c], Pending(call[d]))
  <2>1. d # c /\ call'[d] = call[d] /\ Sending(call[d]) /\ call[d] \in Locals
    BY <1>1, <1>2, <1>3
  <2>2. /\ Pending(call[d])' = Pending(call[d]) /\ Pending(call[d]) \in Messages
        /\ Pending(call[d]).gen = call[d].gen
    BY <2>1, MessageType DEF Pending, Message
  <2>3. call[d].gen <= gen /\ (Sending(call[c]) => call[d].gen # call[c].gen)
    BY <2>1 DEF ApartInv, CommitsInv, GensInv
  <2>4. /\ Remembered(Pending(call[d]))
        /\ Sending(call[c]) => Apart(Pending(call[c]), Pending(call[d]))
        /\ Newest(call[c]) => Covers(call[c], Pending(call[d]))
    BY <2>1 DEF ApartInv, SpacingInv, CommitsInv
  <2> QED BY <2>2, <2>3, <2>4
<1>4. ASSUME NEW d \in Callers, Sending(call'[d]) PROVE Remembered(Pending(call[d]))'
  <2>1. PICK e \in Messages : e = Pending(call[d])
    BY <1>3, <1>4
  <2>2. Remembered(e)'
    BY <1>3, <1>4, <2>1 DEF MemoryKept
  <2>3. Pending(call[d])' = e
    BY <1>3, <1>4, <2>1
  <2> QED BY <2>2, <2>3 DEF Remembered
<1>5. \A d, e \in Callers : d # e /\ Sending(call'[d]) /\ Sending(call'[e]) =>
        Apart(Pending(call[d])', Pending(call[e])')
  BY <1>2, <1>3 DEF ApartInv, SpacingInv
<1>6. ASSUME NEW i \in DOMAIN log' PROVE Remembered(log[i])'
  <2>1. CASE i \in DOMAIN log /\ log'[i] = log[i] /\ log[i] \in Messages
    <3>1. PICK e \in Messages : e = log[i]
      BY <2>1
    <3>2. /\ Remembered(e) /\ e.gen <= gen
          /\ Sending(call[c]) => Apart(Pending(call[c]), e) /\ e.gen # call[c].gen
          /\ Newest(call[c]) => Covers(call[c], e)
      BY <2>1, <3>1 DEF ApartInv, SpacingInv, CommitsInv, GensInv
    <3>3. Remembered(e)' /\ log'[i] = e
      BY <2>1, <3>1, <3>2 DEF MemoryKept
    <3> QED BY <3>3 DEF Remembered
  <2>2. CASE log'[i] = Pending(call[c]) /\ Sending(call[c]) /\ log'[i] \in Messages /\ Answered(c)
    <3>1. PICK e \in Messages : e = Pending(call[c]) /\ log'[i] = e
      BY <2>2
    <3>2. Remembered(e)
      BY <2>2, <3>1 DEF ApartInv, SpacingInv
    <3>3. Remembered(e)'
      BY <2>2, <3>2 DEF MemoryKept
    <3> QED BY <3>1, <3>3 DEF Remembered
  <2>3. CASE log'[i] = Message(call[c], FALSE) /\ Sending(call[c]) /\ log'[i] \in Messages
    <3>1. PICK e \in Messages : e = Message(call[c], FALSE) /\ log'[i] = e
      BY <2>3
    <3>2. Remembered(Pending(call[c]))
      BY <2>3 DEF ApartInv, SpacingInv
    <3>3. Remembered(e) /\ ~e.answered
      BY <1>1, <2>3, <3>1, <3>2, UnansweredKeeps
    <3>4. Remembered(e)'
      BY <3>3 DEF MemoryKept
    <3> QED BY <3>1, <3>4 DEF Remembered
  <2> QED BY <2>1, <2>2, <2>3, LogAfter
\* The new message, answered or not, is as far from the others as the pending one was.
<1>7. ASSUME NEW i \in DOMAIN log', i \notin DOMAIN log, NEW e \in Messages,
             Apart(Pending(call[c]), e)
      PROVE  Apart(log'[i], e) /\ Apart(e, log'[i])
  <2>1. /\ Sending(call[c]) /\ log'[i] \in Messages
        /\ log'[i] = Pending(call[c]) \/ log'[i] = Message(call[c], FALSE)
    BY <1>7, LogAfter
  <2>2. Apart(log'[i], e)
    BY <1>1, <1>7, <2>1, UnansweredKeeps
  <2> QED BY <2>1, <2>2, ApartSymmetric
<1>8. ASSUME NEW i \in DOMAIN log', i \in DOMAIN log PROVE log'[i] = log[i] /\ log[i] \in Messages
  BY <1>8, LogAfter
<1>9. ASSUME NEW i \in DOMAIN log', i \notin DOMAIN log PROVE Sending(call[c])
  BY <1>9, LogAfter
<1>10. ASSUME NEW i \in DOMAIN log', NEW j \in DOMAIN log', i # j PROVE Apart(log'[i], log'[j])
  <2>1. CASE i \in DOMAIN log /\ j \in DOMAIN log
    BY <1>8, <1>10, <2>1 DEF ApartInv, SpacingInv
  <2>2. CASE i \notin DOMAIN log /\ j \in DOMAIN log
    <3>1. Apart(Pending(call[c]), log[j])
      BY <1>9, <2>2 DEF ApartInv, SpacingInv
    <3> QED BY <1>7, <1>8, <2>2, <3>1
  <2>3. CASE i \in DOMAIN log /\ j \notin DOMAIN log
    <3>1. Apart(Pending(call[c]), log[i])
      BY <1>9, <2>3 DEF ApartInv, SpacingInv
    <3> QED BY <1>7, <1>8, <2>3, <3>1
  <2>4. CASE i \notin DOMAIN log /\ j \notin DOMAIN log
    BY <1>10, <2>4, OneNew
  <2> QED BY <2>1, <2>2, <2>3, <2>4
<1>11. ASSUME NEW d \in Callers, Sending(call'[d]), NEW i \in DOMAIN log'
       PROVE Apart(Pending(call[d])', log'[i])
  <2>1. CASE i \in DOMAIN log
    BY <1>2, <1>3, <1>8, <1>11, <2>1 DEF ApartInv, SpacingInv
  <2>2. CASE i \notin DOMAIN log
    <3>1. Apart(Pending(call[c]), Pending(call[d]))
      BY <1>3, <1>9, <1>11, <2>2
    <3> QED BY <1>3, <1>7, <1>11, <2>2, <3>1
  <2> QED BY <2>1, <2>2
<1> QED BY <1>4, <1>5, <1>6, <1>10, <1>11 DEF SpacingInv, Apart, Before

\* A step by which c commits to a message.
LEMMA CommitStep ==
  ASSUME ApartInv, NEW c \in Callers, NEW l \in Locals, call' = [call EXCEPT ![c] = l],
         ~Sending(call[c]), Sending(l), l.gen = gen + 1, gen' = gen + 1, UNCHANGED log,
         NEW m \in Messages, m = Pending(l), Stands(l)', Remembered(m)',
         \A e \in Messages : Remembered(e) /\ e.gen <= gen =>
           Remembered(e)' /\ Apart(m, e) /\ Covers(l, e)'
  PROVE  CommitsInv' /\ SpacingInv'
<1>1. /\ call \in [Callers -> Locals] /\ log \in Seq(Messages) /\ gen \in Nat
      /\ call'[c] = l /\ \A d \in Callers : d # c => call'[d] = call[d]
  BY TypesOpened DEF ApartInv
<1>2. ASSUME NEW d \in Callers, d # c, Sending(call'[d])
      PROVE  /\ call'[d] = call[d] /\ Sending(call[d]) /\ call[d].gen <= gen /\ call[d].gen \in Nat
             /\ Pending(call[d])' = Pending(call[d]) /\ Pending(call[d]) \in Messages
             /\ Remembered(Pending(call[d])) /\ Pending(call[d]).gen = call[d].gen
  <2>1. call'[d] = call[d] /\ Sending(call[d]) /\ call[d] \in Locals
    BY <1>1, <1>2
  <2>2. call[d].gen <= gen /\ Remembered(Pending(call[d]))
    BY <2>1 DEF ApartInv, CommitsInv, GensInv, SpacingInv
  <2>3. call[d].gen \in Nat
    BY <2>1 DEF Locals
  <2>4. /\ Pending(call[d])' = Pending(call[d]) /\ Pending(call[d]) \in Messages
        /\ Pending(call[d]).gen = call[d].gen
    BY <2>1, MessageType DEF Pending, Message
  <2> QED BY <2>1, <2>2, <2>3, <2>4
<1>3. ASSUME NEW d \in Callers, d # c, Sending(call'[d])
      PROVE  /\ Remembered(Pending(call[d]))' /\ Apart(m, Pending(call[d]))
             /\ Apart(Pending(call[d]), m)
             /\ Covers(call[c], Pending(call[d]))'
  <2>1. PICK e \in Messages : e = Pending(call[d])
    BY <1>2, <1>3
  <2>2. Remembered(e)' /\ Apart(m, e) /\ Covers(l, e)'
    BY <1>2, <1>3, <2>1
  <2>3. Pending(call[d])' = e
    BY <1>2, <1>3, <2>1
  <2>4. Apart(e, m)
    BY <2>2, ApartSymmetric
  <2> QED BY <1>1, <2>1, <2>2, <2>3, <2>4 DEF Remembered, Covers
<1>4. ASSUME NEW i \in DOMAIN log
      PROVE  /\ Remembered(log[i])' /\ Apart(m, log[i]) /\ Covers(call[c], log[i])'
  <2>1. PICK e \in Messages : e = log[i]
    BY <1>1
  <2>2. Remembered(e)' /\ Apart(m, e) /\ Covers(l, e)'
    BY <2>1 DEF ApartInv, SpacingInv, CommitsInv, GensInv
  <2> QED BY <1>1, <2>1, <2>2 DEF Remembered, Covers
<1>5. Pending(call[c])' = m
  BY <1>1 DEF Pending, Message
<1>6. CommitsInv'
  <2>1. \A d \in Callers : Sending(call'[d]) => call'[d].gen <= gen'
    BY <1>1, <1>2
  <2>2. \A d \in Callers : d # c /\ Sending(call'[d]) => call'[d].gen # l.gen
    BY <1>1, <1>2
  <2>3. \A d, e \in Callers : d # e /\ Sending(call'[d]) /\ Sending(call'[e]) =>
          call'[d].gen # call'[e].gen
    <3> SUFFICES ASSUME NEW d \in Callers, NEW e \in Callers, d # e, Sending(call'[d]), Sending(call'[e])
                 PROVE call'[d].gen # call'[e].gen
      OBVIOUS
    <3>1. CASE d = c \/ e = c
      BY <1>1, <2>2, <3>1
    <3>2. CASE d # c /\ e # c
      BY <1>2, <3>2 DEF ApartInv, CommitsInv, GensInv
    <3> QED BY <3>1, <3>2
  <2>6. ASSUME NEW i \in DOMAIN log
        PROVE log[i].gen <= gen' /\ \A d \in Callers : Sending(call'[d]) => log[i].gen # call'[d].gen
    <3>1. log[i].gen <= gen /\ log[i].gen \in Nat
      BY LogType DEF ApartInv, CommitsInv, GensInv, Messages
    <3>2. \A d \in Callers : d # c /\ Sending(call'[d]) => log[i].gen # call'[d].gen
      BY <1>2 DEF ApartInv, CommitsInv, GensInv
    <3> QED BY <1>1, <3>1, <3>2
  <2>4. \A d \in Callers : Newest(call[d])' => d = c
    BY <1>1, <2>2 DEF Newest
  <2>5. Stands(call[c])'
    BY <1>1 DEF Stands
  <2> QED BY <1>3, <1>4, <2>1, <2>3, <2>4, <2>5, <2>6 DEF CommitsInv, GensInv
<1>7. SpacingInv'
  <2>1. Remembered(Pending(call[c]))'
    BY <1>5 DEF Remembered
  <2>2. \A d \in Callers : Sending(call'[d]) => Remembered(Pending(call[d]))'
    BY <1>3, <2>1
  <2>3. \A d, e \in Callers : d # e /\ Sending(call'[d]) /\ Sending(call'[e]) =>
          Apart(Pending(call[d])', Pending(call[e])')
    <3> SUFFICES ASSUME NEW d \in Callers, NEW e \in Callers, d # e, Sending(call'[d]), Sending(call'[e])
                 PROVE Apart(Pending(call[d])', Pending(call[e])')
      OBVIOUS
    <3>1. CASE d = c
      BY <1>2, <1>3, <1>5, <3>1
    <3>2. CASE e = c
      BY <1>2, <1>3, <1>5, <3>2
    <3>3. CASE d # c /\ e # c
      BY <1>2, <3>3 DEF ApartInv, SpacingInv
    <3> QED BY <3>1, <3>2, <3>3
  <2>4. \A d \in Callers, i \in DOMAIN log : Sending(call'[d]) => Apart(Pending(call[d])', log[i])
    <3> SUFFICES ASSUME NEW d \in Callers, NEW i \in DOMAIN log, Sending(call'[d])
                 PROVE Apart(Pending(call[d])', log[i])
      OBVIOUS
    <3>1. CASE d = c
      BY <1>4, <1>5, <3>1
    <3>2. CASE d # c
      BY <1>2, <3>2 DEF ApartInv, SpacingInv
    <3> QED BY <3>1, <3>2
  <2>5. \A i, j \in DOMAIN log : i # j => Apart(log[i], log[j])
    BY DEF ApartInv, SpacingInv
  <2> QED BY <1>4, <2>2, <2>3, <2>4, <2>5 DEF SpacingInv, Apart, Before
<1> QED BY <1>6, <1>7

LEMMA CommitTypes ==
  ASSUME NotifierTypesInv, calls < MaxCalls
  PROVE  /\ failures + 1 \in 0 .. MaxCalls /\ gen + 1 \in 0 .. 2 * MaxCalls
         /\ Never \in -1 .. Days
<1>1. /\ failures \in Nat /\ gen \in Nat /\ calls \in Nat /\ MaxCalls \in Nat /\ Days \in Nat
      /\ gen + Cardinality(Undecided) <= calls /\ Cardinality(Undecided) \in Nat
  BY TypesOpened, DayTypes DEF NotifierTypesInv
<1>2. failures <= calls
  BY DEF NotifierTypesInv, CountsInv
<1> QED BY <1>1, <1>2 DEF Never

\* A message that is as old as the suppression time allows does not collide.
LEMMA FailureSpacing ==
  ASSUME ApartInv, NEW c \in Callers, NotifyFailure(c)
  PROVE  CommitsInv' /\ SpacingInv'
<1>0. /\ call[c] \in Locals /\ call[c].pc = "idle" /\ now \in Nat /\ Suppress \in Nat
      /\ UNCHANGED <<now, heartbeatDate, lastDegradedAt, good, log>>
      /\ lastFailureAt \in -1 .. now /\ gen \in 0 .. 2 * MaxCalls /\ NotifierTypesInv
      /\ ~Sending(call[c])
  BY TypesOpened, NotifierAssumption DEF ApartInv, NotifyFailure, Enters, NotifierTypesInv, NotifierTypes, Sending, Kinds
<1>1. CASE ~ShouldPage
  <2>1. UNCHANGED <<paged, lastFailureAt, gen, call>>
    BY <1>1 DEF NotifyFailure
  <2>2. call' = [call EXCEPT ![c] = call[c]]
    BY <2>1, KeptCall DEF ApartInv
  <2>3. CommitKept(c)
    BY <1>0, <2>1 DEF CommitKept, Stands, Covers
  <2>4. MemoryKept(c)
    BY <1>0, <2>1 DEF MemoryKept, Remembered
  <2> QED BY <1>0, <2>1, <2>2, <2>3, <2>4, QuietCommits, QuietSpacing DEF PostEnds
<1>2. CASE ShouldPage
  <2>1. /\ paged' = TRUE /\ lastFailureAt' = now /\ gen' = gen + 1
        /\ call' = [call EXCEPT ![c] = Local("page", failures + 1, gen + 1, Never)]
    BY <1>2 DEF NotifyFailure, Becomes
  <2>2. failures + 1 \in 0 .. MaxCalls /\ gen + 1 \in 0 .. 2 * MaxCalls /\ Never \in -1 .. Days
    BY <1>0, CommitTypes, TypesOpened DEF NotifyFailure, Enters
  <2>3. PICK l \in Locals :
          /\ l = Local("page", failures + 1, gen + 1, Never)
          /\ l.pc = "page" /\ l.at = now /\ l.good = good /\ l.gen = gen + 1
    BY <1>0, <2>2, LocalType DEF Kinds
  <2>4. PICK m \in Messages : /\ m = Pending(l) /\ m.kind = "page" /\ m.at = now /\ m.good = good
                             /\ m.answered /\ m.gen = gen + 1
    BY <2>3, MessageType DEF Sending, Kinds
  <2>5. Sending(l) /\ Stands(l)'
    BY <1>0, <2>1, <2>3 DEF Stands, Sending, Kinds
  <2>7. Remembered(m)'
    <3>1. good \in Nat /\ good' = good /\ now' = now /\ paged' /\ lastFailureAt' = now
      BY <1>0, <2>1, TypesOpened
    <3> QED BY <1>0, <2>4, <3>1 DEF Remembered, Never
  <2>6. ASSUME NEW e \in Messages, Remembered(e), e.gen <= gen
        PROVE Remembered(e)' /\ Apart(m, e) /\ Covers(l, e)'
    <3>1. e.at \in Nat /\ e.good \in Nat /\ e.gen \in Nat /\ gen \in Nat
      BY <1>0 DEF Messages
    <3>2. Remembered(e)'
      BY <1>0, <2>1, <2>6, <3>1 DEF Remembered, Never
    <3>3. Covers(l, e)'
      BY <2>3 DEF Covers
    <3>5. e.answered => Before(e, m)
      BY <1>0, <1>2, <2>4, <2>6, <3>1 DEF Before, Remembered, ShouldPage
    <3>4. Apart(m, e)
      BY <2>4, <2>6, <3>1, <3>5 DEF Apart
    <3> QED BY <3>2, <3>3, <3>4
  <2> QED BY <1>0, <2>1, <2>3, <2>4, <2>5, <2>6, <2>7, CommitStep
<1> QED BY <1>1, <1>2

LEMMA SuccessSpacing ==
  ASSUME ApartInv, NEW c \in Callers, NotifySuccess(c)
  PROVE  CommitsInv' /\ SpacingInv'
<1>0. /\ call[c] \in Locals /\ call[c].pc = "idle" /\ now \in Nat /\ good \in Nat
      /\ UNCHANGED <<now, heartbeatDate, lastFailureAt, lastDegradedAt, log>> /\ good' = good + 1
      /\ gen \in 0 .. 2 * MaxCalls /\ NotifierTypesInv /\ failures \in 0 .. MaxCalls
      /\ ~Sending(call[c]) /\ calls < MaxCalls
  BY TypesOpened DEF ApartInv, NotifySuccess, Enters, NotifierTypesInv, NotifierTypes, Sending, Kinds
<1>1. gen + 1 \in 0 .. 2 * MaxCalls /\ Never \in -1 .. Days
  BY <1>0, CommitTypes
<1>2. CASE ~paged
  <2> DEFINE k == IF failures > 0 THEN "blip" ELSE "normal"
  <2>1. UNCHANGED <<paged, gen>> /\ call' = [call EXCEPT ![c] = Local(k, failures, gen, Never)]
    BY <1>2 DEF NotifySuccess, Becomes
  <2>2. PICK l \in Locals : l = Local(k, failures, gen, Never) /\ l.pc \in {"blip", "normal"}
    <3>1. k \in {"blip", "normal"} /\ k \in Kinds \cup {"idle", "blip", "normal"}
      OBVIOUS
    <3> HIDE DEF k
    <3>2. gen \in 0 .. 2 * MaxCalls /\ Never \in -1 .. Days /\ failures \in 0 .. MaxCalls
      BY <1>0, <1>1
    <3>3. Local(k, failures, gen, Never) \in Locals /\ Local(k, failures, gen, Never).pc = k
      BY <1>0, <3>1, <3>2, LocalType
    <3> QED BY <3>1, <3>3
  <2>3. CommitKept(c)
    BY <1>0, <1>2, <2>1 DEF CommitKept, Stands, Covers, Messages
  <2>4. MemoryKept(c)
    <3>1. \A e \in Messages : e.good \in Nat
      BY DEF Messages
    <3>2. \A e \in Messages : Remembered(e) => Remembered(e)'
      BY <1>0, <2>1, <3>1 DEF Remembered
    <3> QED BY <3>2 DEF MemoryKept
  <2>5. ~Sending(l)
    BY <2>2 DEF Sending, Kinds
  <2> HIDE DEF k
  <2> QED BY <1>0, <2>1, <2>2, <2>3, <2>4, <2>5, QuietCommits, QuietSpacing DEF PostEnds
<1>3. CASE paged
  <2>1. /\ paged' = FALSE /\ gen' = gen + 1
        /\ call' = [call EXCEPT ![c] = Local("recovery", failures, gen + 1, Never)]
    BY <1>3 DEF NotifySuccess, Becomes
  <2>2. PICK l \in Locals :
          /\ l = Local("recovery", failures, gen + 1, Never)
          /\ l.pc = "recovery" /\ l.at = now /\ l.good = good /\ l.gen = gen + 1
    BY <1>0, <1>1, LocalType DEF Kinds
  <2>3. PICK m \in Messages : /\ m = Pending(l) /\ m.kind = "recovery" /\ m.at = now /\ m.good = good
                             /\ m.answered /\ m.gen = gen + 1
    BY <2>2, MessageType DEF Sending, Kinds
  <2>4. Sending(l) /\ Stands(l)' /\ Remembered(m)'
    BY <1>0, <2>1, <2>2, <2>3 DEF Stands, Sending, Kinds, Remembered
  <2>5. ASSUME NEW e \in Messages, Remembered(e), e.gen <= gen
        PROVE Remembered(e)' /\ Apart(m, e) /\ Covers(l, e)'
    <3>1. e.at \in Nat /\ e.good \in Nat /\ e.gen \in Nat /\ gen \in Nat
      BY <1>0 DEF Messages
    <3>2. Apart(m, e)
      BY <2>3, <2>5, <3>1 DEF Apart, Before
    <3> QED BY <1>0, <2>1, <2>2, <2>3, <2>5, <3>1, <3>2 DEF Remembered, Covers
  <2> QED BY <1>0, <2>1, <2>2, <2>3, <2>4, <2>5, CommitStep
<1> QED BY <1>2, <1>3

LEMMA DegradedSpacing ==
  ASSUME ApartInv, NEW c \in Callers, NotifyDegraded(c)
  PROVE  CommitsInv' /\ SpacingInv'
<1>0. /\ call[c] \in Locals /\ call[c].pc = "idle" /\ now \in Nat /\ NoteSuppress \in Nat
      /\ UNCHANGED <<now, heartbeatDate, lastFailureAt, paged, good, log>> /\ good \in Nat
      /\ lastDegradedAt \in -1 .. now /\ NotifierTypesInv
      /\ ~Sending(call[c]) /\ calls < MaxCalls
  BY TypesOpened, NotifierAssumption DEF ApartInv, NotifyDegraded, Enters, Sending, Kinds
<1>1. gen + 1 \in 0 .. 2 * MaxCalls /\ Never \in -1 .. Days /\ 0 \in 0 .. MaxCalls
  BY <1>0, CommitTypes, TypesOpened
<1>2. CASE ~NoteAllowed
  <2>1. UNCHANGED <<lastDegradedAt, gen, call>>
    BY <1>2 DEF NotifyDegraded
  <2>2. call' = [call EXCEPT ![c] = call[c]]
    BY <2>1, KeptCall DEF ApartInv
  <2>3. CommitKept(c)
    BY <1>0, <2>1 DEF CommitKept, Stands, Covers
  <2>4. MemoryKept(c)
    BY <1>0, <2>1 DEF MemoryKept, Remembered
  <2> QED BY <1>0, <2>1, <2>2, <2>3, <2>4, QuietCommits, QuietSpacing DEF PostEnds
<1>3. CASE NoteAllowed
  <2>1. /\ lastDegradedAt' = now /\ gen' = gen + 1
        /\ call' = [call EXCEPT ![c] = Local("note", 0, gen + 1, Never)]
    BY <1>3 DEF NotifyDegraded, Becomes
  <2>2. PICK l \in Locals :
          /\ l = Local("note", 0, gen + 1, Never)
          /\ l.pc = "note" /\ l.at = now /\ l.good = good /\ l.gen = gen + 1
    BY <1>0, <1>1, LocalType DEF Kinds
  <2>3. PICK m \in Messages : /\ m = Pending(l) /\ m.kind = "note" /\ m.at = now /\ m.good = good
                             /\ m.answered /\ m.gen = gen + 1
    BY <2>2, MessageType DEF Sending, Kinds
  <2>4. Sending(l) /\ Stands(l)'
    BY <1>0, <2>1, <2>2 DEF Stands, Sending, Kinds
  <2>5. Remembered(m)'
    BY <1>0, <2>1, <2>3 DEF Remembered, Never
  <2>6. ASSUME NEW e \in Messages, Remembered(e), e.gen <= gen
        PROVE Remembered(e)' /\ Apart(m, e) /\ Covers(l, e)'
    <3>1. e.at \in Nat /\ e.good \in Nat /\ e.gen \in Nat /\ gen \in Nat
      BY <1>0, TypesOpened DEF Messages
    <3>4. e.answered => Before(e, m)
      BY <1>0, <1>3, <2>3, <2>6, <3>1 DEF Before, Remembered, NoteAllowed
    <3>2. Apart(m, e)
      BY <2>3, <2>6, <3>1, <3>4 DEF Apart
    <3>3. Remembered(e)'
      BY <1>0, <2>1, <2>6, <3>1 DEF Remembered, Never
    <3> QED BY <2>2, <3>2, <3>3 DEF Covers
  <2> QED BY <1>0, <2>1, <2>2, <2>3, <2>4, <2>5, <2>6, CommitStep
<1> QED BY <1>2, <1>3

LEMMA NormalSpacing ==
  ASSUME ApartInv, NEW c \in Callers, NormalSuccess(c)
  PROVE  CommitsInv' /\ SpacingInv'
<1>0. /\ call[c] \in Locals /\ call[c].pc = "normal" /\ now \in Nat /\ good \in Nat
      /\ UNCHANGED <<now, lastFailureAt, paged, lastDegradedAt, good, log>>
      /\ NotifierTypesInv /\ ~Sending(call[c])
  BY TypesOpened DEF ApartInv, NormalSuccess, Sending, Kinds, history
<1>1. /\ gen + 1 \in 0 .. 2 * MaxCalls /\ Never \in -1 .. Days /\ 0 \in 0 .. MaxCalls
      /\ heartbeatDate \in -1 .. Days /\ Days \in Nat
  <2>1. c \in Undecided /\ IsFiniteSet(Undecided)
    BY <1>0 DEF Undecided, NotifierTypesInv, CountsInv
  <2>2. Cardinality(Undecided) # 0
    BY <2>1, FS_EmptySet
  <2>3. /\ gen \in Nat /\ calls \in Nat /\ MaxCalls \in Nat /\ calls <= MaxCalls
        /\ gen + Cardinality(Undecided) <= calls /\ Cardinality(Undecided) \in Nat
        /\ heartbeatDate \in -1 .. Days /\ Days \in Nat
    BY <1>0, TypesOpened, DayTypes DEF NotifierTypesInv
  <2> QED BY <2>2, <2>3 DEF Never
<1>2. CASE Becomes(c, NoCall) /\ UNCHANGED <<gen, heartbeatDate>>
  <2>1. CommitKept(c)
    BY <1>0, <1>2 DEF CommitKept, Stands, Covers
  <2>2. MemoryKept(c)
    BY <1>0, <1>2 DEF MemoryKept, Remembered
  <2>3. NoCall \in Locals /\ ~Sending(NoCall)
    BY NoCallType DEF NoCall, Sending, Kinds
  <2>4. call' = [call EXCEPT ![c] = NoCall]
    BY <1>2 DEF Becomes
  <2> QED BY <1>0, <1>2, <2>1, <2>2, <2>3, <2>4, QuietCommits, QuietSpacing DEF PostEnds
<1>3. CASE /\ gen' = gen + 1 /\ UNCHANGED heartbeatDate
           /\ Becomes(c, Local("startup", 0, gen + 1, Never))
  <2>1. call' = [call EXCEPT ![c] = Local("startup", 0, gen + 1, Never)]
    BY <1>3 DEF Becomes
  <2>2. PICK l \in Locals :
          /\ l = Local("startup", 0, gen + 1, Never)
          /\ l.pc = "startup" /\ l.at = now /\ l.good = good /\ l.gen = gen + 1
    BY <1>0, <1>1, LocalType DEF Kinds
  <2>3. PICK m \in Messages : /\ m = Pending(l) /\ m.kind = "startup" /\ m.at = now /\ m.good = good
                             /\ m.answered /\ m.gen = gen + 1
    BY <2>2, MessageType DEF Sending, Kinds
  <2>4. Sending(l) /\ Stands(l)' /\ Remembered(m)'
    BY <1>0, <2>2, <2>3 DEF Stands, Sending, Kinds, Remembered
  <2>5. ASSUME NEW e \in Messages, Remembered(e), e.gen <= gen
        PROVE Remembered(e)' /\ Apart(m, e) /\ Covers(l, e)'
    <3>1. e.gen \in Nat /\ gen \in Nat
      BY <1>0, TypesOpened DEF Messages
    <3>2. Apart(m, e)
      BY <2>3, <2>5, <3>1 DEF Apart, Before
    <3> QED BY <1>0, <1>3, <2>2, <2>3, <2>5, <3>2 DEF Remembered, Covers
  <2> QED BY <1>0, <1>3, <2>1, <2>2, <2>3, <2>4, <2>5, CommitStep
<1>4. CASE /\ gen' = gen + 1 /\ heartbeatDate' = Today /\ HeartbeatDue
           /\ Becomes(c, Local("heartbeat", 0, gen + 1, heartbeatDate))
  <2>1. call' = [call EXCEPT ![c] = Local("heartbeat", 0, gen + 1, heartbeatDate)]
    BY <1>4 DEF Becomes
  <2>2. PICK l \in Locals :
          /\ l = Local("heartbeat", 0, gen + 1, heartbeatDate)
          /\ l.pc = "heartbeat" /\ l.at = now /\ l.good = good /\ l.gen = gen + 1
          /\ l.old = heartbeatDate
    BY <1>0, <1>1, LocalType DEF Kinds
  <2>3. PICK m \in Messages : /\ m = Pending(l) /\ m.kind = "heartbeat" /\ m.at = now /\ m.good = good
                             /\ m.answered /\ m.gen = gen + 1
    BY <2>2, MessageType DEF Sending, Kinds
  <2>4. Sending(l) /\ Stands(l)'
    BY <1>0, <1>4, <2>2 DEF Stands, Sending, Kinds, Today
  <2>5. Today \in Nat /\ \A t \in 0 .. now : t \div DayLength \in Nat /\ t \div DayLength <= Today
    BY <1>0, <1>1, DayTypes DEF NotifierTypesInv
  <2>6. Remembered(m)'
    BY <1>0, <1>4, <2>3, <2>5 DEF Remembered, Today
  <2>7. ASSUME NEW e \in Messages, Remembered(e), e.gen <= gen
        PROVE Remembered(e)' /\ Apart(m, e) /\ Covers(l, e)'
    <3>1. e.at \in 0 .. now /\ e.good \in Nat
      BY <1>0, <2>7 DEF Messages, Remembered
    <3>2. e.at \div DayLength \in Nat /\ e.at \div DayLength <= Today
      BY <2>5, <3>1
    <3>3. Remembered(e)'
      BY <1>0, <1>4, <2>7, <3>2 DEF Remembered
    <3>4. heartbeatDate <= Today /\ heartbeatDate # Today
      BY <1>4 DEF HeartbeatDue, ApartInv, DatesInv
    <3>5. e.answered /\ e.kind = "heartbeat" => e.at \div DayLength < now \div DayLength
      BY <1>1, <2>5, <2>7, <3>2, <3>4 DEF Remembered, Today
    <3>8. e.answered => Before(e, m)
      BY <2>3, <3>5 DEF Before
    <3>9. e.gen \in Nat /\ gen \in Nat
      BY <1>0, TypesOpened DEF Messages
    <3>6. Apart(m, e)
      BY <2>3, <2>7, <3>8, <3>9 DEF Apart
    <3>7. Covers(l, e)'
      BY <2>2, <2>7 DEF Covers, Remembered
    <3> QED BY <3>3, <3>6, <3>7
  <2> QED BY <1>0, <1>4, <2>1, <2>2, <2>3, <2>4, <2>6, <2>7, CommitStep
<1> QED BY <1>2, <1>3, <1>4 DEF NormalSuccess

LEMMA BlipSpacing ==
  ASSUME ApartInv, NEW c \in Callers, ForgetBlip(c)
  PROVE  CommitsInv' /\ SpacingInv'
<1>1. /\ call[c].pc = "blip" /\ ~Sending(call[c]) /\ call[c] \in Locals
      /\ UNCHANGED <<now, heartbeatDate, lastFailureAt, paged, lastDegradedAt, gen, good, log>>
      /\ call' = [call EXCEPT ![c] = [call[c] EXCEPT !.pc = "normal"]]
  BY TypesOpened DEF ForgetBlip, Becomes, history, Sending, Kinds, ApartInv
<1>2. PICK l \in Locals : l = [call[c] EXCEPT !.pc = "normal"] /\ ~Sending(l)
  <2>1. [call[c] EXCEPT !.pc = "normal"] \in Locals /\ [call[c] EXCEPT !.pc = "normal"].pc = "normal"
    BY <1>1 DEF Locals
  <2> QED BY <2>1 DEF Sending, Kinds
<1>3. CommitKept(c) /\ MemoryKept(c)
  BY <1>1 DEF CommitKept, MemoryKept, Stands, Covers, Remembered
<1> QED BY <1>1, <1>2, <1>3, QuietCommits, QuietSpacing DEF PostEnds

LEMMA TakenSpacing ==
  ASSUME ApartInv, NEW c \in Callers, PostTaken(c)
  PROVE  CommitsInv' /\ SpacingInv'
<1>1. /\ Sending(call[c])
      /\ UNCHANGED <<now, heartbeatDate, lastFailureAt, paged, lastDegradedAt, gen, good>>
      /\ call' = [call EXCEPT ![c] = NoCall] /\ log' = Append(log, Message(call[c], TRUE))
  BY DEF PostTaken, Becomes, Sending
<1>2. NoCall \in Locals /\ ~Sending(NoCall)
  BY NoCallType DEF NoCall, Sending, Kinds
<1>3. CommitKept(c) /\ MemoryKept(c)
  BY <1>1 DEF CommitKept, MemoryKept, Stands, Covers, Remembered
<1> QED BY <1>1, <1>2, <1>3, QuietCommits, QuietSpacing DEF PostEnds

\* The roll-back: the message that was not answered kept its distance from
\* the answered ones, so that they can do without what it had written.
LEMMA LostSpacing ==
  ASSUME ApartInv, NEW c \in Callers, PostLost(c)
  PROVE  CommitsInv' /\ SpacingInv'
<1>1. /\ Sending(call[c]) /\ UNCHANGED <<now, gen, good>>
      /\ call' = [call EXCEPT ![c] = NoCall]
      /\ log' \in {log, Append(log, Message(call[c], FALSE))}
  BY DEF PostLost, Becomes, Sending
<1>2. NoCall \in Locals /\ ~Sending(NoCall) /\ PostEnds(c)
  BY <1>1, NoCallType DEF NoCall, Sending, Kinds, PostEnds
<1>3. CASE call[c].gen # gen
  <2>1. UNCHANGED <<heartbeatDate, lastFailureAt, paged, lastDegradedAt>>
    BY <1>3 DEF PostLost
  <2>2. CommitKept(c) /\ MemoryKept(c)
    BY <1>1, <2>1 DEF CommitKept, MemoryKept, Stands, Covers, Remembered
  <2> QED BY <1>1, <1>2, <2>2, QuietCommits, QuietSpacing
<1>4. CASE call[c].gen = gen
  <2>1. Newest(call[c]) /\ Stands(call[c])
    BY <1>1, <1>4 DEF Newest, ApartInv, CommitsInv
  <2>2. CommitKept(c)
    BY <1>1, <1>4 DEF CommitKept, Newest
  <2>3. /\ call[c].pc = "page" => ~paged' /\ lastFailureAt' = Never
        /\ call[c].pc = "recovery" => paged' = TRUE
        /\ call[c].pc \notin {"page", "recovery"} => paged' = paged
        /\ call[c].pc # "page" => lastFailureAt' = lastFailureAt
        /\ heartbeatDate' = IF call[c].pc = "heartbeat" THEN call[c].old ELSE heartbeatDate
        /\ lastDegradedAt' = IF call[c].pc = "note" THEN Never ELSE lastDegradedAt
    BY <1>4 DEF PostLost
  <2>4. /\ call[c] \in Locals /\ now \in Nat /\ good \in Nat /\ Suppress \in Nat
        /\ NoteSuppress \in Nat /\ gen \in Nat
    BY TypesOpened, NotifierAssumption DEF ApartInv
  <2>5. /\ Pending(call[c]).kind = call[c].pc /\ Pending(call[c]).at = call[c].at
        /\ Pending(call[c]).good = call[c].good /\ Pending(call[c]).gen = call[c].gen
        /\ call[c].at \in Nat /\ call[c].good \in Nat /\ call[c].at <= now
    <3>1. /\ Pending(call[c]).kind = call[c].pc /\ Pending(call[c]).at = call[c].at
          /\ Pending(call[c]).good = call[c].good /\ Pending(call[c]).gen = call[c].gen
      BY <1>1, <2>4, MessageType
    <3>2. Remembered(Pending(call[c]))
      BY <1>1 DEF ApartInv, SpacingInv
    <3> QED BY <2>4, <3>1, <3>2 DEF Locals, Remembered
  <2>8. ~Answered(c)
    <3>1. log \in Seq(Messages) /\ Pending(call[c]) \in Messages
      BY <1>1, <2>4, TypesOpened, MessageType DEF ApartInv
    <3>2. CASE log' = log
      <4>1. Append(log, Pending(call[c])) # log
        BY <3>1, AppendProperties
      <4> QED BY <3>2, <4>1 DEF Answered
    <3>3. CASE log' = Append(log, Message(call[c], FALSE))
      <4>1. Message(call[c], FALSE) \in Messages
        BY <1>1, <2>4 DEF Message, Messages, Locals, Sending
      <4>2. Message(call[c], FALSE) # Pending(call[c])
        BY DEF Message, Pending
      <4>3. /\ Append(log, Message(call[c], FALSE))[Len(log) + 1] = Message(call[c], FALSE)
            /\ Append(log, Pending(call[c]))[Len(log) + 1] = Pending(call[c])
        BY <3>1, <4>1, AppendProperties
      <4> QED BY <3>3, <4>2, <4>3 DEF Answered
    <3> QED BY <1>1, <3>2, <3>3
  <2>6. ASSUME NEW e \in Messages, Remembered(e),
               e.answered => /\ Apart(Pending(call[c]), e) /\ e.gen # call[c].gen /\ e.gen <= gen
                             /\ Covers(call[c], e)
        PROVE Remembered(e)'
    <3>1. e.at \in Nat /\ e.good \in Nat /\ e.gen \in Nat /\ e.at <= now' /\ e.good <= good'
      BY <1>1, <2>6 DEF Messages, Remembered
    <3>5. e.answered => Before(e, Pending(call[c]))
      BY <1>4, <2>4, <2>5, <2>6, <3>1 DEF Apart
    <3>2. e.answered /\ e.kind = "page" /\ e.good = good' =>
            IF paged' THEN lastFailureAt' # Never /\ e.at <= lastFailureAt'
                      ELSE e.at + Suppress <= now'
      <4>1. CASE call[c].pc = "page"
        BY <1>1, <2>1, <2>3, <2>4, <2>5, <3>1, <3>5, <4>1 DEF Stands, Before
      <4>2. CASE call[c].pc = "recovery"
        BY <1>1, <2>4, <2>6, <3>1, <4>2 DEF Covers
      <4>3. CASE call[c].pc \notin {"page", "recovery"}
        BY <1>1, <2>3, <2>6, <4>3 DEF Remembered
      <4> QED BY <4>1, <4>2, <4>3
    <3>3. e.answered /\ e.kind = "note" =>
            IF lastDegradedAt' = Never THEN e.at + NoteSuppress <= now' ELSE e.at <= lastDegradedAt'
      <4>1. CASE call[c].pc = "note"
        BY <1>1, <2>1, <2>3, <2>4, <2>5, <3>1, <3>5, <4>1 DEF Stands, Before, Never
      <4>2. CASE call[c].pc # "note"
        BY <1>1, <2>3, <2>6, <4>2 DEF Remembered
      <4> QED BY <4>1, <4>2
    <3>4. e.answered /\ e.kind = "heartbeat" => e.at \div DayLength <= heartbeatDate'
      BY <2>3, <2>6 DEF Covers, Remembered
    <3> QED BY <3>1, <3>2, <3>3, <3>4 DEF Remembered
  <2>7. MemoryKept(c)
    BY <1>1, <2>1, <2>6, <2>8 DEF MemoryKept
  <2> QED BY <1>1, <1>2, <2>2, <2>7, QuietCommits, QuietSpacing
<1> QED BY <1>3, <1>4

LEMMA DatesStep ==
  ASSUME ApartInv, [NotifierNext]_notifierVars
  PROVE  DatesInv'
<1>0. /\ call \in [Callers -> Locals] /\ now \in Nat /\ Today \in Nat /\ Never <= Today
      /\ heartbeatDate \in Int /\ heartbeatDate <= Today
      /\ \A c \in Callers : call[c].old \in Int /\ call[c].old <= Today
  <2>1. NotifierTypesInv /\ DatesInv
    BY DEF ApartInv
  <2>2. /\ call \in [Callers -> Locals] /\ now \in Nat /\ heartbeatDate \in -1 .. Days
        /\ Today \in 0 .. Days /\ Days \in Nat
    BY <2>1, TypesOpened, DayTypes DEF NotifierTypesInv
  <2>3. \A c \in Callers : call[c].old \in Int
    BY <2>2 DEF Locals
  <2> QED BY <2>1, <2>2, <2>3 DEF DatesInv, Never
<1>1. ASSUME NEW c \in Callers, now' = now,
             heartbeatDate' \in {heartbeatDate, Today, call[c].old},
             \A d \in Callers : call'[d].old \in {call[d].old, Never, heartbeatDate}
      PROVE  DatesInv'
  BY <1>0, <1>1 DEF DatesInv, Today, Never
<1>2. CASE Tick
  <2>1. now' = now + 1 /\ UNCHANGED <<heartbeatDate, call>>
    BY <1>2 DEF Tick, state
  <2>2. Today' \in Nat /\ Today <= Today'
    BY <1>0, <2>1, DayMonotone DEF Today
  <2> QED BY <1>0, <2>1, <2>2 DEF DatesInv
<1>3. CASE UNCHANGED notifierVars
  BY <1>3 DEF notifierVars, state, DatesInv, Today, ApartInv
<1>4. ASSUME NEW c \in Callers, NEW l, l.old \in {call[c].old, Never, heartbeatDate},
             call' = [call EXCEPT ![c] = l]
      PROVE  \A d \in Callers : call'[d].old \in {call[d].old, Never, heartbeatDate}
  BY <1>0, <1>4
<1>5. \A pc, failed, g, old : Local(pc, failed, g, old).old = old
  BY DEF Local
<1>6. NoCall.old = Never
  BY DEF NoCall
<1>7. ASSUME NEW c \in Callers, NotifyFailure(c) \/ NotifySuccess(c) \/ NotifyDegraded(c)
      PROVE  DatesInv'
  <2>1. /\ now' = now /\ heartbeatDate' = heartbeatDate
        /\ UNCHANGED call \/ \E pc, failed, g : call' = [call EXCEPT ![c] = Local(pc, failed, g, Never)]
    BY <1>7 DEF NotifyFailure, NotifySuccess, NotifyDegraded, Becomes
  <2>2. \A d \in Callers : call'[d].old \in {call[d].old, Never, heartbeatDate}
    BY <1>4, <1>5, <2>1
  <2> QED BY <1>1, <2>1, <2>2
<1>8. ASSUME NEW c \in Callers, ForgetBlip(c) PROVE DatesInv'
  <2>1. [call[c] EXCEPT !.pc = "normal"].old = call[c].old
    BY <1>0, TypesOpened DEF Locals, ApartInv
  <2>2. /\ call' = [call EXCEPT ![c] = [call[c] EXCEPT !.pc = "normal"]]
        /\ now' = now /\ heartbeatDate' = heartbeatDate
    BY <1>8 DEF ForgetBlip, Becomes
  <2>3. \A d \in Callers : call'[d].old \in {call[d].old, Never, heartbeatDate}
    BY <1>4, <2>1, <2>2
  <2> QED BY <1>1, <2>2, <2>3
<1>9. ASSUME NEW c \in Callers, NormalSuccess(c) PROVE DatesInv'
  <2>1. /\ now' = now /\ heartbeatDate' \in {heartbeatDate, Today}
        /\ \/ call' = [call EXCEPT ![c] = NoCall]
           \/ call' = [call EXCEPT ![c] = Local("startup", 0, gen + 1, Never)]
           \/ call' = [call EXCEPT ![c] = Local("heartbeat", 0, gen + 1, heartbeatDate)]
    BY <1>9 DEF NormalSuccess, Becomes
  <2>2. \A d \in Callers : call'[d].old \in {call[d].old, Never, heartbeatDate}
    BY <1>4, <1>5, <1>6, <2>1
  <2> QED BY <1>1, <2>1, <2>2
<1>10. ASSUME NEW c \in Callers, PostTaken(c) \/ PostLost(c) PROVE DatesInv'
  <2>1. /\ now' = now /\ heartbeatDate' \in {heartbeatDate, call[c].old}
        /\ call' = [call EXCEPT ![c] = NoCall]
    BY <1>10 DEF PostTaken, PostLost, Becomes
  <2>2. \A d \in Callers : call'[d].old \in {call[d].old, Never, heartbeatDate}
    BY <1>4, <1>6, <2>1
  <2> QED BY <1>1, <2>1, <2>2
<1> QED BY <1>2, <1>3, <1>7, <1>8, <1>9, <1>10 DEF NotifierNext

\* Time passes, or nothing happens.
LEMMA RestSpacing ==
  ASSUME ApartInv, Tick \/ UNCHANGED notifierVars
  PROVE  CommitsInv' /\ SpacingInv'
<1>1. /\ now \in Nat /\ (now' = now \/ now' = now + 1)
      /\ UNCHANGED <<heartbeatDate, lastFailureAt, paged, lastDegradedAt, gen, good, call, log>>
      /\ call \in [Callers -> Locals] /\ \A i \in DOMAIN log : log[i] \in Messages
      /\ Suppress \in Nat /\ NoteSuppress \in Nat
  BY TypesOpened, LogType, NotifierAssumption DEF ApartInv, Tick, notifierVars, state, history
<1>2. CommitsInv'
  BY <1>1 DEF ApartInv, CommitsInv, GensInv, Newest, Sending, Stands, Covers, Pending, Message
<1>3. ASSUME NEW e \in Messages, Remembered(e) PROVE Remembered(e)'
  BY <1>1, <1>3 DEF Remembered, Messages
<1>4. ASSUME NEW i \in DOMAIN log PROVE Remembered(log[i])'
  <2>1. PICK e \in Messages : e = log[i]
    BY <1>1
  <2>2. Remembered(e)'
    BY <1>3, <2>1 DEF ApartInv, SpacingInv
  <2> QED BY <1>1, <2>1, <2>2 DEF Remembered
<1>5. ASSUME NEW c \in Callers, Sending(call[c]) PROVE Remembered(Pending(call[c]))'
  <2>1. PICK e \in Messages : e = Pending(call[c])
    BY <1>1, <1>5, MessageType
  <2>2. Remembered(e)'
    BY <1>3, <1>5, <2>1 DEF ApartInv, SpacingInv
  <2>3. Pending(call[c])' = e
    BY <1>1, <2>1 DEF Pending, Message
  <2> QED BY <2>2, <2>3 DEF Remembered
<1>6. \A c \in Callers : Pending(call[c])' = Pending(call[c]) /\ Sending(call[c])' = Sending(call[c])
  BY <1>1 DEF Pending, Message, Sending
<1>7. SpacingInv'
  BY <1>1, <1>4, <1>5, <1>6 DEF ApartInv, SpacingInv, Apart, Before
<1> QED BY <1>2, <1>7

LEMMA ApartInit == NotifierInit => ApartInv
<1> SUFFICES ASSUME NotifierInit PROVE ApartInv
  OBVIOUS
<1>1. NotifierTypesInv
  BY NotifierTypesInit
<1>2. \A c \in Callers : ~Sending(call[c]) /\ call[c].old = Never
  BY DEF NotifierInit, Sending, NoCall, Kinds
<1>3. DOMAIN log = {}
  BY DEF NotifierInit
<1>4. heartbeatDate = Never /\ Today \in Nat
  BY <1>1, DayTypes DEF NotifierTypesInv, NotifierInit
<1>5. CommitsInv /\ SpacingInv
  BY <1>2, <1>3 DEF CommitsInv, GensInv, SpacingInv, Newest
<1>6. DatesInv
  BY <1>2, <1>4 DEF DatesInv, Never
<1> QED BY <1>1, <1>5, <1>6 DEF ApartInv

LEMMA ApartStep == ApartInv /\ [NotifierNext]_notifierVars => ApartInv'
<1> SUFFICES ASSUME ApartInv, [NotifierNext]_notifierVars PROVE ApartInv'
  OBVIOUS
<1>1. NotifierTypesInv' /\ DatesInv'
  BY NotifierTypesStep, DatesStep DEF ApartInv
<1>2. CommitsInv' /\ SpacingInv'
  BY FailureSpacing, SuccessSpacing, DegradedSpacing, BlipSpacing, NormalSpacing, TakenSpacing,
     LostSpacing, RestSpacing DEF NotifierNext
<1> QED BY <1>1, <1>2 DEF ApartInv

LEMMA ApartHolds == NotifierSpec => []ApartInv
BY ApartInit, ApartStep, PTL DEF NotifierSpec

\* The channel is not flooded, with any number of callers inside the notifier
\* and whatever posts get lost or are taken without an answer.
THEOREM ChannelStaysCalm == NotifierSpec => []ChannelIsNotFlooded
<1>1. ASSUME ApartInv PROVE ChannelIsNotFlooded
  <2>1. ASSUME NEW i \in DOMAIN log, NEW j \in DOMAIN log, log[i].answered, log[i].gen < log[j].gen
        PROVE  Before(log[i], log[j])
    <3>1. log[i] \in Messages /\ log[j] \in Messages
      BY <1>1, LogType DEF ApartInv
    <3>2. i # j
      BY <2>1, <3>1 DEF Messages
    <3> QED BY <1>1, <2>1, <3>2 DEF ApartInv, SpacingInv, Apart
  <2>2. PagesAreSpaced
    BY <2>1 DEF PagesAreSpaced, Follows, Before
  <2>3. NotesAreSpaced
    BY <2>1 DEF NotesAreSpaced, Follows, Before
  <2>4. OneHeartbeatADay
    BY <2>1 DEF OneHeartbeatADay, Follows, Before
  <2> QED BY <1>1, <2>2, <2>3, <2>4 DEF ApartInv, NotifierTypesInv, ChannelIsNotFlooded
<1> QED BY <1>1, ApartHolds, PTL

-----------------------------------------------------------------------------
(* Slack notifier: callers that come one after the other. *)

\* One caller is inside at most, so that its commit is the newest one; an
\* outage is marked as paged for as long as its page is posted or under way
\* and its recovery is not; failures that were not in a row are counted only
\* in an outage somebody was paged for, until the next good check forgets them.
OneByOne ==
  /\ \A c, d \in Callers : c = d \/ call[c].pc = "idle" \/ call[d].pc = "idle"
  /\ \A c \in Callers : Sending(call[c]) => call[c].gen = gen
  /\ paged => OpenOutage \/ \E c \in Callers : call[c].pc = "page"
  /\ OpenOutage /\ ~repageLost => paged \/ \E c \in Callers : call[c].pc = "recovery"
  /\ failures <= streak \/ OpenOutage \/ \E c \in Callers : call[c].pc = "blip"
  /\ \A c \in Callers : call[c].pc = "recovery" => OpenOutage /\ ~paged /\ failures <= streak
  /\ \A c \in Callers : call[c].pc = "page" => paged /\ (streak >= PageAfter \/ OpenOutage)

OneByOneInv == NotifierTypesInv /\ (~overlapped => OneByOne)

LEMMA OutageAppends ==
  ASSUME log \in Seq(Messages), NEW e \in Messages, log' = Append(log, e)
  PROVE  OpenOutage' <=> \/ e.kind = "page" /\ e.answered
                         \/ (e.kind = "recovery" => ~e.answered) /\ OpenOutage
<1>1. /\ Len(log) \in Nat /\ DOMAIN log = 1 .. Len(log) /\ DOMAIN log' = 1 .. Len(log) + 1
      /\ Len(log') = Len(log) + 1 /\ log'[Len(log) + 1] = e
      /\ \A i \in 1 .. Len(log) : log'[i] = log[i]
  BY AppendProperties
<1>2. CASE e.kind = "page" /\ e.answered
  <2>1. Len(log) + 1 \in DOMAIN log' /\ \A j \in Len(log) + 1 + 1 .. Len(log') : FALSE
    BY <1>1
  <2> QED BY <1>1, <1>2, <2>1 DEF OpenOutage
<1>3. CASE e.kind = "recovery" /\ e.answered
  <2>1. ASSUME NEW i \in DOMAIN log', log'[i].kind = "page",
               \A j \in i + 1 .. Len(log') : log'[j].kind = "recovery" => ~log'[j].answered
        PROVE FALSE
    <3>1. i # Len(log) + 1
      BY <1>1, <1>3, <2>1
    <3>2. Len(log) + 1 \in i + 1 .. Len(log')
      BY <1>1, <3>1
    <3> QED BY <1>1, <1>3, <2>1, <3>2
  <2> QED BY <1>3, <2>1 DEF OpenOutage
<1>4. CASE e.kind \notin {"page", "recovery"} \/ ~e.answered
  <2>1. ASSUME OpenOutage PROVE OpenOutage'
    <3>1. PICK i \in DOMAIN log :
            /\ log[i].kind = "page" /\ log[i].answered
            /\ \A j \in i + 1 .. Len(log) : log[j].kind = "recovery" => ~log[j].answered
      BY <2>1 DEF OpenOutage
    <3>2. i \in DOMAIN log' /\ log'[i].kind = "page" /\ log'[i].answered
      BY <1>1, <3>1
    <3>3. ASSUME NEW j \in i + 1 .. Len(log') PROVE log'[j].kind = "recovery" => ~log'[j].answered
      <4>1. j = Len(log) + 1 \/ (j \in i + 1 .. Len(log) /\ j \in 1 .. Len(log))
        BY <1>1
      <4> QED BY <1>1, <1>4, <3>1, <4>1
    <3> QED BY <3>2, <3>3 DEF OpenOutage
  <2>2. ASSUME OpenOutage' PROVE OpenOutage
    <3>1. PICK i \in DOMAIN log' :
            /\ log'[i].kind = "page" /\ log'[i].answered
            /\ \A j \in i + 1 .. Len(log') : log'[j].kind = "recovery" => ~log'[j].answered
      BY <2>2 DEF OpenOutage
    <3>2. i \in DOMAIN log
      BY <1>1, <1>4, <3>1
    <3>3. ASSUME NEW j \in i + 1 .. Len(log) PROVE log[j].kind = "recovery" => ~log[j].answered
      <4>1. j \in i + 1 .. Len(log') /\ j \in 1 .. Len(log)
        BY <1>1, <3>2
      <4> QED BY <1>1, <3>1, <4>1
    <3> QED BY <1>1, <3>1, <3>2, <3>3 DEF OpenOutage
  <2> QED BY <1>4, <2>1, <2>2
<1> QED BY <1>2, <1>3, <1>4

LEMMA OneByOneStep ==
  ASSUME OneByOneInv, [NotifierNext]_notifierVars, ~overlapped'
  PROVE  OneByOne'
<1>0. /\ call \in [Callers -> Locals] /\ failures \in Nat /\ streak \in Nat /\ log \in Seq(Messages)
      /\ PageAfter \in Nat
  BY TypesOpened, NotifierAssumption DEF OneByOneInv
<1>1. ASSUME NEW c \in Callers, Enters(c)
      PROVE  OneByOne /\ \A d \in Callers : call[d].pc = "idle"
  BY <1>1 DEF Enters, Quiet, OneByOneInv
<1>2. UNCHANGED log => OpenOutage' = OpenOutage
  BY DEF OpenOutage
<1>3. ASSUME NEW c \in Callers, NotifyFailure(c) PROVE OneByOne'
  <2>1. OneByOne /\ \A d \in Callers : call[d].pc = "idle" /\ ~Sending(call[d])
    BY <1>1, <1>3 DEF NotifyFailure, Sending, Kinds
  <2>2. /\ failures' = failures + 1 /\ streak' = streak + 1 /\ UNCHANGED <<log, repageLost>>
        /\ OpenOutage' = OpenOutage
    BY <1>2, <1>3 DEF NotifyFailure
  <2>3. failures <= streak \/ OpenOutage
    BY <2>1 DEF OneByOne
  <2>4. CASE ~ShouldPage
    <3>1. UNCHANGED <<paged, gen, call>>
      BY <1>3, <2>4 DEF NotifyFailure
    <3> QED BY <1>0, <2>1, <2>2, <2>3, <3>1 DEF OneByOne
  <2>5. CASE ShouldPage
    <3>1. /\ paged' = TRUE /\ gen' = gen + 1
          /\ call' = [call EXCEPT ![c] = Local("page", failures + 1, gen + 1, Never)]
      BY <1>3, <2>5 DEF NotifyFailure, Becomes
    <3>2. /\ call'[c].pc = "page" /\ call'[c].gen = gen'
          /\ \A d \in Callers : d # c => call'[d].pc = "idle" /\ ~Sending(call'[d])
      BY <1>0, <2>1, <3>1 DEF Local
    <3>3. streak' >= PageAfter \/ OpenOutage
      BY <1>0, <2>2, <2>3, <2>5 DEF ShouldPage
    <3> QED BY <1>0, <2>1, <2>2, <2>3, <3>1, <3>2, <3>3 DEF OneByOne
  <2> QED BY <2>4, <2>5
<1>4. ASSUME NEW c \in Callers, NotifySuccess(c) PROVE OneByOne'
  <2>1. OneByOne /\ \A d \in Callers : call[d].pc = "idle" /\ ~Sending(call[d])
    BY <1>1, <1>4 DEF NotifySuccess, Sending, Kinds
  <2>2. streak' = 0 /\ UNCHANGED <<log, repageLost>> /\ OpenOutage' = OpenOutage
    BY <1>2, <1>4 DEF NotifySuccess
  <2>3. CASE paged
    <3>1. /\ paged' = FALSE /\ failures' = 0 /\ gen' = gen + 1
          /\ call' = [call EXCEPT ![c] = Local("recovery", failures, gen + 1, Never)]
      BY <1>4, <2>3 DEF NotifySuccess, Becomes
    <3>2. /\ call'[c].pc = "recovery" /\ call'[c].gen = gen'
          /\ \A d \in Callers : d # c => call'[d].pc = "idle" /\ ~Sending(call'[d])
      BY <1>0, <2>1, <3>1 DEF Local
    <3>3. OpenOutage
      BY <2>1, <2>3 DEF OneByOne
    <3> QED BY <2>1, <2>2, <3>1, <3>2, <3>3 DEF OneByOne
  <2>4. CASE ~paged
    <3> DEFINE k == IF failures > 0 THEN "blip" ELSE "normal"
    <3>1. /\ UNCHANGED <<paged, failures, gen>>
          /\ call' = [call EXCEPT ![c] = Local(k, failures, gen, Never)]
      BY <1>4, <2>4 DEF NotifySuccess, Becomes
    <3>2. /\ call'[c].pc = k /\ k \in {"blip", "normal"} /\ ~Sending(call'[c])
          /\ \A d \in Callers : d # c => call'[d].pc = "idle" /\ ~Sending(call'[d])
      BY <1>0, <2>1, <3>1 DEF Local, Sending, Kinds
    <3>3. failures <= 0 \/ call'[c].pc = "blip"
      BY <1>0, <3>2
    <3> HIDE DEF k
    <3> QED BY <2>1, <2>2, <2>4, <3>1, <3>2, <3>3 DEF OneByOne
  <2> QED BY <2>3, <2>4
<1>5. ASSUME NEW c \in Callers, NotifyDegraded(c) PROVE OneByOne'
  <2>1. OneByOne /\ \A d \in Callers : call[d].pc = "idle" /\ ~Sending(call[d])
    BY <1>1, <1>5 DEF NotifyDegraded, Sending, Kinds
  <2>2. UNCHANGED <<log, repageLost, failures, streak, paged>> /\ OpenOutage' = OpenOutage
    BY <1>2, <1>5 DEF NotifyDegraded
  <2>3. CASE UNCHANGED <<gen, call>>
    BY <2>1, <2>2, <2>3 DEF OneByOne
  <2>4. CASE gen' = gen + 1 /\ call' = [call EXCEPT ![c] = Local("note", 0, gen + 1, Never)]
    <3>1. /\ call'[c].pc = "note" /\ call'[c].gen = gen'
          /\ \A d \in Callers : d # c => call'[d].pc = "idle" /\ ~Sending(call'[d])
      BY <1>0, <2>1, <2>4 DEF Local
    <3> QED BY <2>1, <2>2, <3>1 DEF OneByOne
  <2> QED BY <1>5, <2>3, <2>4 DEF NotifyDegraded, Becomes
<1>6. ASSUME NEW c \in Callers, call[c].pc # "idle", UNCHANGED overlapped
      PROVE  OneByOne /\ \A d \in Callers : d # c => call[d].pc = "idle" /\ ~Sending(call[d])
  BY <1>6 DEF OneByOneInv, OneByOne, Sending, Kinds
<1>7. ASSUME NEW c \in Callers, ForgetBlip(c) PROVE OneByOne'
  <2>1. /\ call[c].pc = "blip" /\ failures' = 0 /\ call' = [call EXCEPT ![c] = [call[c] EXCEPT !.pc = "normal"]]
        /\ UNCHANGED <<paged, gen, streak, log, repageLost, overlapped>>
    BY <1>7 DEF ForgetBlip, Becomes, history
  <2>2. OneByOne /\ \A d \in Callers : d # c => call[d].pc = "idle" /\ ~Sending(call[d])
    BY <1>6, <2>1
  <2>3. /\ call'[c].pc = "normal" /\ ~Sending(call'[c]) /\ OpenOutage' = OpenOutage
        /\ \A d \in Callers : d # c => call'[d].pc = "idle" /\ ~Sending(call'[d])
    BY <1>0, <1>2, <2>1, <2>2 DEF Locals, Sending, Kinds
  <2> QED BY <1>0, <2>1, <2>2, <2>3 DEF OneByOne
<1>8. ASSUME NEW c \in Callers, NormalSuccess(c) PROVE OneByOne'
  <2>1. /\ call[c].pc = "normal" /\ UNCHANGED <<paged, failures, streak, log, repageLost, overlapped>>
    BY <1>8 DEF NormalSuccess, history
  <2>2. OneByOne /\ \A d \in Callers : d # c => call[d].pc = "idle" /\ ~Sending(call[d])
    BY <1>6, <2>1
  <2>3. /\ call'[c].pc \in {"idle", "startup", "heartbeat"}
        /\ Sending(call'[c]) => call'[c].gen = gen'
        /\ \A d \in Callers : d # c => call'[d] = call[d]
    BY <1>0, <1>8 DEF NormalSuccess, Becomes, Local, NoCall, Sending, Kinds
  <2>4. OpenOutage' = OpenOutage
    BY <1>2, <2>1
  <2> QED BY <2>1, <2>2, <2>3, <2>4 DEF OneByOne
<1>9. ASSUME NEW c \in Callers, PostTaken(c) PROVE OneByOne'
  <2>1. /\ Sending(call[c]) /\ call' = [call EXCEPT ![c] = NoCall]
        /\ log' = Append(log, Pending(call[c]))
        /\ UNCHANGED <<failures, paged, gen, streak, repageLost, overlapped>>
    BY <1>9 DEF PostTaken, Becomes, Sending, Pending
  <2>2. OneByOne /\ \A d \in Callers : d # c => call[d].pc = "idle" /\ ~Sending(call[d])
    BY <1>6, <2>1 DEF Sending, Kinds
  <2>3. /\ call'[c].pc = "idle" /\ ~Sending(call'[c])
        /\ \A d \in Callers : d # c => call'[d] = call[d]
    BY <1>0, <2>1 DEF NoCall, Sending, Kinds
  <2>4. OpenOutage' <=> call[c].pc = "page" \/ (call[c].pc # "recovery" /\ OpenOutage)
    BY <1>0, <2>1, OutageAppends, MessageType
  <2>5. \A d \in Callers : call'[d].pc = "idle" /\ ~Sending(call'[d])
    BY <2>2, <2>3
  <2>6. /\ paged' => OpenOutage'
        /\ OpenOutage' /\ ~repageLost' => paged'
        /\ failures' <= streak' \/ OpenOutage'
    <3>1. /\ call[c].pc = "page" => paged
          /\ call[c].pc = "recovery" => ~paged /\ failures <= streak
      BY <2>2 DEF OneByOne
    <3>2. call[c].pc # "page" => (paged => OpenOutage)
      BY <2>2 DEF OneByOne
    <3>3. call[c].pc # "recovery" => (OpenOutage /\ ~repageLost => paged)
      BY <2>2 DEF OneByOne
    <3>4. failures <= streak \/ OpenOutage
      BY <2>1, <2>2 DEF OneByOne, Sending, Kinds
    <3> QED BY <2>1, <2>4, <3>1, <3>2, <3>3, <3>4
  <2> QED BY <2>5, <2>6 DEF OneByOne
<1>10. ASSUME NEW c \in Callers, PostLost(c) PROVE OneByOne'
  <2>1. /\ Sending(call[c]) /\ call' = [call EXCEPT ![c] = NoCall]
        /\ UNCHANGED <<gen, streak, overlapped>>
        /\ log' \in {log, Append(log, Message(call[c], FALSE))}
    BY <1>10 DEF PostLost, Becomes, Sending
  <2>8. OpenOutage' <=> OpenOutage
    <3>1. CASE log' = log
      BY <1>2, <3>1
    <3>2. CASE log' = Append(log, Message(call[c], FALSE))
      <4>1. Message(call[c], FALSE) \in Messages /\ Message(call[c], FALSE).answered = FALSE
        BY <1>0, <2>1 DEF Message, Messages, Locals, Sending
      <4> QED BY <1>0, <3>2, <4>1, OutageAppends
    <3> QED BY <2>1, <3>1, <3>2
  <2>2. OneByOne /\ \A d \in Callers : d # c => call[d].pc = "idle" /\ ~Sending(call[d])
    BY <1>6, <2>1 DEF Sending, Kinds
  <2>3. /\ call'[c].pc = "idle" /\ ~Sending(call'[c])
        /\ \A d \in Callers : d # c => call'[d] = call[d]
    BY <1>0, <2>1 DEF NoCall, Sending, Kinds
  <2>4. call[c].gen = gen
    BY <2>1, <2>2 DEF OneByOne
  <2>5. /\ call[c].pc = "page" => ~paged' /\ failures' = failures
        /\ call[c].pc = "recovery" => paged'
        /\ call[c].pc \notin {"page", "recovery"} => paged' = paged /\ failures' = failures
        /\ call[c].pc = "page" /\ OpenOutage => repageLost'
        /\ repageLost => repageLost'
    BY <1>10, <2>4 DEF PostLost
  <2>6. \A d \in Callers : call'[d].pc = "idle" /\ ~Sending(call'[d])
    BY <2>2, <2>3
  <2>7. /\ paged' => OpenOutage'
        /\ OpenOutage' /\ ~repageLost' => paged'
        /\ failures' <= streak' \/ OpenOutage'
    <3>1. call[c].pc = "recovery" => OpenOutage
      BY <2>2 DEF OneByOne
    <3>2. call[c].pc # "page" => (paged => OpenOutage)
      BY <2>2 DEF OneByOne
    <3>3. call[c].pc # "recovery" => (OpenOutage /\ ~repageLost => paged)
      BY <2>2 DEF OneByOne
    <3>4. failures <= streak \/ OpenOutage
      BY <2>1, <2>2 DEF OneByOne, Sending, Kinds
    <3>5. CASE call[c].pc = "page"
      BY <2>1, <2>5, <2>8, <3>4, <3>5
    <3>6. CASE call[c].pc = "recovery"
      BY <2>1, <2>5, <2>8, <3>1, <3>6
    <3>7. CASE call[c].pc \notin {"page", "recovery"}
      BY <2>1, <2>5, <2>8, <3>2, <3>3, <3>4, <3>7
    <3> QED BY <3>5, <3>6, <3>7
  <2> QED BY <2>6, <2>7 DEF OneByOne
<1>11. CASE Tick \/ UNCHANGED notifierVars
  <2>1. UNCHANGED <<failures, paged, gen, call, streak, log, repageLost, overlapped>>
    BY <1>11 DEF Tick, notifierVars, state, history
  <2>2. OneByOne /\ OpenOutage' = OpenOutage
    BY <1>2, <2>1 DEF OneByOneInv
  <2> QED BY <2>1, <2>2 DEF OneByOne, Sending
<1> QED BY <1>3, <1>4, <1>5, <1>7, <1>8, <1>9, <1>10, <1>11 DEF NotifierNext

LEMMA OneByOneHolds == NotifierSpec => []OneByOneInv
<1>1. NotifierInit => OneByOneInv
  <2> SUFFICES ASSUME NotifierInit PROVE OneByOneInv
    OBVIOUS
  <2>1. \A c \in Callers : call[c].pc = "idle" /\ ~Sending(call[c])
    BY DEF NotifierInit, NoCall, Sending, Kinds
  <2>2. ~OpenOutage /\ ~paged /\ failures = 0 /\ streak = 0
    BY DEF NotifierInit, OpenOutage
  <2> QED BY <2>1, <2>2, NotifierTypesInit DEF OneByOneInv, OneByOne
<1>2. OneByOneInv /\ [NotifierNext]_notifierVars => OneByOneInv'
  BY OneByOneStep, NotifierTypesStep DEF OneByOneInv
<1> QED BY <1>1, <1>2, PTL DEF NotifierSpec

\* With callers one after the other, nobody is paged for a streak that is too
\* short: the failures a lost recovery brings back belong to an open outage.
THEOREM PagesStayConfirmed == NotifierSpec => []PagesAreConfirmed
<1>1. OneByOneInv => PagesAreConfirmed
  BY DEF OneByOneInv, OneByOne, PagesAreConfirmed
<1> QED BY <1>1, OneByOneHolds, PTL

\* With callers one after the other, an outage that was paged for stays marked
\* until Slack has answered the post of its recovery, however many posts fail.
THEOREM RecoveryStaysOwed == NotifierSpec => []RecoveryIsOwed
<1>1. OneByOneInv => RecoveryIsOwed
  BY DEF OneByOneInv, OneByOne, RecoveryIsOwed, Quiet
<1> QED BY <1>1, OneByOneHolds, PTL

=============================================================================
