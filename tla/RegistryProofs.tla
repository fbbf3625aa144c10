----------------------------- MODULE RegistryProofs -----------------------------
(***************************************************************************)
(* What is proved of the employees table and of the limits on tries, for   *)
(* every set of accounts, badges, codes, cards and scenes, and for every   *)
(* window, retention and threshold.                                        *)
(***************************************************************************)
EXTENDS Registry, FiniteSetTheorems, TLAPS

-----------------------------------------------------------------------------
(* The limits.  Every attempt that can still count is on the list that is  *)
(* counted; then a window holds no more than the list did when its last    *)
(* attempt was let through.                                                *)

Attempts == [nth : Nat, at : Nat]

ListKept(history, list, time) ==
  /\ history \in SUBSET Attempts /\ IsFiniteSet(history) /\ list \in SUBSET history
  /\ \A f \in history :
       /\ f.nth < Cardinality(history) /\ 1 <= f.at /\ f.at <= time
       /\ f.at > time - Retention => f \in list
  /\ \A t \in Int : Cardinality(During(history, t)) <= PerWindow

LockKept(history, until) ==
  \A f \in history :
    Cardinality(CountedWith(history, f)) >= LockAfter
      => /\ until >= f.at + LockFor
         /\ \A g \in history : g.nth > f.nth => g.at >= f.at + LockFor

TryInv ==
  /\ now \in Nat \ {0} /\ lockedUntil \in [Accounts -> Nat]
  /\ failed \in [Accounts -> SUBSET Attempts] /\ failures \in [Accounts -> SUBSET Attempts]
  /\ applied \in [Accounts -> SUBSET Attempts] /\ applications \in [Accounts -> SUBSET Attempts]
  /\ \A a \in Accounts :
       /\ ListKept(failures[a], failed[a], now)
       /\ ListKept(applications[a], applied[a], now)
       /\ LockKept(failures[a], lockedUntil[a])

LEMMA SubsetCount ==
  ASSUME NEW T, IsFiniteSet(T), NEW S \in SUBSET T
  PROVE  IsFiniteSet(S) /\ Cardinality(S) \in Nat /\ Cardinality(S) <= Cardinality(T)
  BY FS_Subset, FS_CardinalityType

LEMMA NothingKept ==
  ASSUME NEW time
  PROVE  ListKept({}, {}, time)
<1>1. \A t : During({}, t) = {}
  BY DEF During
<1> QED BY <1>1, FS_EmptySet, LimitAssumption DEF ListKept

\* One more attempt that was let through.
LEMMA LongerKeeps ==
  ASSUME now \in Nat \ {0}, NEW H, NEW L, ListKept(H, L, now), MayTry(Within(L, Retention))
  PROVE  /\ ListKept(H \cup {Attempt(H)}, Longer(L, H), now)
         /\ Attempt(H) \in Attempts /\ Attempt(H).nth = Cardinality(H) /\ Attempt(H).at = now
         /\ Attempt(H) \notin H
<1> DEFINE n == Cardinality(H)
<1>1. IsFiniteSet(H) /\ n \in Nat /\ H \in SUBSET Attempts /\ L \in SUBSET H
  BY FS_CardinalityType DEF ListKept
<1>2. PICK f : f = Attempt(H)
  OBVIOUS
<1>3. f \in Attempts /\ f.nth = n /\ f.at = now
  BY <1>1, <1>2 DEF Attempt, Attempts
<1>4. f \notin H
  BY <1>1, <1>3 DEF ListKept, Attempts
<1>5. {Window, PerWindow, Retention} \subseteq Nat \ {0} /\ Window <= Retention
  BY LimitAssumption
<1>6. IsFiniteSet(H \cup {f}) /\ Cardinality(H \cup {f}) = n + 1
  BY <1>1, <1>4, FS_AddElement
<1>7. Longer(L, H) = {g \in L \cup {f} : g.at > now - Retention}
  BY <1>2 DEF Longer, Within
<1>8. Longer(L, H) \in SUBSET (H \cup {f})
  BY <1>1, <1>7
<1>9. ASSUME NEW g \in H \cup {f}
      PROVE  /\ g.nth < n + 1 /\ 1 <= g.at /\ g.at <= now
             /\ g.at > now - Retention => g \in Longer(L, H)
  <2>1. CASE g = f
    BY <1>1, <1>3, <1>5, <1>7, <2>1
  <2>2. CASE g \in H
    <3>1. /\ g.nth < n /\ 1 <= g.at /\ g.at <= now /\ g \in Attempts
          /\ g.at > now - Retention => g \in L
      BY <1>1, <2>2 DEF ListKept
    <3> QED BY <1>1, <1>7, <3>1 DEF Attempts
  <2> QED BY <2>1, <2>2
<1>10. ASSUME NEW t \in Int PROVE Cardinality(During(H \cup {f}, t)) <= PerWindow
  <2>1. IsFiniteSet(During(H, t)) /\ Cardinality(During(H, t)) \in Nat
        /\ Cardinality(During(H, t)) <= PerWindow
    <3>1. During(H, t) \in SUBSET H
      BY DEF During
    <3> QED BY <1>1, <3>1, SubsetCount DEF ListKept
  <2>2. CASE t <= now /\ now < t + Window
    <3> DEFINE recent == Within(Within(L, Retention), Window)
    <3>1. During(H \cup {f}, t) = During(H, t) \cup {f}
      BY <1>3, <2>2 DEF During
    <3>2. During(H, t) \in SUBSET recent
      <4> SUFFICES ASSUME NEW g \in During(H, t) PROVE g \in recent
        OBVIOUS
      <4>1. g \in H /\ t <= g.at /\ g.at \in Nat
        BY <1>1 DEF During, Attempts
      <4>2. g.at > now - Window /\ g.at > now - Retention
        BY <1>5, <2>2, <4>1
      <4>3. g \in L
        BY <4>1, <4>2 DEF ListKept
      <4> QED BY <4>2, <4>3 DEF Within
    <3>3. recent \in SUBSET H
      BY <1>1 DEF Within
    <3>4. IsFiniteSet(recent) /\ Cardinality(recent) \in Nat
          /\ Cardinality(During(H, t)) <= Cardinality(recent)
      BY <1>1, <3>2, <3>3, SubsetCount
    <3>5. Cardinality(recent) < PerWindow
      BY DEF MayTry
    <3>6. f \notin During(H, t)
      BY <1>4 DEF During
    <3>7. Cardinality(During(H, t) \cup {f}) = Cardinality(During(H, t)) + 1
      BY <2>1, <3>6, FS_AddElement
    <3>8. Cardinality(During(H, t)) + 1 <= PerWindow
      <4> HIDE DEF recent
      <4> QED BY <1>5, <2>1, <3>4, <3>5
    <3> QED BY <3>1, <3>7, <3>8
  <2>3. CASE ~(t <= now /\ now < t + Window)
    <3>1. During(H \cup {f}, t) = During(H, t)
      BY <1>3, <2>3 DEF During
    <3> QED BY <2>1, <3>1
  <2> QED BY <2>2, <2>3
<1>11. ListKept(H \cup {f}, Longer(L, H), now)
  BY <1>1, <1>3, <1>6, <1>8, <1>9, <1>10 DEF ListKept
<1> QED BY <1>2, <1>3, <1>4, <1>11

\* A failure that was let through comes after every lock-out, and starts one
\* when it is counted with enough of the others.
LEMMA FailureLocks ==
  ASSUME now \in Nat \ {0}, NEW H, NEW L, ListKept(H, L, now), MayTry(Within(L, Retention)),
         NEW until \in Nat, LockKept(H, until), now >= until
  PROVE  LockKept(H \cup {Attempt(H)},
                  IF Cardinality(Longer(L, H)) >= LockAfter THEN now + LockFor ELSE until)
<1> DEFINE next == IF Cardinality(Longer(L, H)) >= LockAfter THEN now + LockFor ELSE until
<1>1. PICK f : f = Attempt(H)
  OBVIOUS
<1>2. /\ ListKept(H \cup {f}, Longer(L, H), now)
      /\ f \in Attempts /\ f.nth = Cardinality(H) /\ f.at = now /\ f \notin H
  BY <1>1, LongerKeeps
<1>3. H \in SUBSET Attempts /\ \A g \in H : g.nth < f.nth /\ g.at <= now
  BY <1>2 DEF ListKept
<1>4. LockFor \in Nat \ {0} /\ LockAfter \in Nat \ {0} /\ Retention \in Nat \ {0}
  BY LimitAssumption
<1>5. ASSUME NEW g \in H, Cardinality(CountedWith(H \cup {f}, g)) >= LockAfter
      PROVE  /\ next >= g.at + LockFor
             /\ \A h \in H \cup {f} : h.nth > g.nth => h.at >= g.at + LockFor
  <2>1. CountedWith(H \cup {f}, g) = CountedWith(H, g)
    BY <1>2, <1>3 DEF CountedWith, Attempts
  <2>2. /\ until >= g.at + LockFor
        /\ \A h \in H : h.nth > g.nth => h.at >= g.at + LockFor
    BY <1>5, <2>1 DEF LockKept
  <2>3. g.at \in Nat /\ g.at <= now
    BY <1>3 DEF Attempts
  <2>4. next >= g.at + LockFor
    BY <1>4, <2>2, <2>3
  <2>5. f.at >= g.at + LockFor
    BY <1>2, <1>4, <2>2, <2>3
  <2> QED BY <2>2, <2>4, <2>5
<1>6. ASSUME Cardinality(CountedWith(H \cup {f}, f)) >= LockAfter
      PROVE  /\ next >= f.at + LockFor
             /\ \A h \in H \cup {f} : h.nth > f.nth => h.at >= f.at + LockFor
  <2>1. CountedWith(H \cup {f}, f) \in SUBSET Longer(L, H)
    <3> SUFFICES ASSUME NEW g \in CountedWith(H \cup {f}, f) PROVE g \in Longer(L, H)
      OBVIOUS
    <3>1. g \in H \cup {f} /\ g.at > now - Retention
      BY <1>2, <1>3, <1>4 DEF CountedWith, Attempts
    <3> QED BY <1>2, <3>1 DEF ListKept
  <2>2. IsFiniteSet(Longer(L, H))
    BY <1>2, SubsetCount DEF ListKept
  <2>3. Cardinality(CountedWith(H \cup {f}, f)) \in Nat /\ Cardinality(Longer(L, H)) \in Nat
        /\ Cardinality(CountedWith(H \cup {f}, f)) <= Cardinality(Longer(L, H))
    BY <2>1, <2>2, SubsetCount, FS_CardinalityType
  <2>4. next = now + LockFor
    BY <1>4, <1>6, <2>3
  <2>5. \A h \in H \cup {f} : ~(h.nth > f.nth)
    BY <1>2, <1>3 DEF Attempts
  <2> QED BY <1>2, <1>4, <2>4, <2>5
<1>7. LockKept(H \cup {f}, next)
  <2> HIDE DEF next
  <2> QED BY <1>5, <1>6 DEF LockKept
<1> QED BY <1>1, <1>7

LEMMA LaterKeeps ==
  ASSUME NEW time \in Nat, NEW H, NEW L, ListKept(H, L, time)
  PROVE  ListKept(H, L, time + 1)
<1>1. PICK next \in Nat : next = time + 1
  OBVIOUS
<1>2. /\ H \in SUBSET Attempts /\ IsFiniteSet(H) /\ L \in SUBSET H
      /\ \A f \in H : f.nth < Cardinality(H) /\ 1 <= f.at
      /\ \A t \in Int : Cardinality(During(H, t)) <= PerWindow
  BY DEF ListKept
<1>3. ASSUME NEW f \in H
      PROVE  f.at <= next /\ (f.at > next - Retention => f \in L)
  <2>1. f.at \in Nat /\ f.at <= time /\ (f.at > time - Retention => f \in L)
    BY DEF ListKept, Attempts
  <2> QED BY <1>1, <2>1, LimitAssumption
<1>4. ListKept(H, L, next)
  BY <1>2, <1>3, Zenon DEF ListKept
<1> QED BY <1>1, <1>4

LEMMA TryInit == Init => TryInv
<1> SUFFICES ASSUME LimitInit PROVE TryInv
  BY DEF Init
<1>1. \A a \in Accounts : failures[a] = {} /\ failed[a] = {} /\ applications[a] = {} /\ applied[a] = {}
  BY DEF LimitInit, NoTries
<1>2. \A until : LockKept({}, until)
  BY DEF LockKept
<1>3. /\ now \in Nat \ {0} /\ lockedUntil \in [Accounts -> Nat]
      /\ failed \in [Accounts -> SUBSET Attempts] /\ failures \in [Accounts -> SUBSET Attempts]
      /\ applied \in [Accounts -> SUBSET Attempts] /\ applications \in [Accounts -> SUBSET Attempts]
  BY DEF LimitInit, NoTries
<1> QED BY <1>1, <1>2, <1>3, NothingKept DEF TryInv

\* One account of the lists changes.
LEMMA OneAccount ==
  ASSUME NEW l, NEW m, NEW S, l \in [Accounts -> S], NEW a \in Accounts, NEW x \in S,
         m = [l EXCEPT ![a] = x]
  PROVE  m \in [Accounts -> S] /\ m[a] = x /\ \A b \in Accounts \ {a} : m[b] = l[b]
  OBVIOUS

LEMMA FailureKeeps ==
  ASSUME TryInv, NEW a \in Accounts, MayGuess(a), RecordFailure(a)
  PROVE  TryInv'
<1> DEFINE H == failures[a]  L == failed[a]
           until == IF Cardinality(Longer(L, H)) >= LockAfter THEN now + LockFor ELSE lockedUntil[a]
<1>1. /\ now \in Nat \ {0} /\ ListKept(H, L, now) /\ LockKept(H, lockedUntil[a])
      /\ lockedUntil[a] \in Nat /\ now >= lockedUntil[a] /\ MayTry(Within(L, Retention))
  BY DEF TryInv, MayGuess
<1>2. /\ ListKept(H \cup {Attempt(H)}, Longer(L, H), now) /\ Attempt(H) \in Attempts
  BY <1>1, LongerKeeps
<1>3. LockKept(H \cup {Attempt(H)}, until)
  BY <1>1, FailureLocks
<1>4. until \in Nat
  BY <1>1, LimitAssumption
<1>5. H \cup {Attempt(H)} \in SUBSET Attempts /\ Longer(L, H) \in SUBSET Attempts
  BY <1>2 DEF ListKept
<1>6. /\ failed' \in [Accounts -> SUBSET Attempts] /\ failed'[a] = Longer(L, H)
      /\ \A b \in Accounts \ {a} : failed'[b] = failed[b]
  <2>1. failed' = [failed EXCEPT ![a] = Longer(L, H)] /\ failed \in [Accounts -> SUBSET Attempts]
    BY DEF RecordFailure, TryInv
  <2> QED BY <1>5, <2>1, OneAccount
<1>7. /\ failures' \in [Accounts -> SUBSET Attempts] /\ failures'[a] = H \cup {Attempt(H)}
      /\ \A b \in Accounts \ {a} : failures'[b] = failures[b]
  <2>1. failures' = [failures EXCEPT ![a] = H \cup {Attempt(H)}]
        /\ failures \in [Accounts -> SUBSET Attempts]
    BY DEF RecordFailure, TryInv
  <2> QED BY <1>5, <2>1, OneAccount
<1>8. /\ lockedUntil' \in [Accounts -> Nat] /\ lockedUntil'[a] = until
      /\ \A b \in Accounts \ {a} : lockedUntil'[b] = lockedUntil[b]
  <2>1. /\ lockedUntil \in [Accounts -> Nat]
        /\ lockedUntil' = IF Cardinality(Longer(L, H)) >= LockAfter
                          THEN [lockedUntil EXCEPT ![a] = now + LockFor] ELSE lockedUntil
    BY <1>6 DEF RecordFailure, TryInv
  <2>2. now + LockFor \in Nat
    BY <1>1, LimitAssumption
  <2> QED BY <2>1, <2>2
<1>9. now' = now /\ applied' = applied /\ applications' = applications
  BY DEF RecordFailure
<1>10. ASSUME NEW b \in Accounts
       PROVE  /\ ListKept(failures'[b], failed'[b], now')
              /\ LockKept(failures'[b], lockedUntil'[b])
  <2>1. CASE b = a
    <3> HIDE DEF H, L, until
    <3> QED BY <1>2, <1>3, <1>6, <1>7, <1>8, <1>9, <2>1
  <2>2. CASE b # a
    BY <1>6, <1>7, <1>8, <1>9, <2>2 DEF TryInv
  <2> QED BY <2>1, <2>2
<1>11. TryInv'
  <2>1. \A b \in Accounts : ListKept(applications'[b], applied'[b], now')
    BY <1>9 DEF TryInv
  <2>2. now' \in Nat \ {0} /\ applied' \in [Accounts -> SUBSET Attempts]
        /\ applications' \in [Accounts -> SUBSET Attempts]
    BY <1>9 DEF TryInv
  <2> QED BY <1>6, <1>7, <1>8, <1>10, <2>1, <2>2 DEF TryInv
<1> QED BY <1>11

LEMMA ForgetKeeps ==
  ASSUME TryInv, NEW a \in Accounts, ForgetFailures(a)
  PROVE  TryInv'
<1>1. /\ failed' \in [Accounts -> SUBSET Attempts] /\ failed'[a] = {}
      /\ \A b \in Accounts \ {a} : failed'[b] = failed[b]
  BY DEF ForgetFailures, TryInv
<1>2. /\ failures' \in [Accounts -> SUBSET Attempts] /\ failures'[a] = {}
      /\ \A b \in Accounts \ {a} : failures'[b] = failures[b]
  BY DEF ForgetFailures, TryInv
<1>3. /\ lockedUntil' \in [Accounts -> Nat]
      /\ \A b \in Accounts \ {a} : lockedUntil'[b] = lockedUntil[b]
  BY DEF ForgetFailures, TryInv
<1>4. now' = now /\ applied' = applied /\ applications' = applications
  BY DEF ForgetFailures
<1>5. ASSUME NEW b \in Accounts
      PROVE  ListKept(failures'[b], failed'[b], now') /\ LockKept(failures'[b], lockedUntil'[b])
  <2>1. CASE b = a
    <3>1. \A until : LockKept({}, until)
      BY DEF LockKept
    <3> QED BY <1>1, <1>2, <2>1, <3>1, NothingKept
  <2>2. CASE b # a
    BY <1>1, <1>2, <1>3, <1>4, <2>2 DEF TryInv
  <2> QED BY <2>1, <2>2
<1>6. \A b \in Accounts : ListKept(applications'[b], applied'[b], now')
  BY <1>4 DEF TryInv
<1>7. now' \in Nat \ {0} /\ applied' \in [Accounts -> SUBSET Attempts]
      /\ applications' \in [Accounts -> SUBSET Attempts]
  BY <1>4 DEF TryInv
<1> QED BY <1>1, <1>2, <1>3, <1>5, <1>6, <1>7 DEF TryInv

LEMMA ApplicationKeeps ==
  ASSUME TryInv, NEW a \in Accounts, CountApplication(a)
  PROVE  TryInv'
<1> DEFINE H == applications[a]  L == applied[a]
<1>1. now \in Nat \ {0} /\ ListKept(H, L, now) /\ MayTry(Within(L, Retention))
  BY DEF TryInv, CountApplication
<1>2. /\ ListKept(H \cup {Attempt(H)}, Longer(L, H), now) /\ Attempt(H) \in Attempts
  BY <1>1, LongerKeeps
<1>3. H \cup {Attempt(H)} \in SUBSET Attempts /\ Longer(L, H) \in SUBSET Attempts
  BY <1>2 DEF ListKept
<1>4. /\ applied' \in [Accounts -> SUBSET Attempts] /\ applied'[a] = Longer(L, H)
      /\ \A b \in Accounts \ {a} : applied'[b] = applied[b]
  <2>1. applied' = [applied EXCEPT ![a] = Longer(L, H)] /\ applied \in [Accounts -> SUBSET Attempts]
    BY DEF CountApplication, TryInv
  <2> QED BY <1>3, <2>1, OneAccount
<1>5. /\ applications' \in [Accounts -> SUBSET Attempts] /\ applications'[a] = H \cup {Attempt(H)}
      /\ \A b \in Accounts \ {a} : applications'[b] = applications[b]
  <2>1. applications' = [applications EXCEPT ![a] = H \cup {Attempt(H)}]
        /\ applications \in [Accounts -> SUBSET Attempts]
    BY DEF CountApplication, TryInv
  <2> QED BY <1>3, <2>1, OneAccount
<1>6. now' = now /\ failed' = failed /\ failures' = failures /\ lockedUntil' = lockedUntil
  BY DEF CountApplication
<1>7. ASSUME NEW b \in Accounts
      PROVE  ListKept(applications'[b], applied'[b], now')
  <2>1. CASE b = a
    <3> HIDE DEF H, L
    <3> QED BY <1>2, <1>4, <1>5, <1>6, <2>1
  <2>2. CASE b # a
    BY <1>4, <1>5, <1>6, <2>2 DEF TryInv
  <2> QED BY <2>1, <2>2
<1>8. \A b \in Accounts : ListKept(failures'[b], failed'[b], now') /\ LockKept(failures'[b], lockedUntil'[b])
  BY <1>6 DEF TryInv
<1>9. /\ now' \in Nat \ {0} /\ lockedUntil' \in [Accounts -> Nat]
      /\ failed' \in [Accounts -> SUBSET Attempts] /\ failures' \in [Accounts -> SUBSET Attempts]
  BY <1>6 DEF TryInv
<1> QED BY <1>4, <1>5, <1>7, <1>8, <1>9 DEF TryInv

LEMMA ClockKeeps ==
  ASSUME TryInv, ClockAdvances
  PROVE  TryInv'
<1>1. /\ now' = now + 1 /\ failed' = failed /\ failures' = failures /\ lockedUntil' = lockedUntil
      /\ applied' = applied /\ applications' = applications /\ now \in Nat
  BY DEF ClockAdvances, TryInv
<1>2. ASSUME NEW b \in Accounts
      PROVE  /\ ListKept(failures'[b], failed'[b], now') /\ LockKept(failures'[b], lockedUntil'[b])
             /\ ListKept(applications'[b], applied'[b], now')
  <2>1. /\ ListKept(failures[b], failed[b], now) /\ LockKept(failures[b], lockedUntil[b])
        /\ ListKept(applications[b], applied[b], now)
    BY DEF TryInv
  <2> QED BY <1>1, <2>1, LaterKeeps
<1>3. /\ now' \in Nat \ {0} /\ lockedUntil' \in [Accounts -> Nat]
      /\ failed' \in [Accounts -> SUBSET Attempts] /\ failures' \in [Accounts -> SUBSET Attempts]
      /\ applied' \in [Accounts -> SUBSET Attempts] /\ applications' \in [Accounts -> SUBSET Attempts]
  BY <1>1 DEF TryInv
<1> QED BY <1>2, <1>3 DEF TryInv

LEMMA LimitsUntouched ==
  ASSUME TryInv, UNCHANGED limitVars
  PROVE  TryInv'
<1>1. UNCHANGED <<now, failed, lockedUntil, applied, failures, applications>>
  BY DEF limitVars
<1>2. \A b \in Accounts :
        /\ ListKept(failures'[b], failed'[b], now') /\ LockKept(failures'[b], lockedUntil'[b])
        /\ ListKept(applications'[b], applied'[b], now')
  BY <1>1 DEF TryInv
<1>3. /\ now' \in Nat \ {0} /\ lockedUntil' \in [Accounts -> Nat]
      /\ failed' \in [Accounts -> SUBSET Attempts] /\ failures' \in [Accounts -> SUBSET Attempts]
      /\ applied' \in [Accounts -> SUBSET Attempts] /\ applications' \in [Accounts -> SUBSET Attempts]
  BY <1>1 DEF TryInv
<1> QED BY <1>2, <1>3 DEF TryInv

-----------------------------------------------------------------------------
(* The employees and their scans. *)

Staff == [Badges -> Rows \cup {NoRow}]
Children == [table : Tables, badge : Badges, key : Apps \cup Dates]

\* A row is deleted only when no scan hangs on it, and a merge takes the scans
\* along; unique columns are filled with what nobody else holds.
StaffInv ==
  /\ emp \in Staff /\ OneHolder(emp)
  /\ child \in SUBSET Children
  /\ \A r \in child : r.table = "attendance" => Is(r.badge)
  /\ budget \in Budgets

\* Nobody else holds what the row of badge b would.
FreeFor(staff, b, row) ==
  \A other \in Badges \ {b} : staff[other] # NoRow =>
    /\ row.account = staff[other].account => row.account = NoAccount
    /\ row.code = staff[other].code => row.code = NoCode
    /\ row.card = staff[other].card => row.card = NoCard

LEMMA PutKeepsHolders ==
  ASSUME NEW staff \in Staff, OneHolder(staff), NEW b, NEW row \in Rows, FreeFor(staff, b, row)
  PROVE  /\ [staff EXCEPT ![b] = row] \in Staff /\ OneHolder([staff EXCEPT ![b] = row])
         /\ \A c \in Badges : staff[c] # NoRow \/ c = b => [staff EXCEPT ![b] = row][c] # NoRow
<1>1. PICK next : next = [staff EXCEPT ![b] = row]
  OBVIOUS
<1>2. row # NoRow
  BY EmployeesAssumption
<1>3. next \in Staff
  BY <1>1 DEF Staff
<1>4. \A c \in Badges : next[c] = IF c = b THEN row ELSE staff[c]
  BY <1>1 DEF Staff
<1>5. OneHolder(next)
  <2> SUFFICES ASSUME NEW c \in Badges, NEW other \in Badges, c # other,
                      next[c] # NoRow, next[other] # NoRow
               PROVE  /\ next[c].account = next[other].account => next[c].account = NoAccount
                      /\ next[c].code = next[other].code => next[c].code = NoCode
                      /\ next[c].card = next[other].card => next[c].card = NoCard
    BY DEF OneHolder
  <2>1. CASE c = b
    BY <1>4, <2>1 DEF FreeFor
  <2>2. CASE other = b
    BY <1>4, <2>2 DEF FreeFor
  <2>3. CASE c # b /\ other # b
    BY <1>4, <2>3 DEF OneHolder
  <2> QED BY <2>1, <2>2, <2>3
<1> QED BY <1>1, <1>2, <1>3, <1>4, <1>5

LEMMA RemovalKeepsHolders ==
  ASSUME NEW staff \in Staff, OneHolder(staff), NEW b
  PROVE  [staff EXCEPT ![b] = NoRow] \in Staff /\ OneHolder([staff EXCEPT ![b] = NoRow])
<1>1. PICK next : next = [staff EXCEPT ![b] = NoRow]
  OBVIOUS
<1>2. next \in Staff
  BY <1>1 DEF Staff
<1>3. \A c \in Badges : next[c] = IF c = b THEN NoRow ELSE staff[c]
  BY <1>1 DEF Staff
<1>4. OneHolder(next)
  BY <1>3 DEF OneHolder
<1> QED BY <1>1, <1>2, <1>4

\* The row keeps what it held, or gives it up.
LEMMA LessIsFree ==
  ASSUME NEW staff, OneHolder(staff), NEW b \in Badges, staff[b] # NoRow, NEW row,
         row.account \in {staff[b].account, NoAccount}, row.code \in {staff[b].code, NoCode},
         row.card \in {staff[b].card, NoCard}
  PROVE  FreeFor(staff, b, row)
<1> SUFFICES ASSUME NEW other \in Badges \ {b}, staff[other] # NoRow
             PROVE  /\ row.account = staff[other].account => row.account = NoAccount
                    /\ row.code = staff[other].code => row.code = NoCode
                    /\ row.card = staff[other].card => row.card = NoCard
  BY DEF FreeFor
<1> QED BY DEF OneHolder

\* A row is written and no scan comes or goes.
LEMMA PutKeeps ==
  ASSUME StaffInv, NEW b, NEW row \in Rows, FreeFor(emp, b, row), Put(b, row),
         budget' = budget, child' \in SUBSET Children,
         \A r \in child' : r.table = "attendance" => r \in child
  PROVE  StaffInv'
<1>1. emp \in Staff /\ OneHolder(emp)
  BY DEF StaffInv
<1>2. emp' = [emp EXCEPT ![b] = row]
  BY DEF Put
<1>3. emp' \in Staff /\ OneHolder(emp') /\ \A c \in Badges : emp[c] # NoRow => emp'[c] # NoRow
  BY <1>1, <1>2, PutKeepsHolders
<1>4. ASSUME NEW r \in child', r.table = "attendance" PROVE emp'[r.badge] # NoRow
  <2>1. r \in child /\ emp[r.badge] # NoRow /\ r.badge \in Badges
    BY <1>4 DEF StaffInv, Children, Is
  <2> QED BY <1>3, <2>1
<1> QED BY <1>3, <1>4 DEF StaffInv, Is

LEMMA StaffUntouched ==
  ASSUME StaffInv, emp' = emp, budget' = budget, child' \in SUBSET Children,
         \A r \in child' : r.table = "attendance" => r \in child \/ Is(r.badge)
  PROVE  StaffInv'
  BY DEF StaffInv, Is

LEMMA BlankRow ==
  /\ Blank \in Rows /\ Blank.account = NoAccount /\ Blank.code = NoCode /\ Blank.card = NoCard
  BY DEF Blank, Rows

LEMMA StaffInit == Init => StaffInv
  BY EmployeesAssumption DEF Init, EmployeesInit, StaffInv, Staff


LEMMA RowOf ==
  ASSUME StaffInv, NEW b \in Badges, Is(b)
  PROVE  /\ emp[b] \in Rows /\ emp[b].account \in Accounts \cup {NoAccount}
         /\ emp[b].code \in Codes \cup {NoCode} /\ emp[b].card \in Cards \cup {NoCard}
         /\ emp[b].fresh \in BOOLEAN
<1>1. emp[b] \in Rows
  BY DEF StaffInv, Staff, Is
<1> QED BY <1>1 DEF Rows

LEMMA ChildrenStay ==
  ASSUME StaffInv, child' = child
  PROVE  child' \in SUBSET Children /\ \A r \in child' : r.table = "attendance" => r \in child
  BY DEF StaffInv

\* The employee pages.
LEMMA PagesKeep ==
  ASSUME StaffInv, NEW b \in Badges, NEW active \in BOOLEAN,
         AddEmployee(b, active) \/ UpsertEmployee(b, active) \/ UpdateEmployee(b, active)
  PROVE  StaffInv'
<1>1. budget' = budget /\ child' = child
  BY DEF AddEmployee, UpsertEmployee, UpdateEmployee, Does
<1>2. PICK row \in Rows :
        /\ Put(b, row)
        /\ \/ /\ row.account = NoAccount /\ row.code = NoCode /\ row.card = NoCard
           \/ /\ Is(b)
              /\ row.account = emp[b].account /\ row.code = emp[b].code /\ row.card = emp[b].card
  <2>1. CASE ~Is(b)
    <3>1. Put(b, [Blank EXCEPT !.active = active])
      BY <2>1 DEF AddEmployee, UpsertEmployee, UpdateEmployee
    <3>2. [Blank EXCEPT !.active = active] \in Rows
          /\ [Blank EXCEPT !.active = active].account = NoAccount
          /\ [Blank EXCEPT !.active = active].code = NoCode
          /\ [Blank EXCEPT !.active = active].card = NoCard
      BY DEF Blank, Rows
    <3> QED BY <3>1, <3>2
  <2>2. CASE Is(b)
    <3>1. Put(b, [emp[b] EXCEPT !.active = active])
      BY <2>2 DEF AddEmployee, UpsertEmployee, UpdateEmployee
    <3>2. emp[b] \in Rows
      BY <2>2, RowOf
    <3>3. [emp[b] EXCEPT !.active = active] \in Rows
          /\ [emp[b] EXCEPT !.active = active].account = emp[b].account
          /\ [emp[b] EXCEPT !.active = active].code = emp[b].code
          /\ [emp[b] EXCEPT !.active = active].card = emp[b].card
      BY <3>2 DEF Rows
    <3> QED BY <2>2, <3>1, <3>3
  <2> QED BY <2>1, <2>2
<1>3. FreeFor(emp, b, row)
  <2>1. CASE row.account = NoAccount /\ row.code = NoCode /\ row.card = NoCard
    BY <2>1 DEF FreeFor
  <2>2. CASE /\ Is(b)
             /\ row.account = emp[b].account /\ row.code = emp[b].code /\ row.card = emp[b].card
    <3>1. OneHolder(emp) /\ emp[b] # NoRow
      BY <2>2 DEF StaffInv, Is
    <3> QED BY <2>2, <3>1, LessIsFree
  <2> QED BY <1>2, <2>1, <2>2
<1> QED BY <1>1, <1>2, <1>3, ChildrenStay, PutKeeps

\* What a step does to a row when it only takes from what the row held.
LEMMA TakingKeeps ==
  ASSUME StaffInv, NEW b \in Badges, Is(b), NEW row \in Rows, Put(b, row),
         budget' = budget, child' \in SUBSET Children,
         \A r \in child' : r.table = "attendance" => r \in child,
         row.account \in {emp[b].account, NoAccount}, row.code \in {emp[b].code, NoCode},
         row.card \in {emp[b].card, NoCard}
  PROVE  StaffInv'
<1>1. OneHolder(emp) /\ emp[b] # NoRow
  BY DEF StaffInv, Is
<1>2. FreeFor(emp, b, row)
  BY <1>1, LessIsFree
<1> QED BY <1>2, PutKeeps

LEMMA CardKeeps ==
  ASSUME StaffInv, NEW b \in Badges, NEW card \in Cards \cup {NoCard}, SetCard(b, card)
  PROVE  StaffInv'
<1>1. /\ Is(b) /\ budget' = budget /\ child' = child /\ OneHolder(emp) /\ emp[b] # NoRow
      /\ card # NoCard => \A other \in Badges \ {b} : Is(other) => emp[other].card # card
      /\ Put(b, [emp[b] EXCEPT !.card = card])
  BY DEF SetCard, Does, StaffInv, Is
<1>2. PICK row : row = [emp[b] EXCEPT !.card = card]
  OBVIOUS
<1>3. emp[b] \in Rows
  BY <1>1, RowOf
<1>4. row \in Rows /\ row.account = emp[b].account /\ row.code = emp[b].code /\ row.card = card
  BY <1>2, <1>3 DEF Rows
<1>5. FreeFor(emp, b, row)
  BY <1>1, <1>4 DEF FreeFor, OneHolder, Is
<1> QED BY <1>1, <1>2, <1>4, <1>5, ChildrenStay, PutKeeps

\* The linking codes: a new one is nobody's.
LEMMA CodeKeeps ==
  ASSUME StaffInv, NEW b \in Badges, NEW c \in Codes, GenerateCode(b, c) \/ RegenerateCode(b, c)
  PROVE  StaffInv'
<1>1. /\ Is(b) /\ budget' = budget /\ child' = child /\ OneHolder(emp) /\ emp[b] # NoRow
      /\ ~Passed(c) /\ ~Collides(b, c)
  BY DEF GenerateCode, RegenerateCode, Does, StaffInv, Is
<1>2. PICK late \in BOOLEAN : Put(b, WithNewCode(b, c, late))
  BY DEF GenerateCode, RegenerateCode
<1>3. PICK row : row = WithNewCode(b, c, late)
  OBVIOUS
<1>4. emp[b] \in Rows
  BY <1>1, RowOf
<1>5. row \in Rows /\ row.account \in {emp[b].account, NoAccount} /\ row.code = c
      /\ row.card = emp[b].card
  BY <1>3, <1>4 DEF WithNewCode, Rows
<1>6. \A other \in Badges \ {b} : Is(other) => emp[other].code # c
  BY <1>1 DEF Collides, HeldBy
<1>7. FreeFor(emp, b, row)
  BY <1>1, <1>5, <1>6 DEF FreeFor, OneHolder, Is
<1> QED BY <1>1, <1>2, <1>3, <1>5, <1>7, ChildrenStay, PutKeeps

LEMMA UnlinkKeeps ==
  ASSUME StaffInv, NEW b \in Badges, CodeExpires(b) \/ UnlinkOwn(b) \/ UnlinkByAdmin(b)
  PROVE  StaffInv'
<1>1. Is(b) /\ budget' = budget /\ child' = child
  BY DEF CodeExpires, UnlinkOwn, UnlinkByAdmin, Does
<1>2. emp[b] \in Rows
  BY <1>1, RowOf
<1>3. PICK row \in Rows :
        /\ Put(b, row)
        /\ row.account \in {emp[b].account, NoAccount} /\ row.code \in {emp[b].code, NoCode}
        /\ row.card = emp[b].card
  <2>1. CASE CodeExpires(b)
    <3>1. Put(b, [emp[b] EXCEPT !.fresh = FALSE])
      BY <2>1 DEF CodeExpires
    <3>2. [emp[b] EXCEPT !.fresh = FALSE] \in Rows
          /\ [emp[b] EXCEPT !.fresh = FALSE].account = emp[b].account
          /\ [emp[b] EXCEPT !.fresh = FALSE].code = emp[b].code
          /\ [emp[b] EXCEPT !.fresh = FALSE].card = emp[b].card
      BY <1>2 DEF Rows
    <3> QED BY <3>1, <3>2
  <2>2. CASE UnlinkOwn(b) \/ UnlinkByAdmin(b)
    <3>1. Put(b, Unlinked(b))
      BY <2>2 DEF UnlinkOwn, UnlinkByAdmin
    <3>2. Unlinked(b) \in Rows /\ Unlinked(b).account = NoAccount /\ Unlinked(b).code = NoCode
          /\ Unlinked(b).card = emp[b].card
      BY <1>2 DEF Unlinked, Rows
    <3> QED BY <3>1, <3>2
  <2> QED BY <2>1, <2>2
<1> QED BY <1>1, <1>3, ChildrenStay, TakingKeeps

LEMMA GuessKeeps ==
  ASSUME StaffInv, NEW a, NEW c \in Codes, GuessWrong(a, c)
  PROVE  StaffInv'
<1>1. budget' = budget /\ child' = child
  BY DEF GuessWrong, Does
<1>2. CASE emp' = emp
  BY <1>1, <1>2, StaffUntouched DEF StaffInv
<1>3. CASE emp' = [b \in Badges |-> IF b \in HeldBy(c) THEN [emp[b] EXCEPT !.code = NoCode, !.fresh = FALSE]
                                   ELSE emp[b]]
  <2>1. ASSUME NEW b \in Badges
        PROVE  /\ emp'[b] \in Rows \cup {NoRow} /\ (emp'[b] # NoRow <=> emp[b] # NoRow)
               /\ emp[b] # NoRow =>
                    /\ emp'[b].account = emp[b].account /\ emp'[b].code \in {emp[b].code, NoCode}
                    /\ emp'[b].card = emp[b].card
    <3>1. CASE b \in HeldBy(c)
      <4>1. emp[b] \in Rows /\ emp[b] # NoRow
        BY <3>1, RowOf DEF HeldBy, Is
      <4>2. emp'[b] = [emp[b] EXCEPT !.code = NoCode, !.fresh = FALSE]
        BY <1>3, <3>1
      <4>3. /\ emp'[b] \in Rows
            /\ emp'[b].account = emp[b].account /\ emp'[b].code = NoCode /\ emp'[b].card = emp[b].card
        BY <4>1, <4>2 DEF Rows
      <4> QED BY <4>1, <4>3, EmployeesAssumption
    <3>2. CASE b \notin HeldBy(c)
      <4>1. emp'[b] = emp[b]
        BY <1>3, <3>2
      <4> QED BY <4>1 DEF StaffInv, Staff
    <3> QED BY <3>1, <3>2
  <2>2. emp' \in Staff
    BY <1>3, <2>1 DEF Staff
  <2>3. OneHolder(emp')
    <3>1. OneHolder(emp)
      BY DEF StaffInv
    <3> QED BY <2>1, <3>1 DEF OneHolder
  <2>4. ASSUME NEW r \in child', r.table = "attendance" PROVE emp'[r.badge] # NoRow
    BY <1>1, <2>1, <2>4 DEF StaffInv, Children, Is
  <2> QED BY <1>1, <2>2, <2>3, <2>4 DEF StaffInv, Is
<1> QED BY <1>2, <1>3 DEF GuessWrong

LEMMA LinkKeeps ==
  ASSUME StaffInv, NEW a \in Accounts, NEW b \in Badges, Link(a, b)
  PROVE  StaffInv'
<1>1. /\ Is(b) /\ budget' = budget /\ child' = child /\ OneHolder(emp) /\ ~HasAccount(a)
      /\ Put(b, [emp[b] EXCEPT !.account = a, !.code = NoCode, !.fresh = FALSE])
  BY DEF Link, Does, StaffInv
<1>2. PICK row : row = [emp[b] EXCEPT !.account = a, !.code = NoCode, !.fresh = FALSE]
  OBVIOUS
<1>3. emp[b] \in Rows
  BY <1>1, RowOf
<1>4. row \in Rows /\ row.account = a /\ row.code = NoCode /\ row.card = emp[b].card
  BY <1>2, <1>3 DEF Rows
<1>5. FreeFor(emp, b, row)
  BY <1>1, <1>4 DEF FreeFor, HasAccount, OneHolder, Is
<1> QED BY <1>1, <1>2, <1>4, <1>5, ChildrenStay, PutKeeps

\* The badge of an applicant need not be known to be a new one.
LEMMA ApplyKeeps ==
  ASSUME StaffInv, NEW a \in Accounts, Apply(a)
  PROVE  StaffInv'
<1>1. budget' = budget /\ child' = child
  BY DEF Apply, Does
<1>2. CASE emp' = emp
  BY <1>1, <1>2, StaffUntouched DEF StaffInv
<1>3. CASE Put(QBadges[NextQ], Applicant(a)) /\ ~HasAccount(a)
  <2>1. PICK row : row = Applicant(a)
    OBVIOUS
  <2>2. row \in Rows /\ row.account = a /\ row.code = NoCode /\ row.card = NoCard
    BY <2>1 DEF Applicant, Blank, Rows
  <2>3. PICK b : b = QBadges[NextQ]
    OBVIOUS
  <2>4. FreeFor(emp, b, row)
    BY <1>3, <2>2 DEF FreeFor, HasAccount, Is
  <2> QED BY <1>1, <1>3, <2>1, <2>2, <2>3, <2>4, ChildrenStay, PutKeeps
<1> QED BY <1>2, <1>3 DEF Apply

\* Grants are not scans.
LEMMA GrantsAreChildren ==
  ASSUME StaffInv, NEW b \in Badges, NEW apps \in SUBSET (Apps \cup Dates)
  PROVE  /\ Granting(b, apps) \in SUBSET Children
         /\ \A r \in Granting(b, apps) : r.table = "attendance" => r \in child
<1>1. child \in SUBSET Children
  BY DEF StaffInv
<1>2. ASSUME NEW app \in apps
      PROVE  /\ [table |-> "grant", badge |-> b, key |-> app] \in Children
             /\ [table |-> "grant", badge |-> b, key |-> app].table = "grant"
  BY DEF Children, Tables
<1> QED BY <1>1, <1>2 DEF Granting

LEMMA DecisionKeeps ==
  ASSUME StaffInv, NEW b \in Badges, Approve(b, {}) \/ Reject(b)
  PROVE  StaffInv'
<1>1. Is(b) /\ budget' = budget
  BY DEF Approve, Reject, Does
<1>2. emp[b] \in Rows
  BY <1>1, RowOf
<1>3. ASSUME NEW active \in BOOLEAN, Put(b, [emp[b] EXCEPT !.active = active, !.pending = FALSE]),
             child' \in SUBSET Children, \A r \in child' : r.table = "attendance" => r \in child
      PROVE  StaffInv'
  <2>1. PICK row : row = [emp[b] EXCEPT !.active = active, !.pending = FALSE]
    OBVIOUS
  <2>2. row \in Rows /\ row.account = emp[b].account /\ row.code = emp[b].code
        /\ row.card = emp[b].card
    BY <1>2, <2>1 DEF Rows
  <2> QED BY <1>1, <1>3, <2>1, <2>2, TakingKeeps
<1>4. CASE Approve(b, {})
  <2>1. GrantsOf(b) \cup {} \in SUBSET (Apps \cup Dates)
    BY DEF StaffInv, Children, GrantsOf, ChildrenOf
  <2>2. child' = Granting(b, GrantsOf(b) \cup {})
        /\ Put(b, [emp[b] EXCEPT !.active = TRUE, !.pending = FALSE])
    BY <1>4 DEF Approve
  <2>3. child' \in SUBSET Children /\ \A r \in child' : r.table = "attendance" => r \in child
    BY <2>1, <2>2, GrantsAreChildren
  <2> QED BY <1>3, <2>2, <2>3
<1>5. CASE Reject(b) /\ \E r \in ChildrenOf(b) : r.table = "attendance"
  <2>1. Put(b, [emp[b] EXCEPT !.active = FALSE, !.pending = FALSE]) /\ child' = child
    BY <1>5 DEF Reject
  <2> QED BY <1>3, <2>1, ChildrenStay
<1>6. CASE Reject(b) /\ ~(\E r \in ChildrenOf(b) : r.table = "attendance")
  <2>1. emp' = [emp EXCEPT ![b] = NoRow]
        /\ child' = {r \in child : ~(r.badge = b /\ r.table \in Cascades)}
    BY <1>6 DEF Reject, Put
  <2>2. emp' \in Staff /\ OneHolder(emp')
    BY <2>1, RemovalKeepsHolders DEF StaffInv
  <2>3. ASSUME NEW r \in child', r.table = "attendance" PROVE emp'[r.badge] # NoRow
    <3>1. r \in child /\ r.badge \in Badges /\ emp[r.badge] # NoRow
      BY <2>1, <2>3 DEF StaffInv, Children, Is
    <3>2. r.badge # b
      BY <1>6, <2>3, <3>1 DEF ChildrenOf
    <3> QED BY <2>1, <3>1, <3>2 DEF StaffInv, Staff
  <2> QED BY <1>1, <2>1, <2>2, <2>3 DEF StaffInv, Is
<1> QED BY <1>4, <1>5, <1>6

LEMMA ChildKeeps ==
  ASSUME StaffInv, NEW b \in Badges, NEW table \in Tables, NEW key \in KeysOf(table),
         AddChild(b, table, key)
  PROVE  StaffInv'
<1>1. /\ emp' = emp /\ budget' = budget /\ Is(b)
      /\ child' = child \cup {[table |-> table, badge |-> b, key |-> key]}
  BY DEF AddChild, Does
<1>2. [table |-> table, badge |-> b, key |-> key] \in Children
      /\ [table |-> table, badge |-> b, key |-> key].badge = b
  BY DEF Children, KeysOf
<1> QED BY <1>1, <1>2, StaffUntouched DEF StaffInv

LEMMA SetGrantsKeep ==
  ASSUME StaffInv, NEW b \in Badges, NEW apps \in SUBSET Apps, SetGrants(b, apps)
  PROVE  StaffInv'
<1>1. emp' = emp /\ budget' = budget /\ child' = Granting(b, apps)
  BY DEF SetGrants, Does
<1>2. child' \in SUBSET Children /\ \A r \in child' : r.table = "attendance" => r \in child
  BY <1>1, GrantsAreChildren
<1> QED BY <1>1, <1>2, StaffUntouched

\* A merge: one row less, the other with what either of the two had, and every
\* scan of the first under the badge of the second.
LEMMA MergeKeeps ==
  ASSUME StaffInv, NEW from \in Badges, NEW to \in Badges, Merge(from, to)
  PROVE  StaffInv'
<1>1. /\ from # to /\ Is(from) /\ budget' = budget
      /\ emp \in Staff /\ OneHolder(emp) /\ emp[from] # NoRow
  BY DEF Merge, Does, StaffInv, Is
<1>2. PICK mid : mid = [emp EXCEPT ![from] = NoRow]
  OBVIOUS
<1>3. mid \in Staff /\ OneHolder(mid)
  BY <1>1, <1>2, RemovalKeepsHolders
<1>4. mid[from] = NoRow /\ \A b \in Badges \ {from} : mid[b] = emp[b]
  BY <1>1, <1>2 DEF Staff
<1>5. emp[from] \in Rows
  BY <1>1, RowOf
<1>6. PICK row \in Rows : emp' = [mid EXCEPT ![to] = row] /\ FreeFor(mid, to, row)
  <2>1. CASE Is(to)
    <3>1. PICK r : r = Joined(emp[to], emp[from])
      OBVIOUS
    <3>2. emp[to] \in Rows /\ emp[to] # NoRow
      BY <2>1, RowOf DEF Is
    <3>3. /\ r \in Rows
          /\ r.account \in {emp[to].account, emp[from].account}
          /\ r.code \in {emp[to].code, emp[from].code}
          /\ r.card \in {emp[to].card, emp[from].card}
      BY <1>5, <3>1, <3>2 DEF Joined, IfEmpty, Rows
    <3>4. emp' = [emp EXCEPT ![from] = NoRow, ![to] = r]
      BY <2>1, <3>1 DEF Merge, MergeInto
    <3>5. emp' = [mid EXCEPT ![to] = r]
      BY <1>2, <3>4
    <3>6. FreeFor(mid, to, r)
      <4> SUFFICES ASSUME NEW other \in Badges \ {to}, mid[other] # NoRow
                   PROVE  /\ r.account = mid[other].account => r.account = NoAccount
                          /\ r.code = mid[other].code => r.code = NoCode
                          /\ r.card = mid[other].card => r.card = NoCard
        BY DEF FreeFor
      <4>1. other # from /\ mid[other] = emp[other]
        BY <1>4
      <4> QED BY <1>1, <3>2, <3>3, <4>1 DEF OneHolder
    <3> QED BY <3>3, <3>5, <3>6
  <2>2. CASE ~Is(to)
    <3>1. emp' = [emp EXCEPT ![to] = emp[from], ![from] = NoRow]
      BY <2>2 DEF Merge, Rename
    <3>2. emp' = [mid EXCEPT ![to] = emp[from]]
      BY <1>1, <1>2, <3>1 DEF Staff
    <3>3. FreeFor(mid, to, emp[from])
      <4> SUFFICES ASSUME NEW other \in Badges \ {to}, mid[other] # NoRow
                   PROVE  /\ emp[from].account = mid[other].account => emp[from].account = NoAccount
                          /\ emp[from].code = mid[other].code => emp[from].code = NoCode
                          /\ emp[from].card = mid[other].card => emp[from].card = NoCard
        BY DEF FreeFor
      <4>1. other # from /\ mid[other] = emp[other]
        BY <1>4
      <4> QED BY <1>1, <4>1 DEF OneHolder
    <3> QED BY <1>5, <3>2, <3>3
  <2> QED BY <2>1, <2>2
<1>7. /\ emp' \in Staff /\ OneHolder(emp')
      /\ \A c \in Badges : mid[c] # NoRow \/ c = to => emp'[c] # NoRow
  BY <1>3, <1>6, PutKeepsHolders
<1>8. PICK moving \in SUBSET ChildrenOf(from) :
        child' = (child \ {r \in ChildrenOf(from) : Known(r)}) \cup Moved(moving, to)
  BY DEF Merge, Rename, MergeInto
<1>9. child \in SUBSET Children /\ moving \in SUBSET Children
  BY DEF StaffInv, ChildrenOf
<1>10. ASSUME NEW r \in Moved(moving, to) PROVE r \in Children /\ r.badge = to
  <2>1. PICK s \in moving : r = [s EXCEPT !.badge = to]
    BY DEF Moved
  <2>2. s \in Children
    BY <1>9
  <2> QED BY <2>1, <2>2 DEF Children
<1>11. child' \in SUBSET Children
  BY <1>8, <1>9, <1>10
<1>12. ASSUME NEW r \in child', r.table = "attendance" PROVE emp'[r.badge] # NoRow
  <2>1. CASE r \in Moved(moving, to)
    BY <1>7, <1>10, <2>1
  <2>2. CASE r \notin Moved(moving, to)
    <3>1. r \in child /\ ~(r \in ChildrenOf(from) /\ Known(r))
      BY <1>8, <2>2
    <3>2. Known(r)
      BY <1>12 DEF Known
    <3>3. r.badge \in Badges \ {from} /\ emp[r.badge] # NoRow
      BY <1>9, <1>12, <3>1, <3>2 DEF StaffInv, ChildrenOf, Children, Is
    <3> QED BY <1>4, <1>7, <3>3
  <2> QED BY <2>1, <2>2
<1> QED BY <1>1, <1>7, <1>11, <1>12 DEF StaffInv, Is

-----------------------------------------------------------------------------
(* Every step. *)

LEMMA WhoIsAnAccount ==
  ASSUME StaffInv, NEW a \in budget.who
  PROVE  a \in Accounts
  BY EmployeesAssumption DEF StaffInv

LEMMA PageKeeps ==
  ASSUME TryInv, StaffInv, Pages
  PROVE  TryInv' /\ StaffInv'
<1>1. TryInv'
  BY LimitsUntouched DEF Pages, Quietly
<1>2. ASSUME NEW b \in Badges, NEW active \in BOOLEAN,
             AddEmployee(b, active) \/ UpsertEmployee(b, active) \/ UpdateEmployee(b, active)
      PROVE  StaffInv'
  BY <1>2, PagesKeep
<1>3. ASSUME NEW b \in Badges, NEW table \in Tables, NEW key \in KeysOf(table), AddChild(b, table, key)
      PROVE  StaffInv'
  BY <1>3, ChildKeeps
<1>4. ASSUME NEW b \in Badges, NEW card \in Cards \cup {NoCard}, SetCard(b, card)
      PROVE  StaffInv'
  BY <1>4, CardKeeps
<1>5. ASSUME NEW b \in Badges, CodeExpires(b) \/ UnlinkOwn(b) \/ UnlinkByAdmin(b) \/ Reject(b)
      PROVE  StaffInv'
  BY <1>5, UnlinkKeeps, DecisionKeeps
<1>6. ASSUME NEW b \in Badges, NEW c \in Codes, GenerateCode(b, c) \/ RegenerateCode(b, c)
      PROVE  StaffInv'
  BY <1>6, CodeKeeps
<1>7. ASSUME NEW from \in Badges, NEW to \in Badges, Merge(from, to)
      PROVE  StaffInv'
  BY <1>7, MergeKeeps
<1> QED BY <1>1, <1>2, <1>3, <1>4, <1>5, <1>6, <1>7 DEF Pages

LEMMA TriggerKeeps ==
  ASSUME TryInv, StaffInv, Triggers
  PROVE  TryInv' /\ StaffInv'
<1>1. ASSUME NEW b \in Badges, UNCHANGED limitVars, NEW apps \in SUBSET Apps, SetGrants(b, apps)
      PROVE  TryInv' /\ StaffInv'
  BY <1>1, LimitsUntouched, SetGrantsKeep
<1>2. ASSUME NEW b \in Badges, UNCHANGED limitVars, Approve(b, {})
      PROVE  TryInv' /\ StaffInv'
  BY <1>2, LimitsUntouched, DecisionKeeps
<1>3. ASSUME NEW b \in Badges, NEW a \in budget.who, Link(a, b)
      PROVE  TryInv' /\ StaffInv'
  <2>1. a \in Accounts
    BY WhoIsAnAccount
  <2>2. ForgetFailures(a)
    BY <1>3 DEF Link
  <2> QED BY <1>3, <2>1, <2>2, ForgetKeeps, LinkKeeps
<1> QED BY <1>1, <1>2, <1>3 DEF Triggers

LEMMA TrialKeeps ==
  ASSUME TryInv, StaffInv, Tries
  PROVE  TryInv' /\ StaffInv'
<1>1. PICK a \in budget.who :
        \/ Apply(a)
        \/ \E b \in Badges : LinkRefused(a, b)
        \/ \E c \in Codes : GuessWrong(a, c)
  BY DEF Tries
<1>2. a \in Accounts
  BY WhoIsAnAccount
<1>3. CASE Apply(a)
  <2>1. CountApplication(a)
    BY <1>3 DEF Apply
  <2> QED BY <1>2, <1>3, <2>1, ApplicationKeeps, ApplyKeeps
<1>4. ASSUME NEW b \in Badges, LinkRefused(a, b) PROVE TryInv' /\ StaffInv'
  <2>1. MayGuess(a) /\ RecordFailure(a) /\ emp' = emp /\ child' = child /\ budget' = budget
    BY <1>4 DEF LinkRefused, Does
  <2>2. StaffInv'
    BY <2>1, StaffUntouched DEF StaffInv
  <2> QED BY <1>2, <2>1, <2>2, FailureKeeps
<1>5. ASSUME NEW c \in Codes, GuessWrong(a, c) PROVE TryInv' /\ StaffInv'
  <2>1. MayGuess(a) /\ RecordFailure(a)
    BY <1>5 DEF GuessWrong
  <2> QED BY <1>2, <1>5, <2>1, FailureKeeps, GuessKeeps
<1> QED BY <1>1, <1>3, <1>4, <1>5

LEMMA RegistryNext ==
  ASSUME TryInv, StaffInv, [Next]_vars
  PROVE  TryInv' /\ StaffInv'
<1>1. ASSUME emp' = emp, child' = child, budget' = budget
      PROVE  StaffInv'
  BY <1>1, StaffUntouched DEF StaffInv
<1>2. CASE Clock
  <2>1. ClockAdvances /\ emp' = emp /\ child' = child /\ budget' = budget
    BY <1>2 DEF Clock, employeeVars
  <2> QED BY <1>1, <2>1, ClockKeeps
<1>3. CASE Menus \/ Deployment
  <2>1. UNCHANGED limitVars /\ emp' = emp /\ child' = child /\ budget' = budget
    BY <1>3 DEF Menus, Deployment, Does
  <2> QED BY <1>1, <2>1, LimitsUntouched
<1>4. CASE UNCHANGED vars
  <2>1. UNCHANGED limitVars /\ emp' = emp /\ child' = child /\ budget' = budget
    BY <1>4 DEF vars, employeeVars
  <2> QED BY <1>1, <2>1, LimitsUntouched
<1> QED BY <1>2, <1>3, <1>4, PageKeeps, TriggerKeeps, TrialKeeps DEF Next

-----------------------------------------------------------------------------

\* Whatever is renamed, merged, rejected or given again, every scan belongs to
\* an employee and nobody shares an account, a code or a card.
THEOREM ScansStayOwned == Spec => []ScansKeepTheirEmployee
<1>1. Init => TryInv /\ StaffInv
  BY TryInit, StaffInit
<1>2. TryInv /\ StaffInv /\ [Next]_vars => (TryInv /\ StaffInv)'
  BY RegistryNext
<1>3. TryInv /\ StaffInv => ScansKeepTheirEmployee
  BY DEF StaffInv, ScansKeepTheirEmployee, Staff, Is
<1> QED BY <1>1, <1>2, <1>3, PTL DEF Spec

\* No account gets more tries into a window than the limit, nor any while it is
\* locked out, whatever the windows, retention and thresholds are.
THEOREM TriesStayLimited == Spec => []TriesAreLimited
<1>1. Init => TryInv /\ StaffInv
  BY TryInit, StaffInit
<1>2. TryInv /\ StaffInv /\ [Next]_vars => (TryInv /\ StaffInv)'
  BY RegistryNext
<1>3. TryInv => TriesAreLimited
  BY DEF TryInv, ListKept, LockKept, TriesAreLimited
<1> QED BY <1>1, <1>2, <1>3, PTL DEF Spec

=============================================================================
