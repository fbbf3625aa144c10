---------------------------- MODULE OperationsProofs ----------------------------
(***************************************************************************)
(* Proofs about Operations for every number of releases, of migrations by  *)
(* hand and of faults, and for every lock-out threshold and window: that   *)
(* every changed schema has its restore point, and that no address fails   *)
(* more often than the threshold in a window.                              *)
(***************************************************************************)
EXTENDS Operations, FiniteSetTheorems, TLAPS

-----------------------------------------------------------------------------
(* The inductive invariant of a deployment. *)

Places == {"down", "gate", "look", "copy", "rename", "migrate", "stamp", "serves"}
ProcStates == [at : Places, copy : Schemas \cup {None}]
CommitsOf == {Commit[r] : r \in Runs}

DeployTypes ==
  /\ release \in 0 .. LastRun /\ db \in Schemas
  /\ snaps \in [Runs -> Snapshots \cup {None}]
  /\ lock \in Procs \cup {None} /\ proc \in [Procs -> ProcStates]
  /\ job \in {"none", "waits", "syncs", "marks", "done", "failed"}
  /\ marker \in [Runs -> CommitsOf \cup {None}]
  /\ verified \in BOOLEAN \cup {None}
  /\ before \in [Runs -> Schemas \cup {None}]
  /\ synced \subseteq Runs /\ green \subseteq Runs

\* Nothing runs before the first deploy, and no later run has left a trace.
ReleaseInv ==
  /\ \A p \in Procs : proc[p].at # "down" => release > 0
  /\ job # "none" => release > 0
  /\ \A r \in Runs : r > release => snaps[r] = None /\ before[r] = None

\* The process in the gate holds the lock, so that only it changes the schema.
GateInv == \A p \in Procs : InGate(p) => lock = p

\* A restore point shows the schema before the first change of its run; while
\* the run has changed nothing, that is the schema as it is.
RestoreInv ==
  \A r \in Runs :
    /\ before[r] # None => snaps[r] # None /\ snaps[r].schema = before[r]
    /\ r = release /\ snaps[r] # None /\ before[r] = None => snaps[r].schema = db

\* Where the process in the gate is with the restore point of its run.
CopyInv ==
  \A p \in Procs :
    /\ proc[p].at \in {"copy", "rename"} => snaps[release] = None
    /\ proc[p].at = "rename" => proc[p].copy = db
    /\ proc[p].at \in {"migrate", "stamp"} => snaps[release] # None
    /\ proc[p].at = "stamp" => before[release] # None

\* What the probe goes by.
ProbeInv ==
  /\ verified = TRUE => release > 0 /\ snaps[release] # None
  /\ job = "marks" => release \in synced
  /\ \A r \in Runs : marker[r] # None => r \in synced
  /\ \A r \in green : snaps[r] # None /\ r \in synced

DeployInv == DeployTypes /\ ReleaseInv /\ GateInv /\ RestoreInv /\ CopyInv /\ ProbeInv

-----------------------------------------------------------------------------
(* The inductive invariant of the lock-out. *)

\* What an address still has on its list are attempts of it, numbered in the
\* order they were made, and none of the last Window is missing.
ListInv(a) ==
  /\ IsFiniteSet(tries[a]) /\ failures[a] \subseteq tries[a]
  /\ \A f \in tries[a] : f.nth \in 0 .. Cardinality(tries[a]) - 1 /\ f.at \in 0 .. clock
  /\ \A f \in tries[a] : f.at >= clock - Window => f \in failures[a]

Within(a, t) == {f \in tries[a] : t <= f.at /\ f.at <= t + Window}
LimitInv(a) == \A t \in Int : Cardinality(Within(a, t)) <= Threshold

LockInv ==
  /\ clock \in Nat
  /\ tries \in [Addresses -> SUBSET [nth : Nat, at : Nat]]
  /\ failures \in [Addresses -> SUBSET [nth : Nat, at : Nat]]
  /\ \A a \in Addresses : ListInv(a) /\ LimitInv(a)

-----------------------------------------------------------------------------
(* A deployment keeps its invariant. *)

DeployStep ==
  \/ Deploy \/ JobStep \/ JobFails
  \/ \E p \in Procs : LockTimesOut(p) \/ ProcStep(p) \/ MigrationFails(p) \/ Start(p) \/ Crash(p)
  \/ \E r \in Runs : Damage(r) \/ Probe(r)

LEMMA NextIsDeployStep == [Next]_vars => DeployStep \/ UNCHANGED deployVars
  BY DEF Next, Releases, Access, DeployStep, vars

\* A process goes on to another place with the copy it has.
LEMMA ProcGoes ==
  ASSUME DeployTypes, NEW p \in Procs, NEW at \in Places, Goes(p, at)
  PROVE  /\ proc' \in [Procs -> ProcStates] /\ proc'[p].at = at /\ proc'[p].copy = proc[p].copy
         /\ \A q \in Procs \ {p} : proc'[q] = proc[q]
<1> USE DEF DeployTypes, Goes
<1>1. proc[p] \in ProcStates
  OBVIOUS
<1>2. proc' = [proc EXCEPT ![p] = [proc[p] EXCEPT !.at = at]]
  OBVIOUS
<1>3. [proc[p] EXCEPT !.at = at] = [at |-> at, copy |-> proc[p].copy]
  BY <1>1 DEF ProcStates
<1>4. [at |-> at, copy |-> proc[p].copy] \in ProcStates
  BY <1>1 DEF ProcStates
<1> QED BY <1>2, <1>3, <1>4

LEMMA ProcSet ==
  ASSUME DeployTypes, NEW p \in Procs, NEW at \in Places, NEW copy \in Schemas \cup {None},
         proc' = [proc EXCEPT ![p] = [at |-> at, copy |-> copy]]
  PROVE  /\ proc' \in [Procs -> ProcStates] /\ proc'[p].at = at /\ proc'[p].copy = copy
         /\ \A q \in Procs \ {p} : proc'[q] = proc[q]
<1>1. [at |-> at, copy |-> copy] \in ProcStates
  BY DEF ProcStates
<1> QED BY <1>1 DEF DeployTypes

\* The schema, the restore points and the history stay: a process ends.
LEMMA EndsKeeps ==
  ASSUME DeployInv, NEW p \in Procs, Ends(p),
         UNCHANGED <<release, db, snaps, job, marker, before, synced, green>>
  PROVE  DeployInv'
<1> USE DEF DeployInv
<1>1. /\ proc' \in [Procs -> ProcStates] /\ proc'[p].at = "down"
      /\ \A q \in Procs \ {p} : proc'[q] = proc[q]
  BY ProcSet DEF Ends, Down, Places
<1>2. lock' \in Procs \cup {None} /\ verified' \in BOOLEAN \cup {None}
  BY DEF Ends, DeployTypes
<1>3. DeployTypes'
  BY <1>1, <1>2 DEF DeployTypes
<1>4. ReleaseInv'
  BY <1>1 DEF ReleaseInv
<1>5. GateInv'
  BY <1>1 DEF GateInv, InGate, Ends
<1>6. RestoreInv'
  BY DEF RestoreInv
<1>7. CopyInv'
  BY <1>1 DEF CopyInv
<1>8. ProbeInv'
  BY NoneAssumption DEF ProbeInv, Ends
<1> QED BY <1>3, <1>4, <1>5, <1>6, <1>7, <1>8

LEMMA DeployInvInit == Init => DeployInv
<1> SUFFICES ASSUME DeployInit PROVE DeployInv
  BY DEF Init
<1> USE DeploymentAssumption, NoneAssumption DEF DeployInit
<1>1. Down \in ProcStates /\ Down.at = "down"
  BY DEF Down, ProcStates, Places
<1>2. db \in Schemas
  BY DEF Schemas
<1>3. DeployTypes
  BY <1>1, <1>2 DEF DeployTypes
<1>4. ReleaseInv /\ GateInv /\ CopyInv
  BY <1>1 DEF ReleaseInv, GateInv, InGate, CopyInv
<1>5. RestoreInv /\ ProbeInv
  BY DEF RestoreInv, ProbeInv, Runs
<1> QED BY <1>3, <1>4, <1>5 DEF DeployInv

\* The steps of a process in the gate: they change one process and keep the run.
LEMMA GateStepKeeps ==
  ASSUME DeployInv, NEW p \in Procs, ProcStep(p)
  PROVE  DeployInv'
<1> USE DEF DeployInv
<1>0. release \in 0 .. LastRun /\ proc[p] \in ProcStates
  BY DEF DeployTypes
<1>1. CASE TakeLock(p)
  <2>1. /\ proc' \in [Procs -> ProcStates] /\ proc'[p].at = "look"
        /\ \A q \in Procs \ {p} : proc'[q] = proc[q]
    BY <1>1, ProcGoes DEF TakeLock, Places
  <2> USE <1>1, <2>1 DEF TakeLock
  <2>2. DeployTypes'
    BY DEF DeployTypes
  <2>3. ReleaseInv' /\ RestoreInv' /\ ProbeInv'
    BY DEF ReleaseInv, RestoreInv, ProbeInv
  <2>4. GateInv'
    BY NoneAssumption DEF GateInv, InGate
  <2>5. CopyInv'
    BY DEF CopyInv
  <2> QED BY <2>2, <2>3, <2>4, <2>5
<1>2. CASE Look(p)
  <2>1. CASE Ends(p)
    BY <1>2, <2>1, EndsKeeps DEF Look
  <2>2. CASE snaps[release] = None /\ Goes(p, "copy") /\ UNCHANGED <<lock, verified>>
    <3>1. /\ proc' \in [Procs -> ProcStates] /\ proc'[p].at = "copy"
          /\ \A q \in Procs \ {p} : proc'[q] = proc[q]
      BY <2>2, ProcGoes DEF Places
    <3> USE <1>2, <2>2, <3>1 DEF Look
    <3>2. DeployTypes'
      BY DEF DeployTypes
    <3>3. ReleaseInv' /\ RestoreInv' /\ ProbeInv'
      BY DEF ReleaseInv, RestoreInv, ProbeInv
    <3>4. GateInv' /\ CopyInv'
      BY DEF GateInv, InGate, CopyInv
    <3> QED BY <3>2, <3>3, <3>4
  <2>3. CASE snaps[release] # None /\ Goes(p, "migrate") /\ UNCHANGED <<lock, verified>>
    <3>1. /\ proc' \in [Procs -> ProcStates] /\ proc'[p].at = "migrate"
          /\ \A q \in Procs \ {p} : proc'[q] = proc[q]
      BY <2>3, ProcGoes DEF Places
    <3> USE <1>2, <2>3, <3>1 DEF Look
    <3>2. DeployTypes'
      BY DEF DeployTypes
    <3>3. ReleaseInv' /\ RestoreInv' /\ ProbeInv'
      BY DEF ReleaseInv, RestoreInv, ProbeInv
    <3>4. GateInv' /\ CopyInv'
      BY DEF GateInv, InGate, CopyInv
    <3> QED BY <3>2, <3>3, <3>4
  <2> QED BY <1>2, <2>1, <2>2, <2>3 DEF Look
<1>3. CASE Copy(p)
  <2>1. /\ proc' \in [Procs -> ProcStates] /\ proc'[p].at = "rename" /\ proc'[p].copy = db
        /\ \A q \in Procs \ {p} : proc'[q] = proc[q]
    BY <1>3, ProcSet DEF Copy, Places, DeployTypes
  <2> USE <1>3, <2>1 DEF Copy
  <2>2. DeployTypes'
    BY DEF DeployTypes
  <2>3. ReleaseInv' /\ RestoreInv' /\ ProbeInv'
    BY DEF ReleaseInv, RestoreInv, ProbeInv
  <2>4. GateInv' /\ CopyInv'
    BY DEF GateInv, InGate, CopyInv
  <2> QED BY <2>2, <2>3, <2>4
<1>4. CASE Rename(p)
  <2> DEFINE snap == [schema |-> db, commit |-> Commits, whole |-> TRUE]
  <2>1. /\ proc' \in [Procs -> ProcStates] /\ proc'[p].at = "migrate"
        /\ \A q \in Procs \ {p} : proc'[q] = proc[q]
    BY <1>4, ProcSet DEF Rename, Places
  <2>2. release \in Runs /\ proc[p].copy = db /\ snaps[release] = None /\ before[release] = None
    BY <1>0, <1>4 DEF Rename, ReleaseInv, CopyInv, RestoreInv, Runs
  <2>3. snap \in Snapshots /\ snap.schema = db /\ snap # None
    <3>1. db \in Schemas /\ Commits \in {Commit[r] : r \in Runs}
      BY <2>2 DEF DeployTypes, Commits
    <3>2. snap \in Snapshots /\ snap.schema = db
      BY <3>1 DEF Snapshots
    <3> QED BY <3>2, NoneAssumption
  <2>4. snaps' = [snaps EXCEPT ![release] = snap]
    BY <1>4, <2>2 DEF Rename
  <2> HIDE DEF snap
  <2>5. /\ snaps' \in [Runs -> Snapshots \cup {None}] /\ snaps'[release] = snap
        /\ \A r \in Runs \ {release} : snaps'[r] = snaps[r]
    BY <2>2, <2>3, <2>4 DEF DeployTypes
  <2> USE <1>4, <2>1, <2>2, <2>3, <2>5 DEF Rename
  <2>6. DeployTypes'
    BY DEF DeployTypes
  <2>7. ReleaseInv' /\ RestoreInv' /\ ProbeInv'
    BY DEF ReleaseInv, RestoreInv, ProbeInv, Runs, DeployTypes
  <2>8. GateInv' /\ CopyInv'
    BY DEF GateInv, InGate, CopyInv
  <2> QED BY <2>6, <2>7, <2>8
<1>5. CASE MigrationStarts(p) \/ MigrationRepeats(p)
  <2>1. /\ proc' \in [Procs -> ProcStates] /\ proc'[p].at = "stamp"
        /\ \A q \in Procs \ {p} : proc'[q] = proc[q]
    BY <1>5, ProcGoes DEF MigrationStarts, MigrationRepeats, Places
  <2>2. proc[p].at = "migrate" /\ before' = [before EXCEPT ![release] = IF @ = None THEN db ELSE @]
    BY <1>5 DEF MigrationStarts, MigrationRepeats
  <2>3. release \in Runs /\ snaps[release] # None /\ lock = p
    BY <1>0, <2>2 DEF ReleaseInv, CopyInv, Runs, GateInv, InGate
  <2>4. db' \in Schemas
    <3>1. db.rev \in Nat /\ db.part \in BOOLEAN /\ DOMAIN db = {"rev", "part"}
      BY DEF DeployTypes, Schemas
    <3>2. CASE MigrationStarts(p)
      <4>1. db' = [rev |-> db.rev, part |-> TRUE]
        BY <3>2 DEF MigrationStarts, DeployTypes, Schemas
      <4> QED BY <3>1, <4>1 DEF Schemas
    <3>3. CASE MigrationRepeats(p)
      BY <3>3 DEF MigrationRepeats, DeployTypes
    <3> QED BY <1>5, <3>2, <3>3
  <2>5. /\ before' \in [Runs -> Schemas \cup {None}] /\ before'[release] # None
        /\ before'[release] = snaps[release].schema
        /\ \A r \in Runs \ {release} : before'[r] = before[r]
    BY <2>2, <2>3, NoneAssumption DEF DeployTypes, RestoreInv
  <2>6. UNCHANGED <<release, snaps, lock, job, marker, verified, synced, green>>
    BY <1>5 DEF MigrationStarts, MigrationRepeats
  <2> USE <2>1, <2>2, <2>3, <2>4, <2>5, <2>6
  <2>7. DeployTypes'
    BY DEF DeployTypes
  <2>8. ReleaseInv' /\ RestoreInv' /\ ProbeInv'
    BY DEF ReleaseInv, RestoreInv, ProbeInv, Runs
  <2>9. GateInv' /\ CopyInv'
    BY DEF GateInv, InGate, CopyInv
  <2> QED BY <2>7, <2>8, <2>9
<1>6. CASE MigrationEnds(p)
  <2>1. /\ proc' \in [Procs -> ProcStates] /\ proc'[p].at = "migrate"
        /\ \A q \in Procs \ {p} : proc'[q] = proc[q]
    BY <1>6, ProcGoes DEF MigrationEnds, Places
  <2>2. db' \in Schemas
    BY <1>6 DEF MigrationEnds, DeployTypes, Schemas
  <2>3. before[release] # None /\ snaps[release] # None /\ lock = p
    BY <1>6 DEF MigrationEnds, CopyInv, GateInv, InGate
  <2> USE <1>6, <2>1, <2>2, <2>3 DEF MigrationEnds
  <2>4. DeployTypes'
    BY DEF DeployTypes
  <2>5. ReleaseInv' /\ RestoreInv' /\ ProbeInv'
    BY DEF ReleaseInv, RestoreInv, ProbeInv
  <2>6. GateInv' /\ CopyInv'
    BY DEF GateInv, InGate, CopyInv
  <2> QED BY <2>4, <2>5, <2>6
<1>7. CASE Migrated(p)
  <2> DEFINE at == IF p = "app" THEN "serves" ELSE "down"
  <2>1. at \in Places /\ Goes(p, at)
    BY <1>7 DEF Migrated, Goes, Places
  <2>2. /\ proc' \in [Procs -> ProcStates] /\ proc'[p].at \in {"serves", "down"}
        /\ \A q \in Procs \ {p} : proc'[q] = proc[q]
    BY <2>1, ProcGoes
  <2>3. lock = p /\ proc[p].at # "down"
    BY <1>7 DEF Migrated, GateInv, InGate
  <2> USE <1>7, <2>2, <2>3 DEF Migrated
  <2>4. DeployTypes'
    BY DEF DeployTypes
  <2>5. ReleaseInv' /\ RestoreInv' /\ ProbeInv'
    BY DEF ReleaseInv, RestoreInv, ProbeInv
  <2>6. GateInv' /\ CopyInv'
    BY DEF GateInv, InGate, CopyInv
  <2> QED BY <2>4, <2>5, <2>6
<1> QED BY <1>1, <1>2, <1>3, <1>4, <1>5, <1>6, <1>7 DEF ProcStep

LEMMA DamagedSnapshot ==
  ASSUME NEW s \in Snapshots, NEW v
  PROVE  [s EXCEPT !.whole = v] = [schema |-> s.schema, commit |-> s.commit, whole |-> v]
  BY DEF Snapshots

LEMMA DeployInvStep == DeployInv /\ DeployStep => DeployInv'
<1> SUFFICES ASSUME DeployInv, DeployStep PROVE DeployInv'
  OBVIOUS
<1> USE DEF DeployInv
<1>1. CASE Deploy
  <2>1. /\ proc' \in [Procs -> ProcStates] /\ \A p \in Procs : proc'[p].at = "down"
        /\ release \in 0 .. LastRun /\ release' \in Runs /\ release' > release
    <3>1. Down \in ProcStates /\ Down.at = "down"
      BY DEF Down, ProcStates, Places
    <3> QED BY <1>1, <3>1, DeploymentAssumption DEF Deploy, DeployTypes, Runs
  <2>2. snaps[release'] = None /\ before[release'] = None
    BY <2>1 DEF ReleaseInv
  <2> USE <1>1, <2>1, <2>2 DEF Deploy
  <2>3. DeployTypes'
    BY DEF DeployTypes, Runs
  <2>4. ReleaseInv' /\ GateInv' /\ CopyInv'
    BY DEF ReleaseInv, GateInv, CopyInv, InGate, Runs
  <2>5. RestoreInv' /\ ProbeInv'
    BY NoneAssumption DEF RestoreInv, ProbeInv
  <2> QED BY <2>3, <2>4, <2>5
<1>2. CASE JobSeesApp
  <2> USE <1>2 DEF JobSeesApp, JobKeeps
  <2>1. DeployTypes'
    BY DEF DeployTypes
  <2>2. ReleaseInv' /\ RestoreInv' /\ GateInv' /\ CopyInv' /\ ProbeInv'
    BY DEF ReleaseInv, RestoreInv, GateInv, CopyInv, InGate, ProbeInv
  <2> QED BY <2>1, <2>2
<1>3. CASE JobSyncs
  <2>1. release \in Runs
    BY <1>3 DEF JobSyncs, ReleaseInv, DeployTypes, Runs
  <2> USE <1>3, <2>1 DEF JobSyncs, JobKeeps
  <2>2. DeployTypes'
    BY DEF DeployTypes
  <2>3. ReleaseInv' /\ RestoreInv' /\ GateInv' /\ CopyInv' /\ ProbeInv'
    BY DEF ReleaseInv, RestoreInv, GateInv, CopyInv, InGate, ProbeInv
  <2> QED BY <2>2, <2>3
<1>4. CASE JobMarks
  <2>1. release \in Runs /\ release \in synced
    BY <1>4 DEF JobMarks, ReleaseInv, DeployTypes, Runs, ProbeInv
  <2>2. /\ marker' \in [Runs -> CommitsOf \cup {None}]
        /\ \A r \in Runs \ {release} : marker'[r] = marker[r]
    BY <1>4, <2>1 DEF JobMarks, DeployTypes, CommitsOf, Commits
  <2> USE <1>4, <2>1, <2>2 DEF JobMarks, JobKeeps
  <2>3. DeployTypes'
    BY DEF DeployTypes
  <2>4. ReleaseInv' /\ RestoreInv' /\ GateInv' /\ CopyInv' /\ ProbeInv'
    BY DEF ReleaseInv, RestoreInv, GateInv, CopyInv, InGate, ProbeInv
  <2> QED BY <2>3, <2>4
<1>5. CASE JobFails
  <2> USE <1>5 DEF JobFails, JobKeeps
  <2>1. DeployTypes'
    BY DEF DeployTypes
  <2>2. ReleaseInv' /\ RestoreInv' /\ GateInv' /\ CopyInv' /\ ProbeInv'
    BY DEF ReleaseInv, RestoreInv, GateInv, CopyInv, InGate, ProbeInv
  <2> QED BY <2>1, <2>2
<1>6. ASSUME NEW p \in Procs, LockTimesOut(p) \/ MigrationFails(p) \/ Crash(p) PROVE DeployInv'
  BY <1>6, EndsKeeps DEF LockTimesOut, MigrationFails, Crash
<1>7. ASSUME NEW p \in Procs, ProcStep(p) PROVE DeployInv'
  BY <1>7, GateStepKeeps
<1>8. ASSUME NEW p \in Procs, Start(p) PROVE DeployInv'
  <2>1. /\ proc' \in [Procs -> ProcStates] /\ proc'[p].at = "gate"
        /\ \A q \in Procs \ {p} : proc'[q] = proc[q]
    BY <1>8, ProcGoes DEF Start, Places
  <2> USE <1>8, <2>1 DEF Start
  <2>2. DeployTypes'
    BY DEF DeployTypes
  <2>3. ReleaseInv' /\ RestoreInv' /\ GateInv' /\ CopyInv' /\ ProbeInv'
    BY DEF ReleaseInv, RestoreInv, GateInv, CopyInv, InGate, ProbeInv
  <2> QED BY <2>2, <2>3
<1>9. ASSUME NEW r \in Runs, Damage(r) PROVE DeployInv'
  <2> DEFINE no == FALSE  worse == [snaps[r] EXCEPT !.whole = no]
  <2>1. snaps[r] \in Snapshots
    BY <1>9 DEF Damage, DeployTypes
  <2>2. worse = [schema |-> snaps[r].schema, commit |-> snaps[r].commit, whole |-> no]
    <3> HIDE DEF no
    <3> QED BY <2>1, DamagedSnapshot
  <2>3. worse \in Snapshots /\ worse.schema = snaps[r].schema
    BY <2>1, <2>2 DEF Snapshots
  <2>4. worse # None
    BY <2>3, NoneAssumption
  <2>5. snaps' = [snaps EXCEPT ![r] = worse]
    BY <1>9 DEF Damage
  <2> HIDE DEF worse
  <2>6. /\ snaps' \in [Runs -> Snapshots \cup {None}] /\ snaps'[r] = worse
        /\ \A q \in Runs \ {r} : snaps'[q] = snaps[q]
    BY <2>3, <2>5 DEF DeployTypes
  <2>7. snaps[r] # None
    BY <1>9 DEF Damage
  <2> USE <1>9, <2>3, <2>4, <2>6, <2>7 DEF Damage
  <2>8. DeployTypes'
    BY DEF DeployTypes
  <2>9. ReleaseInv' /\ RestoreInv' /\ GateInv'
    BY DEF ReleaseInv, RestoreInv, GateInv, InGate
  <2>10. release \in 0 .. LastRun /\ (release > 0 => release \in Runs)
    BY DEF DeployTypes, Runs
  <2>11. CopyInv' /\ ProbeInv'
    BY <2>10 DEF CopyInv, ProbeInv, ReleaseInv, DeployTypes
  <2> QED BY <2>8, <2>9, <2>11
<1>10. ASSUME NEW r \in Runs, Probe(r) PROVE DeployInv'
  <2>1. release \in Runs
    BY <1>10 DEF Probe, AppServes, ReleaseInv, DeployTypes, Runs, Procs
  <2>2. verified' \in BOOLEAN \cup {None}
    BY <1>10 DEF Probe, Found, IsVerified, DeployTypes
  <2>3. Found => snaps[release] # None
    BY DEF Found, IsVerified, ProbeInv, DeployTypes
  <2>4. verified' = TRUE => snaps[release] # None
    BY <1>10, <2>3 DEF Probe, ProbeInv
  <2>5. \A q \in green' : q \in Runs /\ snaps[q] # None /\ q \in synced
    BY <1>10, <2>1, <2>3, NoneAssumption DEF Probe, IsReady, ProbeInv, DeployTypes, Commits
  <2> USE <1>10, <2>1, <2>2, <2>4, <2>5 DEF Probe
  <2>6. DeployTypes'
    BY DEF DeployTypes
  <2>7. ReleaseInv' /\ RestoreInv' /\ GateInv' /\ CopyInv'
    BY DEF ReleaseInv, RestoreInv, GateInv, CopyInv, InGate
  <2>8. ProbeInv'
    BY DEF ProbeInv, ReleaseInv, Runs, DeployTypes
  <2> QED BY <2>6, <2>7, <2>8
<1> QED
  BY <1>1, <1>2, <1>3, <1>4, <1>5, <1>6, <1>7, <1>8, <1>9, <1>10 DEF DeployStep, JobStep

LEMMA DeployInvStutter == DeployInv /\ UNCHANGED deployVars => DeployInv'
  BY DEF deployVars, DeployInv, DeployTypes, ReleaseInv, GateInv, InGate, RestoreInv, CopyInv, ProbeInv

(* A release that changed the schema has a restore point that shows it as  *)
(* it was before the first change, only one process is in the gate, and a  *)
(* run the workflow saw ready has its restore point and its menus.         *)
THEOREM ReleasesStayBackedUp == Spec => []ReleasesAreBackedUp
<1>1. Init => DeployInv
  BY DeployInvInit
<1>2. DeployInv /\ [Next]_vars => DeployInv'
  BY NextIsDeployStep, DeployInvStep, DeployInvStutter
<1>3. DeployInv => ReleasesAreBackedUp
  BY DEF DeployInv, RestoreInv, GateInv, ProbeInv, ReleasesAreBackedUp
<1> QED BY <1>1, <1>2, <1>3, PTL DEF Spec

-----------------------------------------------------------------------------
(* The lock-out keeps its invariant. *)

LEMMA SubsetCount ==
  ASSUME NEW T, IsFiniteSet(T), NEW S \in SUBSET T
  PROVE  IsFiniteSet(S) /\ Cardinality(S) \in Nat /\ Cardinality(S) <= Cardinality(T)
  BY FS_Subset, FS_CardinalityType

Attempts == [nth : Nat, at : Nat]

LEMMA LockInvInit == Init => LockInv
<1> SUFFICES ASSUME AccessInit PROVE LockInv
  BY DEF Init
<1>1. /\ clock = 0 /\ tries = [a \in Addresses |-> {}] /\ failures = [a \in Addresses |-> {}]
  BY DEF AccessInit, Forgotten
<1>2. ASSUME NEW a \in Addresses PROVE ListInv(a) /\ LimitInv(a)
  <2>1. tries[a] = {} /\ failures[a] = {} /\ \A t : Within(a, t) = {}
    BY <1>1 DEF Within
  <2> QED BY <1>1, <2>1, FS_EmptySet, AccessAssumption DEF ListInv, LimitInv
<1> QED BY <1>1, <1>2 DEF LockInv

\* A process that ends forgets the failures.
LEMMA ForgetKeeps == LockInv /\ Forget => LockInv'
<1> SUFFICES ASSUME LockInv, Forget PROVE LockInv'
  OBVIOUS
<1>1. /\ clock' = clock /\ tries' = [a \in Addresses |-> {}] /\ failures' = [a \in Addresses |-> {}]
  BY DEF Forget, Forgotten
<1>2. ASSUME NEW a \in Addresses PROVE ListInv(a)' /\ LimitInv(a)'
  <2>1. tries'[a] = {} /\ failures'[a] = {} /\ \A t : Within(a, t)' = {}
    BY <1>1 DEF Within
  <2> QED BY <1>1, <2>1, FS_EmptySet, AccessAssumption DEF ListInv, LimitInv
<1> QED BY <1>1, <1>2 DEF LockInv

\* Pruning drops no attempt of the last Window.
LEMMA PrunedKeeps ==
  ASSUME LockInv, clock' = clock, NEW a \in Addresses,
         tries'[a] = tries[a], failures'[a] = Recent(failures[a])
  PROVE  ListInv(a)' /\ LimitInv(a)'
  BY DEF LockInv, ListInv, LimitInv, Within, Recent

LEMMA RecentType ==
  ASSUME LockInv, NEW a \in Addresses
  PROVE  Pruned[a] = Recent(failures[a]) /\ Recent(failures[a]) \subseteq Attempts
  BY DEF LockInv, Pruned, Recent, Attempts

LEMMA LoginFailsKeeps ==
  ASSUME LockInv, NEW a \in Addresses, LoginFails(a)
  PROVE  LockInv'
<1> DEFINE f == Attempt(a)  n == Cardinality(tries[a])
<1>1. IsFiniteSet(tries[a]) /\ ListInv(a) /\ LimitInv(a) /\ n \in Nat
  BY FS_CardinalityType DEF LockInv, ListInv
<1>2. f.nth = n /\ f.at = clock /\ f \in Attempts /\ clock \in Nat
  BY <1>1 DEF Attempt, Attempts, LockInv
<1>3. f \notin tries[a]
  BY <1>1, <1>2 DEF ListInv
<1>4. /\ clock' = clock
      /\ tries'[a] = tries[a] \cup {f} /\ failures'[a] = Recent(failures[a]) \cup {f}
      /\ \A b \in Addresses \ {a} : tries'[b] = tries[b] /\ failures'[b] = Recent(failures[b])
      /\ DOMAIN tries' = Addresses /\ DOMAIN failures' = Addresses
  BY RecentType DEF LoginFails, LockInv, Pruned
<1>5. tries' = [b \in Addresses |-> tries'[b]] /\ failures' = [b \in Addresses |-> failures'[b]]
  BY DEF LoginFails, LockInv, Pruned
<1>6. /\ \A b \in Addresses : tries'[b] \subseteq Attempts /\ failures'[b] \subseteq Attempts
  BY <1>2, <1>4, RecentType DEF LockInv, Attempts
<1>7. /\ tries' \in [Addresses -> SUBSET Attempts]
      /\ failures' \in [Addresses -> SUBSET Attempts]
  BY <1>5, <1>6
<1>8. IsFiniteSet(tries'[a]) /\ Cardinality(tries'[a]) = n + 1
  BY <1>1, <1>3, <1>4, FS_AddElement
<1>9. ListInv(a)'
  <2>1. failures'[a] \subseteq tries'[a]
    BY <1>1, <1>4 DEF ListInv, Recent
  <2>2. \A g \in tries'[a] : g.nth \in 0 .. n /\ g.at \in 0 .. clock
    BY <1>1, <1>2, <1>4 DEF ListInv
  <2>3. \A g \in tries'[a] : g.at >= clock - Window => g \in failures'[a]
    BY <1>1, <1>4 DEF ListInv, Recent
  <2>4. n = Cardinality(tries'[a]) - 1
    BY <1>1, <1>8
  <2> QED BY <1>4, <1>8, <2>1, <2>2, <2>3, <2>4 DEF ListInv
<1>10. ASSUME NEW t \in Int PROVE Cardinality(Within(a, t)') <= Threshold
  <2>1. Threshold \in Nat /\ Window \in Nat
    BY AccessAssumption
  <2>2. IsFiniteSet(Within(a, t)) /\ Cardinality(Within(a, t)) \in Nat
        /\ Cardinality(Within(a, t)) <= Threshold
    <3>1. Within(a, t) \in SUBSET tries[a]
      BY DEF Within
    <3> QED BY <1>1, <3>1, SubsetCount DEF LimitInv
  <2>3. CASE t <= clock /\ clock <= t + Window
    <3>1. Within(a, t)' = Within(a, t) \cup {f}
      BY <1>2, <1>4, <2>3 DEF Within
    <3>2. Within(a, t) \in SUBSET Recent(failures[a])
      BY <1>1, <1>2, <2>1, <2>3 DEF Within, Recent, ListInv
    <3>3. Recent(failures[a]) \in SUBSET tries[a]
      BY <1>1 DEF Recent, ListInv
    <3>4. /\ IsFiniteSet(Recent(failures[a])) /\ Cardinality(Recent(failures[a])) \in Nat
          /\ Cardinality(Within(a, t)) <= Cardinality(Recent(failures[a]))
      BY <1>1, <3>2, <3>3, SubsetCount
    <3>5. Cardinality(Recent(failures[a])) < Threshold
      BY <2>1, <3>4 DEF LoginFails, LockedOut
    <3>6. f \notin Within(a, t)
      BY <1>3 DEF Within
    <3>7. Cardinality(Within(a, t) \cup {f}) = Cardinality(Within(a, t)) + 1
      BY <2>2, <3>6, FS_AddElement
    <3> QED BY <2>1, <2>2, <3>1, <3>4, <3>5, <3>7
  <2>4. CASE ~(t <= clock /\ clock <= t + Window)
    <3>1. Within(a, t)' = Within(a, t)
      BY <1>2, <1>4, <2>4 DEF Within
    <3> QED BY <2>2, <3>1
  <2> QED BY <2>3, <2>4
<1>11. LimitInv(a)'
  BY <1>10 DEF LimitInv
<1>12. ASSUME NEW b \in Addresses \ {a} PROVE ListInv(b)' /\ LimitInv(b)'
  BY <1>4, PrunedKeeps
<1> QED BY <1>4, <1>2, <1>7, <1>9, <1>11, <1>12 DEF LockInv, Attempts

LEMMA LoginKeeps ==
  ASSUME LockInv, NEW a \in Addresses, NEW token \in Tokens, Login(a, token)
  PROVE  LockInv'
<1>1. /\ clock' = clock
      /\ tries'[a] = {} /\ failures'[a] = {}
      /\ \A b \in Addresses \ {a} : tries'[b] = tries[b] /\ failures'[b] = Recent(failures[b])
  BY RecentType DEF Login, LockInv, Pruned
<1>2. tries' = [b \in Addresses |-> tries'[b]] /\ failures' = [b \in Addresses |-> failures'[b]]
  BY DEF Login, LockInv, Pruned
<1>3. /\ \A b \in Addresses : tries'[b] \subseteq Attempts /\ failures'[b] \subseteq Attempts
  BY <1>1, RecentType DEF LockInv, Attempts
<1>4. /\ tries' \in [Addresses -> SUBSET Attempts]
      /\ failures' \in [Addresses -> SUBSET Attempts]
  BY <1>2, <1>3
<1>5. ListInv(a)' /\ LimitInv(a)'
  <2>1. \A t : Within(a, t)' = {}
    BY <1>1 DEF Within
  <2>2. tries'[a] = {} /\ failures'[a] = {}
    BY <1>1
  <2>3. ListInv(a)'
    BY <2>2, FS_EmptySet DEF ListInv
  <2>4. LimitInv(a)'
    BY <2>1, FS_EmptySet, AccessAssumption DEF LimitInv
  <2> QED BY <2>3, <2>4
<1>6. ASSUME NEW b \in Addresses \ {a} PROVE ListInv(b)' /\ LimitInv(b)'
  BY <1>1, PrunedKeeps
<1> QED BY <1>1, <1>4, <1>5, <1>6 DEF LockInv, Attempts

LEMMA RefusalKeeps ==
  ASSUME LockInv, NEW a \in Addresses, LoginRefused(a)
  PROVE  LockInv'
<1>1. /\ clock' = clock /\ tries' = tries
      /\ failures' \in [Addresses -> SUBSET Attempts]
      /\ \A b \in Addresses : failures'[b] = Recent(failures[b])
  <2>1. \A b \in Addresses : Recent(failures[b]) \in SUBSET Attempts
    BY RecentType
  <2> QED BY <2>1 DEF LoginRefused, Pruned
<1>2. ASSUME NEW b \in Addresses PROVE ListInv(b)' /\ LimitInv(b)'
  BY <1>1, PrunedKeeps
<1> QED BY <1>1, <1>2 DEF LockInv, Attempts

\* What other steps leave alone, and the passing of time, keep the lists good.
LEMMA ListsStay ==
  ASSUME LockInv, clock' \in Nat, clock' >= clock, UNCHANGED <<failures, tries>>
  PROVE  LockInv'
<1>1. ASSUME NEW a \in Addresses PROVE ListInv(a)' /\ LimitInv(a)'
  BY AccessAssumption DEF LockInv, ListInv, LimitInv, Within
<1> QED BY <1>1 DEF LockInv

LEMMA LockInvNext == LockInv /\ [Next]_vars => LockInv'
<1> SUFFICES ASSUME LockInv, [Next]_vars PROVE LockInv'
  OBVIOUS
<1>1. clock \in Nat
  BY DEF LockInv
<1>2. CASE UNCHANGED <<clock, failures, tries>>
  BY <1>1, <1>2, ListsStay
<1>3. CASE TimePasses
  BY <1>1, <1>3, ListsStay DEF TimePasses
<1>4. CASE Forget
  BY <1>4, ForgetKeeps
<1>5. ASSUME NEW a \in Addresses, LoginRefused(a) \/ LoginFails(a) \/ \E t \in Tokens : Login(a, t)
      PROVE LockInv'
  BY <1>5, RefusalKeeps, LoginFailsKeeps, LoginKeeps
<1>6. CASE Access
  <2>1. CASE Directory
    <3>1. UNCHANGED <<clock, failures, tries>>
      BY <2>1 DEF Directory, Identify, DirectoryAnswers, DirectoryFails, Learn, AskAgain, EditManagers
    <3> QED BY <1>2, <3>1
  <2>2. CASE Passcode
    BY <1>2, <1>3, <1>5, <2>2 DEF Passcode, Present, Logout, Validate
  <2> QED BY <1>6, <2>1, <2>2 DEF Access
<1>7. CASE Releases
  BY <1>2, <1>4, <1>7 DEF Releases, accessVars
<1>8. CASE UNCHANGED vars
  BY <1>2, <1>8 DEF vars, accessVars
<1> QED BY <1>6, <1>7, <1>8 DEF Next

(* No address fails more often than the threshold within a window without  *)
(* a success, whatever the threshold and the window are.                   *)
THEOREM LoginsStayLimited == Spec => []LoginsAreLimited
<1>1. Init => LockInv
  BY LockInvInit
<1>2. LockInv /\ [Next]_vars => LockInv'
  BY LockInvNext
<1>3. LockInv => LoginsAreLimited
  BY DEF LockInv, LimitInv, Within, LoginsAreLimited
<1> QED BY <1>1, <1>2, <1>3, PTL DEF Spec

=============================================================================
