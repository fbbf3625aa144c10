------------------------------- MODULE Deployment -------------------------------
(***************************************************************************)
(* A release on its way into production: the backup gate that Alembic      *)
(* passes before it migrates (app/services/deploy_backup.py,               *)
(* database/migrations/env.py), the start of the application behind it,    *)
(* the one-shot post-deploy job (scripts/post_deploy.py with the marker of *)
(* app/services/post_deploy.py) and the probe the workflow waits for       *)
(* (app/api/deployment_ready.py).                                          *)
(*                                                                         *)
(* A run is one attempt of the workflow; two attempts may deploy the same  *)
(* commit.  Compose replaces the containers of a release, restarts an      *)
(* application that ended and never restarts the job.                      *)
(***************************************************************************)
EXTENDS Integers, FiniteSets

CONSTANTS
  LastRun,    \* bound: runs are 1 .. LastRun
  Commit,     \* by run: what it deploys
  Latest,       \* by commit: the last migration it knows
  MaxFaults,  \* bound: crashes and failures
  MaxByHand,  \* bound: migrations started by hand
  None

Runs == 1 .. LastRun
ASSUME DeploymentAssumption ==
  /\ LastRun \in Nat \ {0} /\ MaxFaults \in Nat /\ MaxByHand \in Nat
  /\ \A r \in Runs : Latest[Commit[r]] \in Nat

\* The container of the application, and "alembic upgrade head" run by hand in
\* a container of the same release.
Procs == {"app", "hand"}

Schemas == [rev : Nat, part : BOOLEAN]
Snapshots == [schema : Schemas, commit : {Commit[r] : r \in Runs}, whole : BOOLEAN]
ASSUME NoneAssumption ==
  /\ None \notin Procs /\ None \notin BOOLEAN /\ \A r \in Runs : None # Commit[r]
  /\ None \notin Schemas /\ None \notin Snapshots

VARIABLES
  release,  \* the run whose images and environment are in place
  db,       \* the schema: [rev, part], part: a migration stopped half-way
  snaps,    \* /backups/snapshots, by run: [schema, commit, whole] or None
  lock,     \* who holds .migration.lock
  proc,     \* by process: [at, copy], copy: what its staging directory holds
  job,      \* the post-deploy container: where it is
  marker,   \* /backups/post-deploy, by run: the commit, or None
  verified, \* _verified's cache in the application: None or what it found
  before,   \* history: by run, the schema before its first change, or None
  synced,   \* history: the runs whose menus were reconciled to the end
  green,    \* history: the runs the workflow saw ready
  faults, byHand

deployVars == <<release, db, snaps, lock, proc, job, marker, verified, before, synced, green, faults, byHand>>

Down == [at |-> "down", copy |-> None]

DeployInit ==
  /\ release = 0 /\ db = [rev |-> 0, part |-> FALSE]
  /\ snaps = [r \in Runs |-> None] /\ marker = [r \in Runs |-> None]
  /\ before = [r \in Runs |-> None]
  /\ lock = None /\ proc = [p \in Procs |-> Down] /\ job = "none" /\ verified = None
  /\ synced = {} /\ green = {} /\ faults = 0 /\ byHand = 0

Goes(p, at) == proc' = [proc EXCEPT ![p].at = at]
Fault == faults < MaxFaults /\ faults' = faults + 1

\* Mutant: the lock is a file that exists, and stays when its process dies.
EndsLocked(p) ==
  /\ proc' = [proc EXCEPT ![p] = Down] /\ UNCHANGED lock
  /\ verified' = IF p = "app" THEN None ELSE verified

\* A process ends: its descriptor is closed, which frees the lock, and what it
\* remembered is gone.
Ends(p) ==
  /\ proc' = [proc EXCEPT ![p] = Down]
  /\ lock' = IF lock = p THEN None ELSE lock
  /\ verified' = IF p = "app" THEN None ELSE verified

\* The forced-command deploy: new images and a new environment.
Deploy ==
  /\ release < LastRun /\ release' = release + 1
  /\ proc' = [p \in Procs |-> Down] /\ lock' = None /\ verified' = None /\ job' = "waits"
  /\ UNCHANGED <<db, snaps, marker, before, synced, green, faults, byHand>>

Commits == Commit[release]

\* run_migrations_online comes to before_migrations.
Start(p) ==
  /\ release > 0 /\ proc[p].at = "down"
  /\ IF p = "app" THEN UNCHANGED byHand ELSE byHand < MaxByHand /\ byHand' = byHand + 1
  /\ Goes(p, "gate")
  /\ UNCHANGED <<release, db, snaps, lock, job, marker, verified, before, synced, green, faults>>

TakeLock(p) ==
  /\ proc[p].at = "gate" /\ lock = None /\ lock' = p /\ Goes(p, "look")
  /\ UNCHANGED <<release, db, snaps, job, marker, verified, before, synced, green, faults, byHand>>

\* lock_timeout, 30 seconds
LockTimesOut(p) ==
  /\ proc[p].at = "gate" /\ lock # None /\ Ends(p)
  /\ UNCHANGED <<release, db, snaps, job, marker, before, synced, green, faults, byHand>>

\* verify_snapshot
IsVerified(r, commit) == snaps[r] # None /\ snaps[r].commit = commit /\ snaps[r].whole

\* Mutant: a snapshot of the run is made anew at every start.
LookAndRenew(p) ==
  /\ proc[p].at = "look" /\ Goes(p, "copy")
  /\ UNCHANGED <<release, db, snaps, lock, job, marker, verified, before, synced, green, faults, byHand>>

\* The folder of this run, when it is there, is verified and used again.
Look(p) ==
  /\ proc[p].at = "look"
  /\ IF snaps[release] = None THEN Goes(p, "copy") /\ UNCHANGED <<lock, verified>>
     ELSE IF IsVerified(release, Commits) THEN Goes(p, "migrate") /\ UNCHANGED <<lock, verified>>
     ELSE Ends(p)
  /\ UNCHANGED <<release, db, snaps, job, marker, before, synced, green, faults, byHand>>

\* The disk damages a snapshot.
Damage(r) ==
  /\ snaps[r] # None /\ snaps[r].whole /\ Fault
  /\ snaps' = [snaps EXCEPT ![r].whole = FALSE]
  /\ UNCHANGED <<release, db, lock, proc, job, marker, verified, before, synced, green, byHand>>

\* _copy_database and the manifest, in a staging directory of its own.
Copy(p) ==
  /\ proc[p].at = "copy"
  /\ proc' = [proc EXCEPT ![p] = [at |-> "rename", copy |-> db]]
  /\ UNCHANGED <<release, db, snaps, lock, job, marker, verified, before, synced, green, faults, byHand>>

\* Verified, synced to the disk and renamed.
Rename(p) ==
  /\ proc[p].at = "rename"
  /\ snaps' = [snaps EXCEPT ![release] = [schema |-> proc[p].copy, commit |-> Commits, whole |-> TRUE]]
  /\ proc' = [proc EXCEPT ![p] = [at |-> "migrate", copy |-> None]]
  /\ UNCHANGED <<release, db, lock, job, marker, verified, before, synced, green, faults, byHand>>

\* SQLite's DDL commits by itself: the first statements of a migration show
\* before its version is stamped.
MigrationStarts(p) ==
  /\ proc[p].at = "migrate" /\ db.rev < Latest[Commits] /\ ~db.part
  /\ db' = [db EXCEPT !.part = TRUE] /\ Goes(p, "stamp")
  /\ before' = [before EXCEPT ![release] = IF @ = None THEN db ELSE @]
  /\ UNCHANGED <<release, snaps, lock, job, marker, verified, synced, green, faults, byHand>>

MigrationEnds(p) ==
  /\ proc[p].at = "stamp"
  /\ db' = [rev |-> db.rev + 1, part |-> FALSE] /\ Goes(p, "migrate")
  /\ UNCHANGED <<release, snaps, lock, job, marker, verified, before, synced, green, faults, byHand>>

\* What an earlier crash left half-done goes through when the migration allows
\* for it, and fails when it does not; a revision the release does not know fails.
MigrationRepeats(p) ==
  /\ proc[p].at = "migrate" /\ db.part /\ db.rev < Latest[Commits] /\ Goes(p, "stamp")
  /\ before' = [before EXCEPT ![release] = IF @ = None THEN db ELSE @]
  /\ UNCHANGED <<release, db, snaps, lock, job, marker, verified, synced, green, faults, byHand>>

MigrationFails(p) ==
  /\ proc[p].at = "migrate" /\ (db.part \/ db.rev > Latest[Commits]) /\ Ends(p)
  /\ UNCHANGED <<release, db, snaps, job, marker, before, synced, green, faults, byHand>>

\* Alembic is through and leaves the gate; the container goes on to uvicorn.
Migrated(p) ==
  /\ proc[p].at = "migrate" /\ db.rev = Latest[Commits] /\ ~db.part
  /\ proc' = [proc EXCEPT ![p].at = IF p = "app" THEN "serves" ELSE "down"]
  /\ lock' = None
  /\ UNCHANGED <<release, db, snaps, job, marker, verified, before, synced, green, faults, byHand>>

\* A crash, a full disk, a copy that takes too long.
Crash(p) ==
  /\ proc[p].at # "down" /\ Fault /\ Ends(p)
  /\ UNCHANGED <<release, db, snaps, job, marker, before, synced, green, byHand>>

-----------------------------------------------------------------------------
(* The post-deploy job and the probe. *)

AppServes == proc["app"].at = "serves"
JobKeeps == UNCHANGED <<release, db, snaps, lock, proc, verified, before, green, byHand>>

\* _wait_for_app, then verify_snapshot
JobSeesApp ==
  /\ job = "waits" /\ AppServes
  /\ job' = IF IsVerified(release, Commits) THEN "syncs" ELSE "failed"
  /\ UNCHANGED <<marker, synced, faults>> /\ JobKeeps

\* staff_oa_sync.sync(apply=True): MenuSync.tla
JobSyncs ==
  /\ job = "syncs" /\ job' = "marks" /\ synced' = synced \cup {release}
  /\ UNCHANGED <<marker, faults>> /\ JobKeeps

\* write_marker replaces the file in one step.
JobMarks ==
  /\ job = "marks" /\ job' = "done"
  /\ marker' = [marker EXCEPT ![release] = Commits]
  /\ UNCHANGED <<synced, faults>> /\ JobKeeps

\* The deadline of the wait passes, a call to LINE fails, the container is killed.
JobFails ==
  /\ job \in {"waits", "syncs", "marks"} /\ Fault /\ job' = "failed"
  /\ UNCHANGED <<marker, synced>> /\ JobKeeps

\* deployment_ready, asked by the workflow of run r.  The outcome of the first
\* verification is kept as long as the process lives; markers are read each time.
Found == IF verified = None THEN IsVerified(release, Commits) ELSE verified
IsReady(r, commit) == r = release /\ commit = Commits /\ Found /\ marker[r] = commit

Probe(r) ==
  /\ AppServes /\ r \in 1 .. release /\ r \notin green
  /\ verified' = IF r = release /\ Commit[r] = Commits THEN Found ELSE verified
  /\ green' = IF IsReady(r, Commit[r]) THEN green \cup {r} ELSE green
  /\ UNCHANGED <<release, db, snaps, lock, proc, job, marker, before, synced, faults, byHand>>

ProcStep(p) ==
  \/ TakeLock(p) \/ Look(p) \/ Copy(p) \/ Rename(p)
  \/ MigrationStarts(p) \/ MigrationEnds(p) \/ MigrationRepeats(p) \/ Migrated(p)

JobStep == JobSeesApp \/ JobSyncs \/ JobMarks

=============================================================================
