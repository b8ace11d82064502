----------------------------- MODULE Snapshots ------------------------------
(***************************************************************************)
(* Named runtime snapshots (apps/rustack/src/snapshot.rs and snapshot/).    *)
(* A process takes the snapshot's lease, imports the committed generation,  *)
(* serves, and at shutdown publishes a new one with two renames.  Processes *)
(* may be killed at any step and the machine may lose power.                *)
(*                                                                         *)
(* The file system is external.  A directory is [gen, whole, synced]; a     *)
(* directory being written or removed is not whole.  Root entries reach the *)
(* disk in order, at the latest at the next sync_directory(root): `journal' *)
(* holds the root from the last sync on, and a power failure falls back to  *)
(* one of its elements.                                                     *)
(***************************************************************************)
EXTENDS Integers, FiniteSets

CONSTANTS Runtimes,       \* processes started with the same --snapshot name
          MaxGeneration   \* bound on the generations ever prepared

NoOwner == "nobody"

\* the initial roots hold generations up to 2
ASSUME SnapshotAssumption ==
    /\ NoOwner \notin Runtimes
    /\ MaxGeneration \in Nat /\ MaxGeneration >= 2

VARIABLES root,       \* entries of the snapshot root directory
          journal,    \* the roots from the last sync to now
          lease,      \* the process that holds the lock file, or NoOwner
          runtime,    \* per process: its main task and its transaction
          acknowledged, \* history: the last generation a save reported
          prepared    \* history: the last generation prepared

snapshotVars == <<root, journal, lease, runtime, acknowledged, prepared>>

NoDir == [gen |-> 0, whole |-> FALSE, synced |-> TRUE]
Exists(d) == d # NoDir
Generation(n) == [gen |-> n, whole |-> TRUE, synced |-> TRUE]

\* remove_dir_all, too, damages a directory before it is gone
Damaged(d) == [d EXCEPT !.whole = FALSE]

Root(target, bak) == [target |-> target, previous |-> NoDir, tmp |-> NoDir, bak |-> bak]

NoTask == [op |-> "none", pc |-> "none", had |-> FALSE]
Off == [st |-> "off", loaded |-> -1, task |-> NoTask]

\* nothing yet, a committed generation, one whose replacement was damaged, or
\* backups of the old naming scheme
SnapshotInit ==
    /\ root \in {Root(NoDir, {}), Root(Generation(1), {}), Root(NoDir, {Generation(1)}),
                 [Root(Damaged(Generation(2)), {}) EXCEPT !.previous = Generation(1)],
                 Root(NoDir, {Generation(1), Generation(2)})}
    /\ journal = {root}
    /\ lease = NoOwner
    /\ runtime = [p \in Runtimes |-> Off]
    /\ acknowledged = IF Cardinality(root.bak) = 2 THEN 0
                      ELSE IF Exists(root.target) \/ root.bak # {} THEN 1 ELSE 0
    /\ prepared = 2

-----------------------------------------------------------------------------
(* File system steps.                                                       *)

Write(r) == root' = r /\ journal' = journal \cup {r}
SyncRoot == journal' = {root} /\ UNCHANGED root
SameRoot == UNCHANGED <<root, journal>>

-----------------------------------------------------------------------------
(* Transactions: the task of SnapshotTask::start, one await at a time.      *)

AtPc(p, pc) == runtime[p].task.pc = pc

Goto(p, pc) ==
    /\ runtime' = [runtime EXCEPT ![p].task.pc = pc]
    /\ UNCHANGED <<lease, acknowledged, prepared>>

Loading(p) == runtime[p].task.op = "load"
Fails(p) == Goto(p, "failed")

\* recover_snapshot: the generation to fall back to, if any
Backup(r) ==
    IF Exists(r.previous) THEN r.previous
    ELSE IF ~Exists(r.target) /\ Cardinality(r.bak) = 1 THEN CHOOSE d \in r.bak : TRUE
    ELSE NoDir
Ambiguous(r) == ~Exists(r.previous) /\ ~Exists(r.target) /\ Cardinality(r.bak) > 1

Recovered(p) == IF Loading(p) THEN "import" ELSE "validate"

cleanup_stale_staging(p) ==
    /\ AtPc(p, "clean")
    /\ IF Exists(root.tmp) THEN Write([root EXCEPT !.tmp = NoDir]) ELSE SameRoot
    /\ Goto(p, "recover")

recover_snapshot(p) ==
    /\ AtPc(p, "recover")
    /\ LET backup == Backup(root)
       IN Goto(p, IF Ambiguous(root) THEN "failed"
                  ELSE IF ~Exists(backup) \/ root.target.whole THEN Recovered(p)
                  ELSE IF ~backup.whole THEN "failed"
                  ELSE IF Exists(root.target) THEN "aside" ELSE "restore")
    /\ SameRoot

\* an invalid target is kept under a name nobody reads again
SetAside(p) ==
    /\ AtPc(p, "aside")
    /\ Write([root EXCEPT !.target = NoDir])
    /\ Goto(p, "restore")

Restore(p) ==
    /\ AtPc(p, "restore")
    /\ Write([root EXCEPT !.target = Backup(root), !.previous = NoDir,
                          !.bak = @ \ {Backup(root)}])
    /\ Goto(p, "restored")

SyncRestored(p) ==
    /\ AtPc(p, "restored")
    /\ SyncRoot
    /\ Goto(p, Recovered(p))

\* every service's import; the domain may reject what is physically whole
Import(p) ==
    /\ AtPc(p, "import")
    /\ SameRoot
    /\ \/ ~Exists(root.target) /\ Goto(p, "loaded")
       \/ Exists(root.target) /\ root.target.whole /\ Goto(p, "retire")
       \/ Exists(root.target) /\ Fails(p)

\* retire_previous_checked: the load's deadline is looked at before removal
Retired(p) == IF Loading(p) THEN "loaded" ELSE "preserve"

retire_previous(p) ==
    /\ AtPc(p, "retire")
    /\ \/ Exists(root.previous) /\ Write([root EXCEPT !.previous = Damaged(@)]) /\ Goto(p, "remove")
       \/ ~Exists(root.previous) /\ SameRoot /\ Goto(p, Retired(p))
       \/ Loading(p) /\ SameRoot /\ Fails(p)

RemovePrevious(p) ==
    /\ AtPc(p, "remove")
    /\ Write([root EXCEPT !.previous = NoDir])
    /\ Goto(p, "removed")

SyncRemoved(p) ==
    /\ AtPc(p, "removed")
    /\ SyncRoot
    /\ Goto(p, Retired(p))

\* SnapshotConfig::save: shards, then the manifest; a service may fail
Prepare(p) ==
    /\ AtPc(p, "prepare")
    /\ prepared < MaxGeneration
    /\ Write([root EXCEPT !.tmp = [gen |-> prepared + 1, whole |-> FALSE, synced |-> FALSE]])
    /\ prepared' = prepared + 1
    /\ runtime' = [runtime EXCEPT ![p].task.pc = "manifest"]
    /\ UNCHANGED <<lease, acknowledged>>

WriteManifest(p) ==
    /\ AtPc(p, "manifest")
    /\ \/ Write([root EXCEPT !.tmp.whole = TRUE]) /\ Goto(p, "recover")
       \/ SameRoot /\ Fails(p)

\* replace_directory: the prepared generation is read back; its limits or the
\* file system may refuse it
validate_generation(p) ==
    /\ AtPc(p, "validate")
    /\ SameRoot
    /\ \/ root.tmp.whole /\ Goto(p, "sync")
       \/ Fails(p)

\* mutant: the prepared files are not flushed
SkipSyncTree(p) ==
    /\ AtPc(p, "sync")
    /\ SameRoot
    /\ Goto(p, "retire")

sync_tree(p) ==
    /\ AtPc(p, "sync")
    /\ Write([root EXCEPT !.tmp.synced = TRUE])
    /\ Goto(p, "retire")

PreservePrevious(p) ==
    /\ AtPc(p, "preserve")
    /\ LET had == Exists(root.target)
       IN /\ IF had THEN Write([root EXCEPT !.previous = root.target, !.target = NoDir])
                    ELSE SameRoot
          /\ runtime' = [runtime EXCEPT ![p].task.had = had,
                                        ![p].task.pc = IF had THEN "preserved" ELSE "publish"]
    /\ UNCHANGED <<lease, acknowledged, prepared>>

SyncPreserved(p) ==
    /\ AtPc(p, "preserved")
    /\ SyncRoot
    /\ Goto(p, "publish")

Publish(p) ==
    /\ AtPc(p, "publish")
    /\ \/ Write([root EXCEPT !.target = root.tmp, !.tmp = NoDir]) /\ Goto(p, "published")
       \/ /\ IF runtime[p].task.had
             THEN Write([root EXCEPT !.target = root.previous, !.previous = NoDir])
             ELSE SameRoot
          /\ Goto(p, "unpublished")

SyncUnpublished(p) ==
    /\ AtPc(p, "unpublished")
    /\ IF runtime[p].task.had THEN SyncRoot ELSE SameRoot
    /\ Fails(p)

SyncPublished(p) ==
    /\ AtPc(p, "published")
    /\ SyncRoot
    /\ Goto(p, IF runtime[p].task.had THEN "drop" ELSE "saved")

DropPrevious(p) ==
    /\ AtPc(p, "drop")
    /\ Write([root EXCEPT !.previous = Damaged(@)])
    /\ Goto(p, "dropping")

DroppedPrevious(p) ==
    /\ AtPc(p, "dropping")
    /\ Write([root EXCEPT !.previous = NoDir])
    /\ Goto(p, "dropped")

SyncDropped(p) ==
    /\ AtPc(p, "dropped")
    /\ SyncRoot
    /\ Goto(p, "saved")

TaskStep(p) ==
    \/ cleanup_stale_staging(p) \/ recover_snapshot(p) \/ SetAside(p) \/ Restore(p)
    \/ SyncRestored(p) \/ Import(p) \/ retire_previous(p) \/ RemovePrevious(p)
    \/ SyncRemoved(p) \/ Prepare(p) \/ WriteManifest(p) \/ validate_generation(p)
    \/ sync_tree(p) \/ PreservePrevious(p) \/ SyncPreserved(p) \/ Publish(p)
    \/ SyncUnpublished(p) \/ SyncPublished(p) \/ DropPrevious(p) \/ DroppedPrevious(p)
    \/ SyncDropped(p)

-----------------------------------------------------------------------------
(* The main task of a process: SnapshotSession above every observation.     *)

Become(p, r) ==
    /\ runtime' = [runtime EXCEPT ![p] = r]
    /\ UNCHANGED <<root, journal, prepared>>

\* SnapshotSession::new: the lock is tried once, in a blocking task
Start(p) ==
    /\ runtime[p].st = "off"
    /\ Become(p, [Off EXCEPT !.st = "starting"])
    /\ UNCHANGED <<lease, acknowledged>>

AcquireLease(p) ==
    /\ runtime[p].st \in {"starting", "stopping"} /\ AtPc(p, "none")
    /\ runtime[p].loaded = -1 /\ lease = NoOwner
    /\ lease' = p
    /\ UNCHANGED <<root, journal, runtime, acknowledged, prepared>>

\* mutant: the load does not wait for the lease
BeginLoadUnleased(p) ==
    /\ runtime[p].st = "starting" /\ AtPc(p, "none")
    /\ Become(p, [runtime[p] EXCEPT !.task = [NoTask EXCEPT !.op = "load", !.pc = "clean"]])
    /\ UNCHANGED <<lease, acknowledged>>

BeginLoad(p) ==
    /\ runtime[p].st = "starting" /\ AtPc(p, "none") /\ lease = p
    /\ Become(p, [runtime[p] EXCEPT !.task = [NoTask EXCEPT !.op = "load", !.pc = "clean"]])
    /\ UNCHANGED <<lease, acknowledged>>

Loaded(p) ==
    /\ runtime[p].st = "starting" /\ AtPc(p, "loaded")
    /\ Become(p, [st |-> "serving", loaded |-> root.target.gen, task |-> NoTask])
    /\ UNCHANGED <<lease, acknowledged>>

\* mutant: a process whose load failed serves and saves as if it had found nothing
StartupFailsOpen(p) ==
    /\ runtime[p].st = "starting" /\ AtPc(p, "failed")
    /\ Become(p, [st |-> "serving", loaded |-> 0, task |-> NoTask])
    /\ UNCHANGED <<lease, acknowledged>>

\* refused, failed or too late: the transaction, if any, is not aborted
StartupFails(p) ==
    /\ runtime[p].st = "starting"
    /\ Become(p, [runtime[p] EXCEPT !.st = "stopping"])
    /\ UNCHANGED <<lease, acknowledged>>

\* the services are quiesced; save only after a successful load
BeginSave(p) ==
    /\ runtime[p].st = "serving" /\ AtPc(p, "none") /\ runtime[p].loaded # -1
    /\ Become(p, [runtime[p] EXCEPT !.st = "saving",
                     !.task = [NoTask EXCEPT !.op = "save", !.pc = "prepare"]])
    /\ UNCHANGED <<lease, acknowledged>>

QuiesceFails(p) ==
    /\ runtime[p].st = "serving"
    /\ Become(p, [runtime[p] EXCEPT !.st = "stopping"])
    /\ UNCHANGED <<lease, acknowledged>>

\* finish() sees a save that completed before or after its first deadline
Saved(p) ==
    /\ runtime[p].st \in {"saving", "stopping"} /\ AtPc(p, "saved")
    /\ acknowledged' = root.target.gen
    /\ Become(p, [runtime[p] EXCEPT !.st = "stopping", !.task = NoTask])
    /\ UNCHANGED lease

SaveObservationEnds(p) ==
    /\ runtime[p].st = "saving"
    /\ Become(p, [runtime[p] EXCEPT !.st = "stopping"])
    /\ UNCHANGED <<lease, acknowledged>>

\* the process ends, orderly or not, whatever its transaction is doing; the
\* operating system gives the lock back
Exit(p) ==
    /\ runtime[p].st # "off"
    /\ lease' = IF lease = p THEN NoOwner ELSE lease
    /\ Become(p, Off)
    /\ UNCHANGED acknowledged

\* what is on disk after a power failure
OnDisk(d) == IF d.synced THEN {d} ELSE {d, Damaged(d)}
Survivor(r, t, v, m) == [r EXCEPT !.target = t, !.previous = v, !.tmp = m]
Survivors(r) ==
    {Survivor(r, t, v, m) :
        t \in OnDisk(r.target), v \in OnDisk(r.previous), m \in OnDisk(r.tmp)}
AfterPowerFailure == UNION {Survivors(r) : r \in journal}

PowerFailure ==
    /\ \E r \in AfterPowerFailure : root' = r /\ journal' = {r}
    /\ lease' = NoOwner
    /\ runtime' = [p \in Runtimes |-> Off]
    /\ UNCHANGED <<acknowledged, prepared>>

SnapshotNext ==
    \/ \E p \in Runtimes :
         \/ TaskStep(p)
         \/ Start(p) \/ AcquireLease(p) \/ BeginLoad(p) \/ Loaded(p) \/ StartupFails(p)
         \/ BeginSave(p) \/ QuiesceFails(p) \/ Saved(p) \/ SaveObservationEnds(p) \/ Exit(p)
    \/ PowerFailure

SnapshotSpec == SnapshotInit /\ [][SnapshotNext]_snapshotVars
-----------------------------------------------------------------------------
(* Properties.                                                              *)

SnapshotTypeOK ==
    /\ \A d \in {root.target, root.previous, root.tmp} \cup root.bak : d.gen \in 0..MaxGeneration
    /\ root \in journal
    /\ lease \in Runtimes \cup {NoOwner}
    /\ \A p \in Runtimes :
         /\ runtime[p].st \in {"off", "starting", "serving", "saving", "stopping"}
         /\ runtime[p].loaded \in -1..MaxGeneration
         /\ runtime[p].task.op # "none" => lease = p

\* the generation a start that nothing disturbs imports from root r
Selected(r) == IF ~Exists(Backup(r)) \/ r.target.whole THEN r.target ELSE Backup(r)

\* Whatever step a save or a load was interrupted at, by the end of its
\* process or of the machine's power, the next start finds a complete
\* generation, and none older than the last one a save reported.
Recoverable ==
    acknowledged # 0 =>
        \A r \in {root} \cup AfterPowerFailure :
            Selected(r).whole /\ Selected(r).gen >= acknowledged

\* A save replaces the very generation its process imported: no other
\* process' snapshot is overwritten unseen, and none is overwritten by a
\* process whose import failed or timed out.
ReplacesLoaded ==
    [][\A p \in Runtimes :
          AtPc(p, "publish") /\ runtime'[p].task.pc = "published" =>
              runtime[p].loaded = IF runtime[p].task.had THEN root.previous.gen ELSE 0]_snapshotVars
=============================================================================
