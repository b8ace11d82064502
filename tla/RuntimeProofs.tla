---------------------------- MODULE RuntimeProofs ----------------------------
(***************************************************************************)
(* Proofs about what the process keeps outside of itself: the snapshots on *)
(* disk, and the containers of Lambda functions at the Docker daemon.      *)
(***************************************************************************)
EXTENDS Snapshots, DockerPool, FilteringProofs, FiniteSetTheorems, SequenceTheorems, TLAPS

-----------------------------------------------------------------------------
(***************************************************************************)
(* Theorems about the snapshots, for every set of processes and every      *)
(* number of generations.                                                  *)
(***************************************************************************)

(***************************************************************************)
(* The inductive invariant.                                                *)
(***************************************************************************)
Directory == [gen : Nat, whole : BOOLEAN, synced : BOOLEAN]
RootDirectory == [target : Directory, previous : Directory, tmp : Directory, bak : SUBSET Directory]

\* A directory that does not exist has no generation.
DirOK(d) == d \in Directory /\ d.gen <= prepared /\ (d = NoDir \/ d.gen >= 1)

\* Only the directory that is being prepared may be lost with the power.
RootOK(r) ==
    /\ r \in RootDirectory
    /\ DirOK(r.target) /\ DirOK(r.previous) /\ DirOK(r.tmp)
    /\ r.target.synced /\ r.previous.synced
    /\ \A d \in r.bak : DirOK(d) /\ d.synced

\* A start from root r imports a generation not older than the one acknowledged.
Safe(r) == acknowledged # 0 => Selected(r).whole /\ Selected(r).gen >= acknowledged

HistoryInv ==
    /\ acknowledged \in Nat /\ prepared \in Nat
    /\ acknowledged <= prepared /\ 1 <= prepared /\ prepared <= MaxGeneration

FilesInv == root \in journal /\ \A r \in journal : RootOK(r) /\ Safe(r)

\* There is no generation, or the target is one.
Settled(r) == r.target.whole \/ (r.target = NoDir /\ Backup(r) = NoDir)

\* The generation that is being saved.
Staged == root.tmp.gen = prepared
StagedWhole == Staged /\ root.tmp.whole
StagedSynced == StagedWhole /\ root.tmp.synced

LoadPcs == {"clean", "recover", "aside", "restore", "restored", "import", "retire", "remove",
            "removed", "loaded", "failed"}
SavePcs == {"prepare", "manifest", "recover", "validate", "sync", "retire", "remove", "removed",
            "preserve", "preserved", "publish", "published", "unpublished", "drop", "dropping",
            "dropped", "saved", "failed"}

\* What a load has established at each await.
LoadInv(pc) ==
    /\ pc = "aside" => root.previous # NoDir /\ root.previous.whole /\ ~root.target.whole
    /\ pc = "restore" => root.target = NoDir /\ Backup(root) # NoDir /\ Backup(root).whole
    /\ pc \in {"restored", "retire", "remove", "removed"} => root.target.whole
    /\ pc = "import" => root.target.whole \/ Backup(root) = NoDir
    /\ pc = "loaded" => Settled(root)

\* What a save has established at each await.
SaveInv(pc, had, loaded) ==
    /\ pc \in {"prepare", "manifest", "recover", "validate", "sync", "retire", "remove", "removed",
               "preserve"} => Settled(root) /\ root.target.gen = loaded
    /\ pc \in {"manifest", "recover", "validate"} => Staged
    /\ pc = "sync" => StagedWhole
    /\ pc \in {"retire", "remove", "removed", "preserve", "preserved", "publish"} => StagedSynced
    /\ pc \in {"remove", "removed"} => root.target.whole
    /\ pc \in {"removed", "preserve"} => root.previous = NoDir
    /\ pc \in {"preserved", "publish"} => root.target = NoDir
    /\ pc = "preserved" => had
    /\ pc \in {"preserved", "publish"} => IF had THEN root.previous # NoDir /\ root.previous.gen = loaded
                                                 ELSE root.previous = NoDir /\ loaded = 0
    /\ pc \in {"published", "drop", "dropping", "dropped", "saved"} => root.target.whole
    /\ pc = "saved" => journal = {root}

Task == [op : {"none", "load", "save"}, pc : LoadPcs \cup SavePcs \cup {"none"}, had : BOOLEAN]
Process == [st : {"off", "starting", "serving", "saving", "stopping"},
            loaded : Nat \cup {-1}, task : Task]

\* Process p holds the lease while it has anything to do with the files.
ProcessInv(p) ==
    LET r == runtime[p]
        t == r.task
    IN  /\ t.op # "none" \/ r.loaded # -1 => lease = p
        /\ t.op = "none" => t.pc = "none"
        /\ t.op = "load" => t.pc \in LoadPcs /\ r.loaded = -1 /\ r.st \in {"starting", "stopping"}
        /\ t.op = "save" => t.pc \in SavePcs /\ r.loaded # -1 /\ r.st \in {"saving", "stopping"}
        /\ t.op = "load" => LoadInv(t.pc)
        /\ t.op = "save" => SaveInv(t.pc, t.had, r.loaded)
        /\ r.loaded <= prepared
        /\ r.st = "starting" => r.loaded = -1
        /\ r.st = "serving" => /\ t.op = "none" /\ r.loaded # -1
                               /\ Settled(root) /\ root.target.gen = r.loaded

ProcessesInv ==
    /\ lease \in Runtimes \cup {NoOwner}
    /\ runtime \in [Runtimes -> Process]
    /\ \A p \in Runtimes : ProcessInv(p)

Inv == HistoryInv /\ FilesInv /\ ProcessesInv

-----------------------------------------------------------------------------
(***************************************************************************)
(* Directories and roots                                                   *)
(***************************************************************************)
LEMMA NoDirFacts ==
    /\ NoDir \in Directory /\ NoDir.gen = 0 /\ NoDir.whole = FALSE /\ NoDir.synced = TRUE
BY DEF NoDir, Directory

\* What damage to a directory leaves of it.
LEMMA DamagedFacts ==
    ASSUME NEW d \in Directory
    PROVE  /\ Damaged(d) \in Directory /\ Damaged(d).gen = d.gen /\ Damaged(d).whole = FALSE
           /\ Damaged(d).synced = d.synced
BY DEF Damaged, Directory

\* The backup is one of the directories of the root.
LEMMA BackupFacts ==
    ASSUME NEW r
    PROVE  /\ r.previous # NoDir => Backup(r) = r.previous
           /\ r.previous = NoDir /\ r.target # NoDir => Backup(r) = NoDir
           /\ Backup(r) # NoDir => Backup(r) = r.previous \/ (Backup(r) \in r.bak /\ r.target = NoDir)
<1>1. Cardinality(r.bak) = 1 => r.bak # {}
  BY FS_EmptySet
<1>2. r.bak # {} => (CHOOSE d \in r.bak : TRUE) \in r.bak
  OBVIOUS
<1> QED
  BY <1>1, <1>2 DEF Backup, Exists

\* Neither the backup nor the selection looks at the staging directory.
LEMMA SelectedDepends ==
    ASSUME NEW r, NEW s, r.target = s.target, r.previous = s.previous, r.bak = s.bak
    PROVE  Backup(r) = Backup(s) /\ Selected(r) = Selected(s)
BY DEF Backup, Selected, Exists

\* Which directory recovery selects.
LEMMA SelectedFacts ==
    ASSUME NEW r
    PROVE  /\ r.target.whole => Selected(r) = r.target
           /\ Backup(r) = NoDir => Selected(r) = r.target
           /\ Backup(r) # NoDir /\ ~r.target.whole => Selected(r) = Backup(r)
BY DEF Selected, Exists

\* The fields of a root some of which were replaced.
LEMMA RootTypes ==
    ASSUME NEW r \in RootDirectory
    PROVE  /\ r.target \in Directory /\ r.previous \in Directory /\ r.tmp \in Directory
           /\ r.bak \subseteq Directory
BY DEF RootDirectory

\* What a power failure leaves in place of a directory.
LEMMA SurvivorFacts ==
    ASSUME NEW r, RootOK(r), Safe(r), NEW s \in Survivors(r)
    PROVE  RootOK(s) /\ Safe(s) /\ Selected(s) = Selected(r)
<1>1. PICK t \in OnDisk(r.target), v \in OnDisk(r.previous), m \in OnDisk(r.tmp) :
         s = Survivor(r, t, v, m)
  BY DEF Survivors
<1>2. t = r.target /\ v = r.previous
  BY DEF RootOK, OnDisk
<1>3. r \in RootDirectory /\ r.tmp \in Directory /\ DirOK(r.tmp)
  BY RootTypes DEF RootOK
<1>4. m \in Directory /\ m.gen = r.tmp.gen /\ DirOK(m)
  <2>1. m = r.tmp \/ m = Damaged(r.tmp)
    BY DEF OnDisk
  <2>2. r.tmp = NoDir => m = r.tmp
    BY NoDirFacts DEF OnDisk
  <2> QED
    BY <1>3, <2>1, <2>2, DamagedFacts DEF DirOK
<1>5. /\ s \in RootDirectory /\ s.target = r.target /\ s.previous = r.previous /\ s.bak = r.bak
      /\ s.tmp = m
  BY <1>1, <1>2, <1>3, <1>4 DEF RootDirectory, Survivor
<1>6. Selected(s) = Selected(r)
  BY <1>5, SelectedDepends
<1> QED
  BY <1>4, <1>5, <1>6 DEF RootOK, Safe

-----------------------------------------------------------------------------
(***************************************************************************)
(* Writes, syncs and moves                                                 *)
(***************************************************************************)
LEMMA WriteKeeps ==
    ASSUME FilesInv, UNCHANGED <<acknowledged, prepared>>, NEW r, Write(r), RootOK(r), Safe(r)
    PROVE  FilesInv'
<1>1. \A s : RootOK(s)' <=> RootOK(s)
  BY DEF RootOK, DirOK
<1>2. \A s : Safe(s)' <=> Safe(s)
  BY DEF Safe
<1>3. root' = r /\ journal' = journal \cup {r}
  BY DEF Write
<1> QED
  BY <1>1, <1>2, <1>3 DEF FilesInv

\* A sync keeps what the files promise.
LEMMA SyncKeeps ==
    ASSUME FilesInv, UNCHANGED <<acknowledged, prepared>>, SyncRoot \/ SameRoot
    PROVE  FilesInv' /\ root' = root
<1>1. \A s : RootOK(s)' <=> RootOK(s)
  BY DEF RootOK, DirOK
<1>2. \A s : Safe(s)' <=> Safe(s)
  BY DEF Safe
<1>3. root' = root /\ journal' \subseteq journal /\ root' \in journal'
  BY DEF SyncRoot, SameRoot, FilesInv
<1> QED
  BY <1>1, <1>2, <1>3 DEF FilesInv

\* Only the process that holds the lease has a stake in the files.
LEMMA OthersIdle ==
    ASSUME ProcessesInv, NEW p \in Runtimes, lease = p
    PROVE  \A q \in Runtimes : q # p =>
              /\ runtime[q].task.op = "none" /\ runtime[q].task.pc = "none"
              /\ runtime[q].loaded = -1 /\ runtime[q].st # "serving"
BY DEF ProcessesInv, ProcessInv

\* A process that holds no lease keeps its part of the invariant, whatever
\* happens to the files.
LEMMA IdleKeeps ==
    ASSUME NEW q \in Runtimes, ProcessesInv, ProcessInv(q), HistoryInv', prepared \in Nat,
           runtime'[q] = runtime[q], runtime[q].task.op = "none", runtime[q].loaded = -1,
           runtime[q].st # "serving"
    PROVE  ProcessInv(q)'
<1>1. runtime[q].loaded <= prepared'
  BY DEF HistoryInv
<1> QED
  BY <1>1 DEF ProcessInv

\* What happens to the process that moves.
LEMMA MoveFacts ==
    ASSUME ProcessesInv, NEW p \in Runtimes, NEW pc \in LoadPcs \cup SavePcs,
           runtime' = [runtime EXCEPT ![p].task.pc = pc]
    PROVE  /\ runtime' \in [Runtimes -> Process]
           /\ \A q \in Runtimes : q # p => runtime'[q] = runtime[q]
           /\ runtime'[p].st = runtime[p].st /\ runtime'[p].loaded = runtime[p].loaded
           /\ runtime'[p].task.op = runtime[p].task.op /\ runtime'[p].task.had = runtime[p].task.had
           /\ runtime'[p].task.pc = pc
<1>1. runtime \in [Runtimes -> Process] /\ runtime[p] \in Process /\ runtime[p].task \in Task
  BY DEF ProcessesInv, Process
<1>2. /\ runtime'[p] = [runtime[p] EXCEPT !.task.pc = pc]
      /\ \A q \in Runtimes : q # p => runtime'[q] = runtime[q]
  BY <1>1
<1> DEFINE t == [runtime[p].task EXCEPT !.pc = pc]
<1>3. t \in Task /\ t.op = runtime[p].task.op /\ t.had = runtime[p].task.had /\ t.pc = pc
  BY <1>1 DEF Task
<1> HIDE DEF t
<1>4. runtime'[p] = [runtime[p] EXCEPT !.task = t]
  BY <1>2 DEF t
<1>5. /\ runtime'[p] \in Process /\ runtime'[p].task = t
      /\ runtime'[p].st = runtime[p].st /\ runtime'[p].loaded = runtime[p].loaded
  BY <1>1, <1>3, <1>4 DEF Process
<1>6. runtime' \in [Runtimes -> Process]
  BY <1>1, <1>2, <1>5
<1> QED
  BY <1>2, <1>3, <1>5, <1>6

\* A process that only moves on keeps its record otherwise.
LEMMA GotoFacts ==
    ASSUME ProcessesInv, NEW p \in Runtimes, NEW pc \in LoadPcs \cup SavePcs, Goto(p, pc)
    PROVE  /\ runtime' \in [Runtimes -> Process]
           /\ \A q \in Runtimes : q # p => runtime'[q] = runtime[q]
           /\ runtime'[p].st = runtime[p].st /\ runtime'[p].loaded = runtime[p].loaded
           /\ runtime'[p].task.op = runtime[p].task.op /\ runtime'[p].task.had = runtime[p].task.had
           /\ runtime'[p].task.pc = pc
           /\ UNCHANGED <<lease, acknowledged, prepared>>
BY MoveFacts DEF Goto

\* A step of a transaction: the other processes have no part in it.
LEMMA TaskMoves ==
    ASSUME Inv, NEW p \in Runtimes, runtime[p].task.op # "none",
           runtime' \in [Runtimes -> Process],
           \A q \in Runtimes : q # p => runtime'[q] = runtime[q],
           UNCHANGED lease, HistoryInv', FilesInv', ProcessInv(p)'
    PROVE  Inv'
<1>1. lease = p
  BY DEF Inv, ProcessesInv, ProcessInv
<1>2. ASSUME NEW q \in Runtimes, q # p
      PROVE  ProcessInv(q)'
  <2>1. /\ runtime[q].task.op = "none" /\ runtime[q].loaded = -1 /\ runtime[q].st # "serving"
        /\ ProcessInv(q) /\ prepared \in Nat
    BY <1>1, <1>2, OthersIdle DEF Inv, ProcessesInv, HistoryInv
  <2> QED
    BY <1>2, <2>1, IdleKeeps DEF Inv
<1>3. ProcessesInv'
  BY <1>2 DEF Inv, ProcessesInv
<1> QED
  BY <1>3 DEF Inv

\* A load moves on and keeps the invariant, when its new place holds.
LEMMA LoadMoves ==
    ASSUME Inv, NEW p \in Runtimes, runtime[p].task.op = "load", NEW pc \in LoadPcs, Goto(p, pc),
           FilesInv', LoadInv(pc)'
    PROVE  Inv'
<1>1. /\ runtime' \in [Runtimes -> Process]
      /\ \A q \in Runtimes : q # p => runtime'[q] = runtime[q]
      /\ runtime'[p].st = runtime[p].st /\ runtime'[p].loaded = runtime[p].loaded
      /\ runtime'[p].task.op = runtime[p].task.op /\ runtime'[p].task.pc = pc
      /\ UNCHANGED <<lease, acknowledged, prepared>>
  BY GotoFacts DEF Inv
<1>2. HistoryInv'
  BY <1>1 DEF Inv, HistoryInv
<1>3. /\ lease = p /\ runtime[p].loaded = -1 /\ runtime[p].st \in {"starting", "stopping"}
      /\ runtime[p].loaded <= prepared
  BY DEF Inv, ProcessesInv, ProcessInv
<1>4. ProcessInv(p)'
  BY <1>1, <1>3 DEF ProcessInv
<1> QED
  BY <1>1, <1>2, <1>4, TaskMoves

\* A save moves on and keeps the invariant, when its new place holds.
LEMMA SaveMoves ==
    ASSUME Inv, NEW p \in Runtimes, runtime[p].task.op = "save", NEW pc \in SavePcs, Goto(p, pc),
           NEW had, NEW loaded, had = runtime[p].task.had, loaded = runtime[p].loaded,
           FilesInv', SaveInv(pc, had, loaded)'
    PROVE  Inv'
<1>1. /\ runtime' \in [Runtimes -> Process]
      /\ \A q \in Runtimes : q # p => runtime'[q] = runtime[q]
      /\ runtime'[p].st = runtime[p].st /\ runtime'[p].loaded = runtime[p].loaded
      /\ runtime'[p].task.op = runtime[p].task.op /\ runtime'[p].task.had = runtime[p].task.had
      /\ runtime'[p].task.pc = pc
      /\ UNCHANGED <<lease, acknowledged, prepared>>
  BY GotoFacts DEF Inv
<1>2. HistoryInv'
  BY <1>1 DEF Inv, HistoryInv
<1>3. /\ lease = p /\ runtime[p].loaded # -1 /\ runtime[p].st \in {"saving", "stopping"}
      /\ runtime[p].loaded <= prepared
  BY DEF Inv, ProcessesInv, ProcessInv
<1>4. ProcessInv(p)'
  <2>1. SaveInv(runtime[p].task.pc, runtime[p].task.had, runtime[p].loaded)'
    BY <1>1
  <2> QED
    BY <1>1, <1>3, <2>1 DEF ProcessInv
<1> QED
  BY <1>1, <1>2, <1>4, TaskMoves

\* What is known of the transaction of p.
LEMMA TaskFacts ==
    ASSUME Inv, NEW p \in Runtimes, runtime[p].task.pc # "none"
    PROVE  /\ runtime[p].task.op \in {"load", "save"} /\ lease = p
           /\ runtime[p].task.op = "load" => runtime[p].task.pc \in LoadPcs /\ LoadInv(runtime[p].task.pc)
           /\ runtime[p].task.op = "save" =>
                 /\ runtime[p].task.pc \in SavePcs
                 /\ SaveInv(runtime[p].task.pc, runtime[p].task.had, runtime[p].loaded)
           /\ runtime[p].loaded \in Nat \cup {-1} /\ runtime[p].task.had \in BOOLEAN
<1>1. runtime[p] \in Process /\ runtime[p].task \in Task
  BY DEF Inv, ProcessesInv, Process
<1> QED
  BY <1>1 DEF Inv, ProcessesInv, ProcessInv, Process, Task

-----------------------------------------------------------------------------
(***************************************************************************)
(* The steps of a transaction                                              *)
(***************************************************************************)
LEMMA RootNow ==
    ASSUME Inv
    PROVE  /\ RootOK(root) /\ Safe(root) /\ root \in RootDirectory
           /\ root.target \in Directory /\ root.previous \in Directory /\ root.tmp \in Directory
           /\ root.bak \subseteq Directory
BY RootTypes DEF Inv, FilesInv, RootOK

\* Clean keeps the invariant.
LEMMA CleanInv ==
    ASSUME Inv, NEW p \in Runtimes, cleanup_stale_staging(p)
    PROVE  Inv'
<1>1. runtime[p].task.pc = "clean" /\ Goto(p, "recover")
  BY DEF cleanup_stale_staging, AtPc
<1>2. runtime[p].task.op = "load"
  BY <1>1, TaskFacts DEF SavePcs
<1> DEFINE r == [root EXCEPT !.tmp = NoDir]
<1>3. /\ r \in RootDirectory /\ r.target = root.target /\ r.previous = root.previous
      /\ r.bak = root.bak /\ r.tmp = NoDir
  BY RootNow, NoDirFacts DEF RootDirectory
<1>4. Write(r) \/ SameRoot
  BY DEF cleanup_stale_staging
<1> HIDE DEF r
<1>5. RootOK(r)
  <2>1. DirOK(NoDir)
    BY NoDirFacts DEF DirOK, Inv, HistoryInv
  <2> QED
    BY <1>3, <2>1, RootNow DEF RootOK
<1>6. Safe(r)
  BY <1>3, RootNow, SelectedDepends DEF Safe
<1>7. UNCHANGED <<acknowledged, prepared>> /\ FilesInv
  BY <1>1 DEF Goto, Inv
<1>8. FilesInv'
  BY <1>4, <1>5, <1>6, <1>7, WriteKeeps, SyncKeeps
<1>9. LoadInv("recover")'
  BY DEF LoadInv
<1> QED
  BY <1>1, <1>2, <1>8, <1>9, LoadMoves DEF LoadPcs

\* Recover keeps the invariant.
LEMMA RecoverInv ==
    ASSUME Inv, NEW p \in Runtimes, recover_snapshot(p)
    PROVE  Inv'
<1> DEFINE next == IF Ambiguous(root) THEN "failed"
                   ELSE IF ~Exists(Backup(root)) \/ root.target.whole THEN Recovered(p)
                   ELSE IF ~Backup(root).whole THEN "failed"
                   ELSE IF Exists(root.target) THEN "aside" ELSE "restore"
<1>1. runtime[p].task.pc = "recover" /\ SameRoot
  BY DEF recover_snapshot, AtPc
<1>2. PICK pc : pc = next /\ Goto(p, pc)
  BY DEF recover_snapshot
<1>3. UNCHANGED <<root, journal, acknowledged, prepared>> /\ FilesInv'
  <2>1. UNCHANGED <<acknowledged, prepared>>
    BY <1>2 DEF Goto
  <2> QED
    BY <1>1, <2>1, SyncKeeps DEF Inv, SameRoot
<1>4. CASE runtime[p].task.op = "load"
  <2>1. pc \in {"failed", "import", "aside", "restore"}
    BY <1>2, <1>4 DEF Recovered, Loading
  <2>2. pc = "import" => root.target.whole \/ Backup(root) = NoDir
    BY <1>2 DEF Exists
  <2>3. pc = "aside" => root.previous # NoDir /\ root.previous.whole /\ ~root.target.whole
    <3>1. pc = "aside" => Backup(root) # NoDir /\ Backup(root).whole /\ ~root.target.whole
                          /\ root.target # NoDir
      BY <1>2, <1>4 DEF Exists, Recovered, Loading
    <3> QED
      BY <3>1, BackupFacts
  <2>4. pc = "restore" => root.target = NoDir /\ Backup(root) # NoDir /\ Backup(root).whole
    BY <1>2, <1>4 DEF Exists, Recovered, Loading
  <2>5. LoadInv(pc)'
    <3>1. Backup(root)' = Backup(root)
      BY <1>3
    <3> QED
      BY <1>3, <2>1, <2>2, <2>3, <2>4, <3>1 DEF LoadInv
  <2> QED
    BY <1>2, <1>3, <1>4, <2>1, <2>5, LoadMoves DEF LoadPcs
<1>5. CASE runtime[p].task.op = "save"
  <2>1. PICK had, loaded : had = runtime[p].task.had /\ loaded = runtime[p].loaded
    OBVIOUS
  <2>2. Settled(root) /\ root.target.gen = loaded /\ Staged
    BY <1>1, <1>5, <2>1, TaskFacts DEF SaveInv
  <2>3. pc \in {"failed", "validate"}
    BY <1>2, <1>5, <2>2 DEF Settled, Exists, Recovered, Loading
  <2>4. SaveInv(pc, had, loaded)'
    BY <1>3, <2>2, <2>3 DEF SaveInv, Settled, Staged
  <2> QED
    BY <1>2, <1>3, <1>5, <2>1, <2>3, <2>4, SaveMoves DEF SavePcs
<1> QED
  BY <1>1, <1>4, <1>5, TaskFacts

\* SetAside keeps the invariant.
LEMMA SetAsideInv ==
    ASSUME Inv, NEW p \in Runtimes, SetAside(p)
    PROVE  Inv'
<1>1. runtime[p].task.pc = "aside" /\ Goto(p, "restore")
  BY DEF SetAside, AtPc
<1>2. /\ runtime[p].task.op = "load"
      /\ root.previous # NoDir /\ root.previous.whole /\ ~root.target.whole
  BY <1>1, TaskFacts DEF SavePcs, LoadInv
<1>3. PICK r : r = [root EXCEPT !.target = NoDir] /\ Write(r)
  BY DEF SetAside
<1>4. /\ r \in RootDirectory /\ r.target = NoDir /\ r.previous = root.previous
      /\ r.bak = root.bak /\ r.tmp = root.tmp
  BY <1>3, RootNow, NoDirFacts DEF RootDirectory
<1>5. RootOK(r)
  <2>1. DirOK(NoDir) /\ NoDir.synced
    BY NoDirFacts DEF DirOK, Inv, HistoryInv
  <2> QED
    BY <1>4, <2>1, RootNow DEF RootOK
<1>6. Backup(r) = root.previous /\ Selected(r) = root.previous /\ Selected(root) = root.previous
  BY <1>2, <1>4, NoDirFacts, BackupFacts, SelectedFacts
<1>7. Safe(r)
  BY <1>6, RootNow DEF Safe
<1>8. UNCHANGED <<acknowledged, prepared>> /\ FilesInv /\ root' = r
  BY <1>1, <1>3 DEF Goto, Inv, Write
<1>9. FilesInv'
  BY <1>3, <1>5, <1>7, <1>8, WriteKeeps
<1>10. LoadInv("restore")'
  <2>1. Backup(root)' = Backup(r)
    BY <1>8
  <2> QED
    BY <1>2, <1>4, <1>6, <1>8, <2>1 DEF LoadInv
<1> QED
  BY <1>1, <1>2, <1>9, <1>10, LoadMoves DEF LoadPcs

\* Restore keeps the invariant.
LEMMA RestoreInv ==
    ASSUME Inv, NEW p \in Runtimes, Restore(p)
    PROVE  Inv'
<1>1. runtime[p].task.pc = "restore" /\ Goto(p, "restored")
  BY DEF Restore, AtPc
<1>2. /\ runtime[p].task.op = "load"
      /\ root.target = NoDir /\ Backup(root) # NoDir /\ Backup(root).whole
  BY <1>1, TaskFacts DEF SavePcs, LoadInv
<1>3. DirOK(Backup(root)) /\ Backup(root).synced /\ Backup(root) \in Directory
  BY <1>2, BackupFacts, RootNow DEF RootOK, DirOK
<1>4. PICK b, k : /\ b = Backup(root) /\ k = root.bak \ {Backup(root)}
                  /\ Write([root EXCEPT !.target = b, !.previous = NoDir, !.bak = k])
  BY DEF Restore
<1>5. PICK r : r = [root EXCEPT !.target = b, !.previous = NoDir, !.bak = k] /\ Write(r)
  BY <1>4
<1>6. k \subseteq Directory /\ b \in Directory
  BY <1>3, <1>4, RootNow
<1>7. /\ r \in RootDirectory /\ r.target = b /\ r.previous = NoDir
      /\ r.bak = k /\ r.tmp = root.tmp
  BY <1>5, <1>6, RootNow, NoDirFacts DEF RootDirectory
<1>8. RootOK(r)
  <2>1. DirOK(NoDir) /\ NoDir.synced
    BY NoDirFacts DEF DirOK, Inv, HistoryInv
  <2> QED
    BY <1>3, <1>4, <1>7, <2>1, RootNow DEF RootOK
<1>9. Selected(r) = Selected(root)
  BY <1>2, <1>4, <1>7, NoDirFacts, SelectedFacts
<1>10. Safe(r)
  BY <1>9, RootNow DEF Safe
<1>11. UNCHANGED <<acknowledged, prepared>> /\ FilesInv /\ root' = r
  BY <1>1, <1>5 DEF Goto, Inv, Write
<1>12. FilesInv'
  BY <1>5, <1>8, <1>10, <1>11, WriteKeeps
<1>13. LoadInv("restored")'
  BY <1>2, <1>4, <1>7, <1>11 DEF LoadInv
<1> QED
  BY <1>1, <1>2, <1>12, <1>13, LoadMoves DEF LoadPcs

\* SyncRestored keeps the invariant.
LEMMA SyncRestoredInv ==
    ASSUME Inv, NEW p \in Runtimes, SyncRestored(p)
    PROVE  Inv'
<1>1. runtime[p].task.pc = "restored" /\ SyncRoot
  BY DEF SyncRestored, AtPc
<1>2. runtime[p].task.op = "load" /\ root.target.whole
  BY <1>1, TaskFacts DEF SavePcs, LoadInv
<1>3. Goto(p, "import")
  BY <1>2 DEF SyncRestored, Recovered, Loading
<1>4. FilesInv' /\ root' = root
  BY <1>1, <1>3, SyncKeeps DEF Goto, Inv
<1>5. LoadInv("import")'
  BY <1>2, <1>4 DEF LoadInv
<1> QED
  BY <1>2, <1>3, <1>4, <1>5, LoadMoves DEF LoadPcs

\* Import keeps the invariant.
LEMMA ImportInv ==
    ASSUME Inv, NEW p \in Runtimes, Import(p)
    PROVE  Inv'
<1>1. runtime[p].task.pc = "import" /\ SameRoot
  BY DEF Import, AtPc
<1>2. runtime[p].task.op = "load" /\ (root.target.whole \/ Backup(root) = NoDir)
  BY <1>1, TaskFacts DEF SavePcs, LoadInv
<1>3. PICK pc \in {"loaded", "retire", "failed"} :
         /\ Goto(p, pc)
         /\ pc = "loaded" => root.target = NoDir
         /\ pc = "retire" => root.target.whole
  BY DEF Import, Fails, Exists
<1>4. FilesInv' /\ root' = root
  BY <1>1, <1>3, SyncKeeps DEF Goto, Inv
<1>5. LoadInv(pc)'
  <2>1. Backup(root)' = Backup(root)
    BY <1>4
  <2>2. ~NoDir.whole
    BY NoDirFacts
  <2> QED
    BY <1>2, <1>3, <1>4, <2>1, <2>2 DEF LoadInv, Settled
<1> QED
  BY <1>2, <1>3, <1>4, <1>5, LoadMoves DEF LoadPcs

\* Nothing is lost with the previous generation while the target is whole.
LEMMA PreviousGoes ==
    ASSUME Inv, root.target.whole, NEW v, Write([root EXCEPT !.previous = v]),
           UNCHANGED <<acknowledged, prepared>>, v = NoDir \/ v = Damaged(root.previous)
    PROVE  /\ FilesInv' /\ root'.target = root.target /\ root'.tmp = root.tmp /\ root'.previous = v
<1>1. DirOK(v) /\ v.synced /\ v \in Directory
  <2>1. DirOK(NoDir) /\ NoDir.synced /\ NoDir \in Directory
    BY NoDirFacts DEF DirOK, Inv, HistoryInv
  <2>2. DirOK(root.previous) /\ root.previous.synced /\ root.previous \in Directory
    BY RootNow DEF RootOK
  <2>3. /\ Damaged(root.previous) \in Directory /\ Damaged(root.previous).gen = root.previous.gen
        /\ Damaged(root.previous).synced /\ Damaged(root.previous).whole = FALSE
    BY <2>2, DamagedFacts
  <2>4. DirOK(Damaged(root.previous))
    <3>1. CASE root.previous # NoDir
      BY <2>2, <2>3, <3>1 DEF DirOK
    <3>2. CASE root.previous = NoDir
      <4>1. Damaged(NoDir) = NoDir
        <5>1. Damaged(NoDir) \in Directory /\ Damaged(NoDir).gen = 0 /\ Damaged(NoDir).whole = FALSE
              /\ Damaged(NoDir).synced = TRUE
          BY NoDirFacts, DamagedFacts
        <5> QED
          BY <5>1 DEF Directory, NoDir
      <4> QED
        BY <2>1, <3>2, <4>1
    <3> QED
      BY <3>1, <3>2
  <2> QED
    BY <2>1, <2>3, <2>4
<1>2. PICK r : r = [root EXCEPT !.previous = v] /\ Write(r)
  OBVIOUS
<1>3. /\ r \in RootDirectory /\ r.target = root.target /\ r.previous = v
      /\ r.bak = root.bak /\ r.tmp = root.tmp
  BY <1>1, <1>2, RootNow DEF RootDirectory
<1>4. RootOK(r)
  BY <1>1, <1>3, RootNow DEF RootOK
<1>5. Safe(r)
  BY <1>3, RootNow, SelectedFacts DEF Safe
<1>6. root' = r /\ FilesInv
  BY <1>2 DEF Write, Inv
<1> QED
  BY <1>2, <1>3, <1>4, <1>5, <1>6, WriteKeeps

\* Retire keeps the invariant.
LEMMA RetireInv ==
    ASSUME Inv, NEW p \in Runtimes, retire_previous(p)
    PROVE  Inv'
<1>1. runtime[p].task.pc = "retire"
  BY DEF retire_previous, AtPc
<1>2. PICK had, loaded : had = runtime[p].task.had /\ loaded = runtime[p].loaded
  OBVIOUS
<1>3. /\ runtime[p].task.op \in {"load", "save"}
      /\ runtime[p].task.op = "load" => root.target.whole
      /\ runtime[p].task.op = "save" => Settled(root) /\ root.target.gen = loaded /\ StagedSynced
  BY <1>1, <1>2, TaskFacts DEF LoadInv, SaveInv
<1>4. CASE /\ root.previous # NoDir /\ Goto(p, "remove")
           /\ Write([root EXCEPT !.previous = Damaged(root.previous)])
  <2>1. root.target.whole
    BY <1>3, <1>4, BackupFacts DEF Settled
  <2>2. UNCHANGED <<acknowledged, prepared>>
    BY <1>4 DEF Goto
  <2>3. FilesInv' /\ root'.target = root.target /\ root'.tmp = root.tmp
    BY <1>4, <2>1, <2>2, PreviousGoes
  <2>4. LoadInv("remove")'
    BY <2>1, <2>3 DEF LoadInv
  <2>5. runtime[p].task.op = "save" => SaveInv("remove", had, loaded)'
    BY <1>3, <2>1, <2>2, <2>3 DEF SaveInv, Settled, StagedSynced, StagedWhole, Staged
  <2> QED
    BY <1>2, <1>3, <1>4, <2>3, <2>4, <2>5, LoadMoves, SaveMoves DEF LoadPcs, SavePcs
<1>5. CASE root.previous = NoDir /\ SameRoot /\ Goto(p, Retired(p))
  <2>1. UNCHANGED <<acknowledged, prepared>>
    BY <1>5 DEF Goto
  <2>2. FilesInv' /\ root' = root
    BY <1>5, <2>1, SyncKeeps DEF Inv
  <2>3. Backup(root)' = Backup(root)
    BY <2>2
  <2>4. CASE runtime[p].task.op = "load"
    <3>1. Goto(p, "loaded")
      BY <1>5, <2>4 DEF Retired, Loading
    <3>2. LoadInv("loaded")'
      BY <1>3, <2>2, <2>4 DEF LoadInv, Settled
    <3> QED
      BY <2>2, <2>4, <3>1, <3>2, LoadMoves DEF LoadPcs
  <2>5. CASE runtime[p].task.op = "save"
    <3>1. Goto(p, "preserve")
      BY <1>5, <2>5 DEF Retired, Loading
    <3>2. SaveInv("preserve", had, loaded)'
      BY <1>3, <1>5, <2>1, <2>2, <2>3, <2>5 DEF SaveInv, Settled, StagedSynced, StagedWhole, Staged
    <3> QED
      BY <1>2, <2>2, <2>5, <3>1, <3>2, SaveMoves DEF SavePcs
  <2> QED
    BY <1>3, <2>4, <2>5
<1>6. CASE Loading(p) /\ SameRoot /\ Fails(p)
  <2>1. Goto(p, "failed") /\ runtime[p].task.op = "load"
    BY <1>6 DEF Fails, Loading
  <2>2. FilesInv' /\ root' = root
    BY <1>6, <2>1, SyncKeeps DEF Inv, Goto
  <2>3. LoadInv("failed")'
    BY DEF LoadInv
  <2> QED
    BY <2>1, <2>2, <2>3, LoadMoves DEF LoadPcs
<1> QED
  BY <1>4, <1>5, <1>6 DEF retire_previous, Exists

\* RemovePrevious keeps the invariant.
LEMMA RemovePreviousInv ==
    ASSUME Inv, NEW p \in Runtimes, RemovePrevious(p)
    PROVE  Inv'
<1>1. /\ runtime[p].task.pc = "remove" /\ Goto(p, "removed")
      /\ Write([root EXCEPT !.previous = NoDir])
  BY DEF RemovePrevious, AtPc
<1>2. PICK had, loaded : had = runtime[p].task.had /\ loaded = runtime[p].loaded
  OBVIOUS
<1>3. /\ runtime[p].task.op \in {"load", "save"} /\ root.target.whole
      /\ runtime[p].task.op = "save" => root.target.gen = loaded /\ StagedSynced
  BY <1>1, <1>2, TaskFacts DEF LoadInv, SaveInv
<1>4. UNCHANGED <<acknowledged, prepared>>
  BY <1>1 DEF Goto
<1>5. FilesInv' /\ root'.target = root.target /\ root'.tmp = root.tmp /\ root'.previous = NoDir
  BY <1>1, <1>3, <1>4, PreviousGoes
<1>6. LoadInv("removed")'
  BY <1>3, <1>5 DEF LoadInv
<1>7. runtime[p].task.op = "save" => SaveInv("removed", had, loaded)'
  BY <1>3, <1>4, <1>5 DEF SaveInv, Settled, StagedSynced, StagedWhole, Staged
<1> QED
  BY <1>1, <1>2, <1>3, <1>5, <1>6, <1>7, LoadMoves, SaveMoves DEF LoadPcs, SavePcs

\* SyncRemoved keeps the invariant.
LEMMA SyncRemovedInv ==
    ASSUME Inv, NEW p \in Runtimes, SyncRemoved(p)
    PROVE  Inv'
<1>1. runtime[p].task.pc = "removed" /\ SyncRoot /\ Goto(p, Retired(p))
  BY DEF SyncRemoved, AtPc
<1>2. PICK had, loaded : had = runtime[p].task.had /\ loaded = runtime[p].loaded
  OBVIOUS
<1>3. /\ runtime[p].task.op \in {"load", "save"} /\ root.target.whole
      /\ runtime[p].task.op = "save" =>
            root.target.gen = loaded /\ StagedSynced /\ root.previous = NoDir
  BY <1>1, <1>2, TaskFacts DEF LoadInv, SaveInv
<1>4. UNCHANGED <<acknowledged, prepared>>
  BY <1>1 DEF Goto
<1>5. FilesInv' /\ root' = root
  BY <1>1, <1>4, SyncKeeps DEF Inv
<1>6. CASE runtime[p].task.op = "load"
  <2>1. Goto(p, "loaded")
    BY <1>1, <1>6 DEF Retired, Loading
  <2>2. LoadInv("loaded")'
    BY <1>3, <1>5 DEF LoadInv, Settled
  <2> QED
    BY <1>5, <1>6, <2>1, <2>2, LoadMoves DEF LoadPcs
<1>7. CASE runtime[p].task.op = "save"
  <2>1. Goto(p, "preserve")
    BY <1>1, <1>7 DEF Retired, Loading
  <2>2. SaveInv("preserve", had, loaded)'
    BY <1>3, <1>4, <1>5, <1>7 DEF SaveInv, Settled, StagedSynced, StagedWhole, Staged
  <2> QED
    BY <1>2, <1>5, <1>7, <2>1, <2>2, SaveMoves DEF SavePcs
<1> QED
  BY <1>3, <1>6, <1>7

\* Prepare keeps the invariant.
LEMMA PrepareInv ==
    ASSUME Inv, NEW p \in Runtimes, Prepare(p)
    PROVE  Inv'
<1>1. /\ runtime[p].task.pc = "prepare" /\ prepared < MaxGeneration /\ prepared' = prepared + 1
      /\ runtime' = [runtime EXCEPT ![p].task.pc = "manifest"] /\ UNCHANGED <<lease, acknowledged>>
  BY DEF Prepare, AtPc
<1>2. PICK had, loaded : had = runtime[p].task.had /\ loaded = runtime[p].loaded
  OBVIOUS
<1>3. runtime[p].task.op = "save" /\ Settled(root) /\ root.target.gen = loaded
  BY <1>1, <1>2, TaskFacts DEF SaveInv, LoadPcs
<1>4. HistoryInv' /\ prepared \in Nat
  BY <1>1, SnapshotAssumption DEF Inv, HistoryInv
<1>5. PICK d : d = [gen |-> prepared + 1, whole |-> FALSE, synced |-> FALSE] /\ Write([root EXCEPT !.tmp = d])
  BY DEF Prepare
<1>6. d \in Directory /\ d.gen = prepared' /\ d.gen >= 1
  BY <1>1, <1>4, <1>5 DEF Directory
<1>7. PICK r : r = [root EXCEPT !.tmp = d] /\ root' = r /\ journal' = journal \cup {r}
  BY <1>5 DEF Write
<1>8. /\ r \in RootDirectory /\ r.target = root.target /\ r.previous = root.previous
      /\ r.bak = root.bak /\ r.tmp = d
  BY <1>6, <1>7, RootNow DEF RootDirectory
<1>9. \A e : DirOK(e) => DirOK(e)'
  BY <1>1, <1>4 DEF DirOK, Directory
<1>10. \A s : RootOK(s) => RootOK(s)'
  BY <1>9 DEF RootOK
<1>11. \A s : Safe(s)' <=> Safe(s)
  BY <1>1 DEF Safe
<1>12. DirOK(d)'
  BY <1>1, <1>4, <1>6 DEF DirOK
<1>13. RootOK(r)'
  <2>1. /\ DirOK(root.target) /\ DirOK(root.previous)
        /\ root.target.synced /\ root.previous.synced
        /\ \A e \in root.bak : DirOK(e) /\ e.synced
    BY RootNow DEF RootOK
  <2> QED
    BY <1>8, <1>9, <1>12, <2>1 DEF RootOK
<1>14. Safe(r)
  BY <1>8, RootNow, SelectedDepends DEF Safe
<1>15. FilesInv'
  BY <1>7, <1>10, <1>11, <1>13, <1>14 DEF Inv, FilesInv
<1>16. SaveInv("manifest", had, loaded)'
  <2>1. Backup(root)' = Backup(r) /\ Backup(r) = Backup(root)
    BY <1>7, <1>8, SelectedDepends
  <2>2. root'.target = root.target /\ root'.tmp.gen = prepared'
    BY <1>6, <1>7, <1>8
  <2> QED
    BY <1>3, <2>1, <2>2 DEF SaveInv, Settled, Staged
<1>17. /\ runtime' \in [Runtimes -> Process]
       /\ \A q \in Runtimes : q # p => runtime'[q] = runtime[q]
       /\ runtime'[p].st = runtime[p].st /\ runtime'[p].loaded = runtime[p].loaded
       /\ runtime'[p].task.op = runtime[p].task.op /\ runtime'[p].task.had = runtime[p].task.had
       /\ runtime'[p].task.pc = "manifest"
  BY <1>1, MoveFacts DEF Inv, SavePcs
<1>18. /\ lease = p /\ runtime[p].loaded # -1 /\ runtime[p].st \in {"saving", "stopping"}
       /\ runtime[p].loaded <= prepared /\ runtime[p].loaded \in Nat \cup {-1}
  BY <1>1, <1>3, TaskFacts DEF Inv, ProcessesInv, ProcessInv
<1>19. ProcessInv(p)'
  <2>1. SaveInv(runtime[p].task.pc, runtime[p].task.had, runtime[p].loaded)'
    BY <1>2, <1>16, <1>17
  <2>2. runtime'[p].loaded <= prepared'
    BY <1>1, <1>4, <1>17, <1>18
  <2> QED
    BY <1>1, <1>3, <1>17, <1>18, <2>1, <2>2 DEF ProcessInv, SavePcs
<1> QED
  BY <1>1, <1>3, <1>4, <1>15, <1>17, <1>19, TaskMoves

\* The staging directory is written to, and nothing else.
LEMMA TmpWritten ==
    ASSUME Inv, NEW d \in Directory, DirOK(d), Write([root EXCEPT !.tmp = d]),
           UNCHANGED <<acknowledged, prepared>>
    PROVE  /\ FilesInv' /\ root'.target = root.target /\ root'.previous = root.previous
           /\ root'.tmp = d /\ Backup(root)' = Backup(root)
<1>1. PICK r : r = [root EXCEPT !.tmp = d] /\ Write(r)
  OBVIOUS
<1>2. /\ r \in RootDirectory /\ r.target = root.target /\ r.previous = root.previous
      /\ r.bak = root.bak /\ r.tmp = d
  BY <1>1, RootNow DEF RootDirectory
<1>3. RootOK(r)
  BY <1>2, RootNow DEF RootOK
<1>4. Backup(r) = Backup(root) /\ Selected(r) = Selected(root)
  BY <1>2, SelectedDepends
<1>5. Safe(r)
  BY <1>4, RootNow DEF Safe
<1>6. root' = r /\ FilesInv
  BY <1>1 DEF Write, Inv
<1>7. Backup(root)' = Backup(r)
  BY <1>6
<1> QED
  BY <1>1, <1>2, <1>3, <1>4, <1>5, <1>6, <1>7, WriteKeeps

\* WriteManifest keeps the invariant.
LEMMA WriteManifestInv ==
    ASSUME Inv, NEW p \in Runtimes, WriteManifest(p)
    PROVE  Inv'
<1>1. runtime[p].task.pc = "manifest"
  BY DEF WriteManifest, AtPc
<1>2. PICK had, loaded : had = runtime[p].task.had /\ loaded = runtime[p].loaded
  OBVIOUS
<1>3. runtime[p].task.op = "save" /\ Settled(root) /\ root.target.gen = loaded /\ Staged
  BY <1>1, <1>2, TaskFacts DEF SaveInv, LoadPcs
<1>4. CASE Write([root EXCEPT !.tmp.whole = TRUE]) /\ Goto(p, "recover")
  <2>1. PICK d : d = [root.tmp EXCEPT !.whole = TRUE] /\ Write([root EXCEPT !.tmp = d])
    BY <1>4
  <2>2. d \in Directory /\ d.gen = root.tmp.gen
    BY <2>1, RootNow DEF Directory
  <2>3. DirOK(d)
    BY <1>3, <2>2 DEF DirOK, Staged, Inv, HistoryInv
  <2>4. UNCHANGED <<acknowledged, prepared>>
    BY <1>4 DEF Goto
  <2>5. FilesInv' /\ root'.target = root.target /\ root'.tmp = d /\ Backup(root)' = Backup(root)
    BY <2>1, <2>2, <2>3, <2>4, TmpWritten
  <2>6. SaveInv("recover", had, loaded)'
    BY <1>3, <2>2, <2>4, <2>5 DEF SaveInv, Settled, Staged
  <2> QED
    BY <1>2, <1>3, <1>4, <2>5, <2>6, SaveMoves DEF SavePcs
<1>5. CASE SameRoot /\ Fails(p)
  <2>1. Goto(p, "failed")
    BY <1>5 DEF Fails
  <2>2. FilesInv'
    BY <1>5, <2>1, SyncKeeps DEF Inv, Goto
  <2>3. SaveInv("failed", had, loaded)'
    BY DEF SaveInv
  <2> QED
    BY <1>2, <1>3, <2>1, <2>2, <2>3, SaveMoves DEF SavePcs
<1> QED
  BY <1>4, <1>5 DEF WriteManifest

\* Validate keeps the invariant.
LEMMA ValidateInv ==
    ASSUME Inv, NEW p \in Runtimes, validate_generation(p)
    PROVE  Inv'
<1>1. runtime[p].task.pc = "validate" /\ SameRoot
  BY DEF validate_generation, AtPc
<1>2. PICK had, loaded : had = runtime[p].task.had /\ loaded = runtime[p].loaded
  OBVIOUS
<1>3. runtime[p].task.op = "save" /\ Settled(root) /\ root.target.gen = loaded /\ Staged
  BY <1>1, <1>2, TaskFacts DEF SaveInv, LoadPcs
<1>4. PICK pc \in {"sync", "failed"} : Goto(p, pc) /\ (pc = "sync" => root.tmp.whole)
  BY DEF validate_generation, Fails
<1>5. UNCHANGED <<acknowledged, prepared>>
  BY <1>4 DEF Goto
<1>6. FilesInv' /\ root' = root
  BY <1>1, <1>5, SyncKeeps DEF Inv
<1>7. Backup(root)' = Backup(root)
  BY <1>6
<1>8. SaveInv(pc, had, loaded)'
  BY <1>3, <1>4, <1>5, <1>6, <1>7 DEF SaveInv, Settled, StagedWhole, Staged
<1> QED
  BY <1>2, <1>3, <1>4, <1>6, <1>8, SaveMoves DEF SavePcs

\* SyncTree keeps the invariant.
LEMMA SyncTreeInv ==
    ASSUME Inv, NEW p \in Runtimes, sync_tree(p)
    PROVE  Inv'
<1>1. runtime[p].task.pc = "sync" /\ Goto(p, "retire")
  BY DEF sync_tree, AtPc
<1>2. PICK had, loaded : had = runtime[p].task.had /\ loaded = runtime[p].loaded
  OBVIOUS
<1>3. runtime[p].task.op = "save" /\ Settled(root) /\ root.target.gen = loaded /\ StagedWhole
  BY <1>1, <1>2, TaskFacts DEF SaveInv, LoadPcs
<1>4. PICK d : d = [root.tmp EXCEPT !.synced = TRUE] /\ Write([root EXCEPT !.tmp = d])
  BY DEF sync_tree
<1>5. d \in Directory /\ d.gen = root.tmp.gen /\ d.whole = root.tmp.whole /\ d.synced
  BY <1>4, RootNow DEF Directory
<1>6. DirOK(d)
  BY <1>3, <1>5 DEF DirOK, StagedWhole, Staged, Inv, HistoryInv
<1>7. UNCHANGED <<acknowledged, prepared>>
  BY <1>1 DEF Goto
<1>8. FilesInv' /\ root'.target = root.target /\ root'.tmp = d /\ Backup(root)' = Backup(root)
  BY <1>4, <1>5, <1>6, <1>7, TmpWritten
<1>9. SaveInv("retire", had, loaded)'
  BY <1>3, <1>5, <1>7, <1>8 DEF SaveInv, Settled, StagedSynced, StagedWhole, Staged
<1> QED
  BY <1>1, <1>2, <1>3, <1>8, <1>9, SaveMoves DEF SavePcs

\* As SaveMoves, for the step that also learns whether there is a generation
\* to preserve.
LEMMA PreserveMoves ==
    ASSUME Inv, NEW p \in Runtimes, runtime[p].task.op = "save", runtime[p].task.pc = "preserve",
           NEW had \in BOOLEAN, NEW pc \in SavePcs, NEW loaded, loaded = runtime[p].loaded,
           runtime' = [runtime EXCEPT ![p].task.had = had, ![p].task.pc = pc],
           UNCHANGED <<lease, acknowledged, prepared>>,
           FilesInv', SaveInv(pc, had, loaded)'
    PROVE  Inv'
<1>1. runtime \in [Runtimes -> Process] /\ runtime[p] \in Process /\ runtime[p].task \in Task
  BY DEF Inv, ProcessesInv, Process
<1>2. /\ runtime'[p] = [runtime[p] EXCEPT !.task.had = had, !.task.pc = pc]
      /\ \A q \in Runtimes : q # p => runtime'[q] = runtime[q]
  BY <1>1
<1> DEFINE t == [runtime[p].task EXCEPT !.had = had, !.pc = pc]
<1>3. t \in Task /\ t.op = runtime[p].task.op /\ t.had = had /\ t.pc = pc
  BY <1>1 DEF Task
<1> HIDE DEF t
<1>4. runtime'[p] = [runtime[p] EXCEPT !.task = t]
  BY <1>2 DEF t
<1>5. /\ runtime'[p] \in Process /\ runtime'[p].task = t
      /\ runtime'[p].st = runtime[p].st /\ runtime'[p].loaded = runtime[p].loaded
  BY <1>1, <1>3, <1>4 DEF Process
<1>6. runtime' \in [Runtimes -> Process]
  BY <1>1, <1>2, <1>5
<1>7. HistoryInv'
  BY DEF Inv, HistoryInv
<1>8. /\ lease = p /\ runtime[p].loaded # -1 /\ runtime[p].st \in {"saving", "stopping"}
      /\ runtime[p].loaded <= prepared
  BY DEF Inv, ProcessesInv, ProcessInv
<1>9. ProcessInv(p)'
  <2>1. SaveInv(runtime[p].task.pc, runtime[p].task.had, runtime[p].loaded)'
    BY <1>3, <1>5
  <2>2. runtime'[p].task.op = "save" /\ runtime'[p].task.pc \in SavePcs
    BY <1>3, <1>5
  <2> QED
    BY <1>5, <1>8, <2>1, <2>2 DEF ProcessInv
<1> QED
  BY <1>2, <1>6, <1>7, <1>9, TaskMoves

\* Preserve keeps the invariant.
LEMMA PreserveInv ==
    ASSUME Inv, NEW p \in Runtimes, PreservePrevious(p)
    PROVE  Inv'
<1>1. runtime[p].task.pc = "preserve" /\ UNCHANGED <<lease, acknowledged, prepared>>
  BY DEF PreservePrevious, AtPc
<1>2. PICK loaded : loaded = runtime[p].loaded
  OBVIOUS
<1>3. /\ runtime[p].task.op = "save" /\ Settled(root) /\ root.target.gen = loaded /\ StagedSynced
      /\ root.previous = NoDir
  BY <1>1, <1>2, TaskFacts DEF SaveInv, LoadPcs
<1>4. PICK had, pc :
         /\ had = (root.target # NoDir) /\ pc = IF had THEN "preserved" ELSE "publish"
         /\ IF had THEN Write([root EXCEPT !.previous = root.target, !.target = NoDir]) ELSE SameRoot
         /\ runtime' = [runtime EXCEPT ![p].task.had = had, ![p].task.pc = pc]
  BY DEF PreservePrevious, Exists
<1>5. had \in BOOLEAN /\ pc \in SavePcs
  BY <1>4 DEF SavePcs
<1>6. runtime' = [runtime EXCEPT ![p].task.had = had, ![p].task.pc = pc]
  BY <1>4
<1>7. CASE had
  <2>1. PICK v : v = root.target /\ Write([root EXCEPT !.previous = v, !.target = NoDir])
    BY <1>4, <1>7
  <2>2. PICK r : r = [root EXCEPT !.previous = v, !.target = NoDir] /\ Write(r)
    BY <2>1
  <2>3. v \in Directory /\ DirOK(v) /\ v.synced /\ v # NoDir
    BY <1>4, <1>7, <2>1, RootNow DEF RootOK
  <2>4. /\ r \in RootDirectory /\ r.target = NoDir /\ r.previous = v
        /\ r.bak = root.bak /\ r.tmp = root.tmp
    BY <2>2, <2>3, RootNow, NoDirFacts DEF RootDirectory
  <2>5. RootOK(r)
    <3>1. DirOK(NoDir) /\ NoDir.synced
      BY NoDirFacts DEF DirOK, Inv, HistoryInv
    <3> QED
      BY <2>3, <2>4, <3>1, RootNow DEF RootOK
  <2>6. Selected(r) = v /\ Selected(root) = v
    BY <1>3, <2>1, <2>3, <2>4, NoDirFacts, BackupFacts, SelectedFacts
  <2>7. Safe(r)
    BY <2>6, RootNow DEF Safe
  <2>8. root' = r /\ FilesInv /\ UNCHANGED <<acknowledged, prepared>>
    BY <1>1, <2>2 DEF Write, Inv
  <2>9. FilesInv'
    BY <2>2, <2>5, <2>7, <2>8, WriteKeeps
  <2>10. SaveInv(pc, had, loaded)'
    BY <1>1, <1>3, <1>4, <1>7, <2>1, <2>3, <2>4, <2>8 DEF SaveInv, StagedSynced, StagedWhole, Staged
  <2> QED
    BY <1>1, <1>2, <1>3, <1>5, <1>6, <2>9, <2>10, PreserveMoves
<1>8. CASE ~had
  <2>1. root.target = NoDir /\ SameRoot /\ pc = "publish"
    BY <1>4, <1>8
  <2>2. FilesInv' /\ root' = root
    BY <1>1, <2>1, SyncKeeps DEF Inv
  <2>3. loaded = 0
    BY <1>3, <2>1, NoDirFacts
  <2>4. SaveInv(pc, had, loaded)'
    BY <1>1, <1>3, <1>8, <2>1, <2>2, <2>3 DEF SaveInv, StagedSynced, StagedWhole, Staged
  <2> QED
    BY <1>1, <1>2, <1>3, <1>5, <1>6, <2>2, <2>4, PreserveMoves
<1> QED
  BY <1>7, <1>8

\* SyncPreserved keeps the invariant.
LEMMA SyncPreservedInv ==
    ASSUME Inv, NEW p \in Runtimes, SyncPreserved(p)
    PROVE  Inv'
<1>1. runtime[p].task.pc = "preserved" /\ Goto(p, "publish") /\ SyncRoot
  BY DEF SyncPreserved, AtPc
<1>2. PICK had, loaded : had = runtime[p].task.had /\ loaded = runtime[p].loaded
  OBVIOUS
<1>3. /\ runtime[p].task.op = "save" /\ StagedSynced /\ root.target = NoDir /\ had
      /\ root.previous # NoDir /\ root.previous.gen = loaded
  BY <1>1, <1>2, TaskFacts DEF SaveInv, LoadPcs
<1>4. UNCHANGED <<acknowledged, prepared>>
  BY <1>1 DEF Goto
<1>5. FilesInv' /\ root' = root
  BY <1>1, <1>4, SyncKeeps DEF Inv
<1>6. SaveInv("publish", had, loaded)'
  BY <1>3, <1>4, <1>5 DEF SaveInv, StagedSynced, StagedWhole, Staged
<1> QED
  BY <1>1, <1>2, <1>3, <1>5, <1>6, SaveMoves DEF SavePcs

\* Publish keeps the invariant.
LEMMA PublishInv ==
    ASSUME Inv, NEW p \in Runtimes, Publish(p)
    PROVE  Inv'
<1>1. runtime[p].task.pc = "publish"
  BY DEF Publish, AtPc
<1>2. PICK had, loaded : had = runtime[p].task.had /\ loaded = runtime[p].loaded
  OBVIOUS
<1>3. /\ runtime[p].task.op = "save" /\ StagedSynced /\ root.target = NoDir
      /\ IF had THEN root.previous # NoDir /\ root.previous.gen = loaded
                ELSE root.previous = NoDir /\ loaded = 0
  BY <1>1, <1>2, TaskFacts DEF SaveInv, LoadPcs
<1>4. DirOK(NoDir) /\ NoDir.synced /\ NoDir \in Directory /\ ~NoDir.whole
  BY NoDirFacts DEF DirOK, Inv, HistoryInv
<1>5. CASE Write([root EXCEPT !.target = root.tmp, !.tmp = NoDir]) /\ Goto(p, "published")
  <2>1. PICK t : t = root.tmp /\ Write([root EXCEPT !.target = t, !.tmp = NoDir])
    BY <1>5
  <2>2. PICK r : r = [root EXCEPT !.target = t, !.tmp = NoDir] /\ Write(r)
    BY <2>1
  <2>3. t \in Directory /\ DirOK(t) /\ t.synced /\ t.whole /\ t.gen = prepared
    BY <1>3, <2>1, RootNow DEF RootOK, StagedSynced, StagedWhole, Staged
  <2>4. /\ r \in RootDirectory /\ r.target = t /\ r.previous = root.previous
        /\ r.bak = root.bak /\ r.tmp = NoDir
    BY <1>4, <2>2, <2>3, RootNow DEF RootDirectory
  <2>5. RootOK(r)
    BY <1>4, <2>3, <2>4, RootNow DEF RootOK
  <2>6. Safe(r)
    <3>1. acknowledged <= prepared /\ acknowledged \in Nat /\ prepared \in Nat
      BY DEF Inv, HistoryInv
    <3>2. Selected(r) = t
      BY <2>3, <2>4, SelectedFacts
    <3> QED
      BY <2>3, <3>1, <3>2 DEF Safe
  <2>7. root' = r /\ FilesInv /\ UNCHANGED <<acknowledged, prepared>>
    BY <1>5, <2>2 DEF Write, Inv, Goto
  <2>8. FilesInv'
    BY <2>2, <2>5, <2>6, <2>7, WriteKeeps
  <2>9. SaveInv("published", had, loaded)'
    BY <2>3, <2>4, <2>7 DEF SaveInv
  <2> QED
    BY <1>2, <1>3, <1>5, <2>8, <2>9, SaveMoves DEF SavePcs
<1>6. CASE /\ IF had THEN Write([root EXCEPT !.target = root.previous, !.previous = NoDir])
                     ELSE SameRoot
           /\ Goto(p, "unpublished")
  <2>1. UNCHANGED <<acknowledged, prepared>> /\ FilesInv
    BY <1>6 DEF Goto, Inv
  <2>2. FilesInv'
    <3>1. CASE had
      <4>1. PICK t : t = root.previous /\ Write([root EXCEPT !.target = t, !.previous = NoDir])
        BY <1>6, <3>1
      <4>2. PICK r : r = [root EXCEPT !.target = t, !.previous = NoDir] /\ Write(r)
        BY <4>1
      <4>3. t \in Directory /\ DirOK(t) /\ t.synced /\ t # NoDir
        BY <1>3, <3>1, <4>1, RootNow DEF RootOK
      <4>4. /\ r \in RootDirectory /\ r.target = t /\ r.previous = NoDir
            /\ r.bak = root.bak /\ r.tmp = root.tmp
        BY <1>4, <4>2, <4>3, RootNow DEF RootDirectory
      <4>5. RootOK(r)
        BY <1>4, <4>3, <4>4, RootNow DEF RootOK
      <4>6. Selected(r) = t /\ Selected(root) = t
        BY <1>3, <1>4, <4>1, <4>3, <4>4, BackupFacts, SelectedFacts
      <4>7. Safe(r)
        BY <4>6, RootNow DEF Safe
      <4> QED
        BY <2>1, <4>2, <4>5, <4>7, WriteKeeps
    <3>2. CASE ~had
      BY <1>6, <2>1, <3>2, SyncKeeps
    <3> QED
      BY <3>1, <3>2
  <2>3. SaveInv("unpublished", had, loaded)'
    BY DEF SaveInv
  <2> QED
    BY <1>2, <1>3, <1>6, <2>2, <2>3, SaveMoves DEF SavePcs
<1> QED
  BY <1>2, <1>5, <1>6 DEF Publish

\* SyncUnpublished keeps the invariant.
LEMMA SyncUnpublishedInv ==
    ASSUME Inv, NEW p \in Runtimes, SyncUnpublished(p)
    PROVE  Inv'
<1>1. runtime[p].task.pc = "unpublished" /\ Goto(p, "failed") /\ (SyncRoot \/ SameRoot)
  BY DEF SyncUnpublished, AtPc, Fails
<1>2. PICK had, loaded : had = runtime[p].task.had /\ loaded = runtime[p].loaded
  OBVIOUS
<1>3. runtime[p].task.op = "save"
  BY <1>1, TaskFacts DEF LoadPcs
<1>4. FilesInv'
  BY <1>1, SyncKeeps DEF Inv, Goto
<1>5. SaveInv("failed", had, loaded)'
  BY DEF SaveInv
<1> QED
  BY <1>1, <1>2, <1>3, <1>4, <1>5, SaveMoves DEF SavePcs

\* SyncPublished keeps the invariant.
LEMMA SyncPublishedInv ==
    ASSUME Inv, NEW p \in Runtimes, SyncPublished(p)
    PROVE  Inv'
<1>1. runtime[p].task.pc = "published" /\ SyncRoot
  BY DEF SyncPublished, AtPc
<1>2. PICK had, loaded : had = runtime[p].task.had /\ loaded = runtime[p].loaded
  OBVIOUS
<1>3. runtime[p].task.op = "save" /\ root.target.whole
  BY <1>1, TaskFacts DEF LoadPcs, SaveInv
<1>4. PICK pc \in {"drop", "saved"} : Goto(p, pc)
  BY DEF SyncPublished
<1>5. FilesInv' /\ root' = root /\ journal' = {root}
  BY <1>1, <1>4, SyncKeeps DEF Inv, Goto, SyncRoot
<1>6. SaveInv(pc, had, loaded)'
  BY <1>3, <1>4, <1>5 DEF SaveInv
<1> QED
  BY <1>2, <1>3, <1>4, <1>5, <1>6, SaveMoves DEF SavePcs

\* DropPrevious keeps the invariant.
LEMMA DropPreviousInv ==
    ASSUME Inv, NEW p \in Runtimes, DropPrevious(p)
    PROVE  Inv'
<1>1. /\ runtime[p].task.pc = "drop" /\ Goto(p, "dropping")
      /\ Write([root EXCEPT !.previous = Damaged(root.previous)])
  BY DEF DropPrevious, AtPc
<1>2. PICK had, loaded : had = runtime[p].task.had /\ loaded = runtime[p].loaded
  OBVIOUS
<1>3. runtime[p].task.op = "save" /\ root.target.whole
  BY <1>1, TaskFacts DEF LoadPcs, SaveInv
<1>4. UNCHANGED <<acknowledged, prepared>>
  BY <1>1 DEF Goto
<1>5. FilesInv' /\ root'.target = root.target
  BY <1>1, <1>3, <1>4, PreviousGoes
<1>6. SaveInv("dropping", had, loaded)'
  BY <1>3, <1>5 DEF SaveInv
<1> QED
  BY <1>1, <1>2, <1>3, <1>5, <1>6, SaveMoves DEF SavePcs

\* DroppedPrevious keeps the invariant.
LEMMA DroppedPreviousInv ==
    ASSUME Inv, NEW p \in Runtimes, DroppedPrevious(p)
    PROVE  Inv'
<1>1. /\ runtime[p].task.pc = "dropping" /\ Goto(p, "dropped")
      /\ Write([root EXCEPT !.previous = NoDir])
  BY DEF DroppedPrevious, AtPc
<1>2. PICK had, loaded : had = runtime[p].task.had /\ loaded = runtime[p].loaded
  OBVIOUS
<1>3. runtime[p].task.op = "save" /\ root.target.whole
  BY <1>1, TaskFacts DEF LoadPcs, SaveInv
<1>4. UNCHANGED <<acknowledged, prepared>>
  BY <1>1 DEF Goto
<1>5. FilesInv' /\ root'.target = root.target
  BY <1>1, <1>3, <1>4, PreviousGoes
<1>6. SaveInv("dropped", had, loaded)'
  BY <1>3, <1>5 DEF SaveInv
<1> QED
  BY <1>1, <1>2, <1>3, <1>5, <1>6, SaveMoves DEF SavePcs

\* SyncDropped keeps the invariant.
LEMMA SyncDroppedInv ==
    ASSUME Inv, NEW p \in Runtimes, SyncDropped(p)
    PROVE  Inv'
<1>1. runtime[p].task.pc = "dropped" /\ SyncRoot /\ Goto(p, "saved")
  BY DEF SyncDropped, AtPc
<1>2. PICK had, loaded : had = runtime[p].task.had /\ loaded = runtime[p].loaded
  OBVIOUS
<1>3. runtime[p].task.op = "save" /\ root.target.whole
  BY <1>1, TaskFacts DEF LoadPcs, SaveInv
<1>4. FilesInv' /\ root' = root /\ journal' = {root}
  BY <1>1, SyncKeeps DEF Inv, Goto, SyncRoot
<1>5. SaveInv("saved", had, loaded)'
  BY <1>3, <1>4 DEF SaveInv
<1> QED
  BY <1>1, <1>2, <1>3, <1>4, <1>5, SaveMoves DEF SavePcs

\* Every step of a load or a save keeps the invariant.
LEMMA TaskStepInv ==
    ASSUME Inv, NEW p \in Runtimes, TaskStep(p)
    PROVE  Inv'
BY CleanInv, RecoverInv, SetAsideInv, RestoreInv, SyncRestoredInv, ImportInv, RetireInv,
   RemovePreviousInv, SyncRemovedInv, PrepareInv, WriteManifestInv, ValidateInv, SyncTreeInv,
   PreserveInv, SyncPreservedInv, PublishInv, SyncUnpublishedInv, SyncPublishedInv,
   DropPreviousInv, DroppedPreviousInv, SyncDroppedInv
   DEF TaskStep

-----------------------------------------------------------------------------
(***************************************************************************)
(* The steps of the main task                                              *)
(***************************************************************************)
LEMMA TaskTypes ==
    /\ NoTask \in Task /\ NoTask.op = "none" /\ NoTask.pc = "none" /\ NoTask.had = FALSE
    /\ Off \in Process /\ Off.st = "off" /\ Off.loaded = -1 /\ Off.task = NoTask
BY DEF NoTask, Task, Off, Process

\* What is said of a process holds while its record stays.
LEMMA SameProcess ==
    ASSUME NEW q, ProcessInv(q), UNCHANGED <<root, journal, prepared, lease>>, runtime'[q] = runtime[q]
    PROVE  ProcessInv(q)'
<1>1. Backup(root)' = Backup(root)
  OBVIOUS
<1>2. \A pc : LoadInv(pc)' <=> LoadInv(pc)
  BY <1>1 DEF LoadInv, Settled
<1>3. \A pc, had, loaded : SaveInv(pc, had, loaded)' <=> SaveInv(pc, had, loaded)
  BY <1>1 DEF SaveInv, Settled, StagedSynced, StagedWhole, Staged
<1>4. Settled(root)' <=> Settled(root)
  BY <1>1 DEF Settled
<1>5. LoadInv(runtime[q].task.pc)' <=> LoadInv(runtime[q].task.pc)
  BY <1>2
<1>6. SaveInv(runtime[q].task.pc, runtime[q].task.had, runtime[q].loaded)'
          <=> SaveInv(runtime[q].task.pc, runtime[q].task.had, runtime[q].loaded)
  BY <1>3
<1> QED
  BY <1>4, <1>5, <1>6 DEF ProcessInv

\* A process whose record alone changes.
LEMMA BecomeFacts ==
    ASSUME ProcessesInv, NEW p \in Runtimes, NEW r \in Process, Become(p, r)
    PROVE  /\ runtime' \in [Runtimes -> Process] /\ runtime'[p] = r
           /\ \A q \in Runtimes : q # p => runtime'[q] = runtime[q]
           /\ UNCHANGED <<root, journal, prepared>>
BY DEF ProcessesInv, Become

\* The files did not change under the other processes.
LEMMA MainMoves ==
    ASSUME Inv, NEW p \in Runtimes, NEW r \in Process, Become(p, r), UNCHANGED lease,
           HistoryInv', FilesInv', ProcessInv(p)'
    PROVE  Inv'
<1>1. /\ runtime' \in [Runtimes -> Process] /\ UNCHANGED <<root, journal, prepared>>
      /\ \A q \in Runtimes : q # p => runtime'[q] = runtime[q]
  BY BecomeFacts DEF Inv
<1>2. \A q \in Runtimes : ProcessInv(q)'
  BY <1>1, SameProcess DEF Inv, ProcessesInv
<1>3. ProcessesInv'
  BY <1>1, <1>2 DEF Inv, ProcessesInv
<1> QED
  BY <1>3 DEF Inv

\* A step that leaves the files alone keeps the invariant of the files.
LEMMA SameFiles ==
    ASSUME Inv, UNCHANGED <<root, journal, acknowledged, prepared>>
    PROVE  HistoryInv' /\ FilesInv'
<1>1. HistoryInv'
  BY DEF Inv, HistoryInv
<1>2. FilesInv'
  BY SyncKeeps DEF Inv, SameRoot
<1> QED
  BY <1>1, <1>2

\* What is known of a process whatever it does.
LEMMA ProcessFacts ==
    ASSUME Inv, NEW p \in Runtimes
    PROVE  /\ runtime[p] \in Process /\ runtime[p].task \in Task /\ ProcessInv(p)
           /\ runtime[p].loaded \in Nat \cup {-1} /\ runtime[p].loaded <= prepared /\ prepared \in Nat
           /\ runtime[p].task.pc = "none" => runtime[p].task.op = "none"
<1>1. runtime[p] \in Process /\ runtime[p].task \in Task /\ ProcessInv(p) /\ prepared \in Nat
  BY DEF Inv, ProcessesInv, Process, HistoryInv
<1>2. runtime[p].loaded \in Nat \cup {-1} /\ runtime[p].task.op \in {"none", "load", "save"}
  BY <1>1 DEF Process, Task
<1>3. runtime[p].task.pc = "none" => runtime[p].task.op = "none"
  BY <1>1, <1>2 DEF ProcessInv, LoadPcs, SavePcs
<1> QED
  BY <1>1, <1>2, <1>3 DEF ProcessInv

\* A runtime that starts keeps the invariant.
LEMMA StartInv ==
    ASSUME Inv, NEW p \in Runtimes, Start(p)
    PROVE  Inv'
<1>1. PICK r : r = [Off EXCEPT !.st = "starting"] /\ Become(p, r) /\ UNCHANGED <<lease, acknowledged>>
  BY DEF Start
<1>2. r \in Process /\ r.st = "starting" /\ r.loaded = -1 /\ r.task = NoTask
  BY <1>1, TaskTypes DEF Process
<1>3. runtime'[p] = r /\ UNCHANGED <<root, journal, prepared>>
  BY <1>1, <1>2, BecomeFacts DEF Inv
<1>4. HistoryInv' /\ FilesInv'
  BY <1>1, <1>3, SameFiles
<1>5. ProcessInv(p)'
  BY <1>2, <1>3, <1>4, TaskTypes DEF ProcessInv, HistoryInv
<1> QED
  BY <1>1, <1>2, <1>4, <1>5, MainMoves

\* Taking the lease keeps the invariant.
LEMMA AcquireLeaseInv ==
    ASSUME Inv, NEW p \in Runtimes, AcquireLease(p)
    PROVE  Inv'
<1>1. /\ lease = NoOwner /\ lease' = p
      /\ UNCHANGED <<root, journal, runtime, acknowledged, prepared>>
  BY DEF AcquireLease
<1>2. HistoryInv' /\ FilesInv'
  BY <1>1, SameFiles
<1>3. \A q \in Runtimes : ProcessInv(q)'
  <2> SUFFICES ASSUME NEW q \in Runtimes PROVE ProcessInv(q)'
    OBVIOUS
  <2>1. lease # q
    BY <1>1, SnapshotAssumption
  <2>2. /\ runtime[q].task.op = "none" /\ runtime[q].loaded = -1 /\ runtime[q].st # "serving"
        /\ ProcessInv(q) /\ prepared \in Nat
    BY <2>1, ProcessFacts DEF ProcessInv
  <2> QED
    BY <1>1, <1>2, <2>2, IdleKeeps DEF Inv
<1>4. ProcessesInv'
  BY <1>1, <1>3 DEF Inv, ProcessesInv
<1> QED
  BY <1>2, <1>4 DEF Inv

\* A load that begins keeps the invariant.
LEMMA BeginLoadInv ==
    ASSUME Inv, NEW p \in Runtimes, BeginLoad(p)
    PROVE  Inv'
<1>1. PICK t : t = [NoTask EXCEPT !.op = "load", !.pc = "clean"]
  OBVIOUS
<1>2. t \in Task /\ t.op = "load" /\ t.pc = "clean"
  BY <1>1, TaskTypes DEF Task, LoadPcs
<1>3. PICK r : r = [runtime[p] EXCEPT !.task = t] /\ Become(p, r) /\ UNCHANGED <<lease, acknowledged>>
  BY <1>1 DEF BeginLoad
<1>4. /\ r \in Process /\ r.st = runtime[p].st /\ r.loaded = runtime[p].loaded /\ r.task = t
  BY <1>2, <1>3, ProcessFacts DEF Process
<1>5. runtime'[p] = r /\ UNCHANGED <<root, journal, prepared>>
  BY <1>3, <1>4, BecomeFacts DEF Inv
<1>6. HistoryInv' /\ FilesInv'
  BY <1>3, <1>5, SameFiles
<1>7. lease = p /\ runtime[p].st = "starting" /\ runtime[p].loaded = -1
  BY ProcessFacts DEF BeginLoad, ProcessInv
<1>8. LoadInv("clean")'
  BY DEF LoadInv
<1>9. ProcessInv(p)'
  <2>1. LoadInv(runtime[p].task.pc)'
    BY <1>2, <1>4, <1>5, <1>8
  <2> QED
    BY <1>2, <1>3, <1>4, <1>5, <1>6, <1>7, <2>1 DEF ProcessInv, HistoryInv, LoadPcs
<1> QED
  BY <1>3, <1>4, <1>6, <1>9, MainMoves

\* A load that ends keeps the invariant.
LEMMA LoadedInv ==
    ASSUME Inv, NEW p \in Runtimes, Loaded(p)
    PROVE  Inv'
<1>1. PICK r : /\ r = [st |-> "serving", loaded |-> root.target.gen, task |-> NoTask]
               /\ Become(p, r) /\ UNCHANGED <<lease, acknowledged>>
  BY DEF Loaded
<1>2. /\ root.target.gen \in Nat /\ root.target.gen <= prepared
  BY RootNow DEF RootOK, DirOK, Directory
<1>3. r \in Process /\ r.st = "serving" /\ r.loaded = root.target.gen /\ r.task = NoTask
  BY <1>1, <1>2, TaskTypes DEF Process
<1>4. runtime'[p] = r /\ UNCHANGED <<root, journal, prepared>>
  BY <1>1, <1>3, BecomeFacts DEF Inv
<1>5. HistoryInv' /\ FilesInv'
  BY <1>1, <1>4, SameFiles
<1>6. lease = p /\ Settled(root)
  BY TaskFacts DEF Loaded, AtPc, LoadInv, SavePcs
<1>7. Settled(root)'
  <2>1. Backup(root)' = Backup(root)
    BY <1>4
  <2> QED
    BY <1>4, <1>6, <2>1 DEF Settled
<1>8. ProcessInv(p)'
  BY <1>1, <1>2, <1>3, <1>4, <1>6, <1>7, TaskTypes DEF ProcessInv
<1> QED
  BY <1>1, <1>3, <1>5, <1>8, MainMoves

\* The main task stops waiting; what its transaction does goes on.
LEMMA StoppingInv ==
    ASSUME Inv, NEW p \in Runtimes, Become(p, [runtime[p] EXCEPT !.st = "stopping"]),
           UNCHANGED <<lease, acknowledged>>
    PROVE  Inv'
<1>1. PICK r : r = [runtime[p] EXCEPT !.st = "stopping"] /\ Become(p, r)
  OBVIOUS
<1>2. r \in Process /\ r.st = "stopping" /\ r.loaded = runtime[p].loaded /\ r.task = runtime[p].task
  BY <1>1, ProcessFacts DEF Process
<1>3. runtime'[p] = r /\ UNCHANGED <<root, journal, prepared>>
  BY <1>1, <1>2, BecomeFacts DEF Inv
<1>4. HistoryInv' /\ FilesInv'
  BY <1>3, SameFiles
<1>5. ProcessInv(p)'
  <2>1. Backup(root)' = Backup(root)
    BY <1>3
  <2>2. \A pc : LoadInv(pc)' <=> LoadInv(pc)
    BY <1>3, <2>1 DEF LoadInv, Settled
  <2>3. \A pc, had, loaded : SaveInv(pc, had, loaded)' <=> SaveInv(pc, had, loaded)
    BY <1>3, <2>1 DEF SaveInv, Settled, StagedSynced, StagedWhole, Staged
  <2>4. LoadInv(runtime[p].task.pc)' <=> LoadInv(runtime[p].task.pc)
    BY <1>2, <1>3, <2>2
  <2>5. SaveInv(runtime[p].task.pc, runtime[p].task.had, runtime[p].loaded)'
            <=> SaveInv(runtime[p].task.pc, runtime[p].task.had, runtime[p].loaded)
    BY <1>2, <1>3, <2>3
  <2> QED
    BY <1>2, <1>3, <2>4, <2>5, ProcessFacts DEF ProcessInv
<1> QED
  BY <1>1, <1>2, <1>4, <1>5, MainMoves

\* A save that begins keeps the invariant.
LEMMA BeginSaveInv ==
    ASSUME Inv, NEW p \in Runtimes, BeginSave(p)
    PROVE  Inv'
<1>1. PICK t : t = [NoTask EXCEPT !.op = "save", !.pc = "prepare"]
  OBVIOUS
<1>2. t \in Task /\ t.op = "save" /\ t.pc = "prepare"
  BY <1>1, TaskTypes DEF Task, SavePcs
<1>3. PICK r : /\ r = [runtime[p] EXCEPT !.st = "saving", !.task = t] /\ Become(p, r)
               /\ UNCHANGED <<lease, acknowledged>>
  BY <1>1 DEF BeginSave
<1>4. /\ r \in Process /\ r.st = "saving" /\ r.loaded = runtime[p].loaded /\ r.task = t
  BY <1>2, <1>3, ProcessFacts DEF Process
<1>5. runtime'[p] = r /\ UNCHANGED <<root, journal, prepared>>
  BY <1>3, <1>4, BecomeFacts DEF Inv
<1>6. HistoryInv' /\ FilesInv'
  BY <1>3, <1>5, SameFiles
<1>7. /\ lease = p /\ runtime[p].st = "serving" /\ runtime[p].loaded # -1
      /\ Settled(root) /\ root.target.gen = runtime[p].loaded
  BY ProcessFacts DEF BeginSave, ProcessInv
<1>8. PICK had, loaded : had = t.had /\ loaded = r.loaded
  OBVIOUS
<1>9. SaveInv("prepare", had, loaded)'
  <2>1. Backup(root)' = Backup(root)
    BY <1>5
  <2> QED
    BY <1>4, <1>5, <1>7, <1>8, <2>1 DEF SaveInv, Settled
<1>10. ProcessInv(p)'
  <2>1. SaveInv(runtime[p].task.pc, runtime[p].task.had, runtime[p].loaded)'
    BY <1>2, <1>4, <1>5, <1>8, <1>9
  <2>2. r.loaded <= prepared'
    BY <1>4, <1>5, ProcessFacts
  <2> QED
    BY <1>2, <1>3, <1>4, <1>5, <1>7, <2>1, <2>2 DEF ProcessInv, SavePcs
<1> QED
  BY <1>3, <1>4, <1>6, <1>10, MainMoves

\* A save that ends keeps the invariant.
LEMMA SavedInv ==
    ASSUME Inv, NEW p \in Runtimes, Saved(p)
    PROVE  Inv'
<1>1. PICK r : /\ r = [runtime[p] EXCEPT !.st = "stopping", !.task = NoTask] /\ Become(p, r)
               /\ UNCHANGED lease /\ acknowledged' = root.target.gen
  BY DEF Saved
<1>2. /\ r \in Process /\ r.st = "stopping" /\ r.loaded = runtime[p].loaded /\ r.task = NoTask
  BY <1>1, ProcessFacts, TaskTypes DEF Process
<1>3. runtime'[p] = r /\ UNCHANGED <<root, journal, prepared>>
  BY <1>1, <1>2, BecomeFacts DEF Inv
<1>4. lease = p /\ root.target.whole /\ journal = {root}
  BY TaskFacts DEF Saved, AtPc, SaveInv, LoadPcs
<1>5. /\ root.target.gen \in Nat /\ root.target.gen <= prepared
  BY RootNow DEF RootOK, DirOK, Directory
<1>6. HistoryInv'
  BY <1>1, <1>3, <1>5 DEF Inv, HistoryInv
<1>7. FilesInv'
  <2>1. RootOK(root)'
    BY <1>3, RootNow DEF RootOK, DirOK
  <2>2. Selected(root)' = Selected(root) /\ Selected(root) = root.target
    BY <1>3, <1>4, SelectedFacts
  <2>3. Safe(root)'
    BY <1>1, <1>4, <1>5, <2>2 DEF Safe
  <2> QED
    BY <1>3, <1>4, <2>1, <2>3 DEF FilesInv
<1>8. ProcessInv(p)'
  <2>1. r.loaded <= prepared'
    BY <1>2, <1>3, ProcessFacts
  <2> QED
    BY <1>1, <1>2, <1>3, <1>4, <2>1, TaskTypes DEF ProcessInv
<1> QED
  BY <1>1, <1>2, <1>6, <1>7, <1>8, MainMoves

\* A process that is off.
LEMMA OffInv ==
    ASSUME HistoryInv', NEW q, runtime'[q] = Off
    PROVE  ProcessInv(q)'
BY TaskTypes DEF ProcessInv, HistoryInv

\* A runtime that exits keeps the invariant.
LEMMA ExitInv ==
    ASSUME Inv, NEW p \in Runtimes, Exit(p)
    PROVE  Inv'
<1>1. /\ Become(p, Off) /\ UNCHANGED acknowledged
      /\ lease' = IF lease = p THEN NoOwner ELSE lease
  BY DEF Exit
<1>2. /\ runtime' \in [Runtimes -> Process] /\ runtime'[p] = Off
      /\ \A q \in Runtimes : q # p => runtime'[q] = runtime[q]
      /\ UNCHANGED <<root, journal, prepared>>
  BY <1>1, TaskTypes, BecomeFacts DEF Inv
<1>3. HistoryInv' /\ FilesInv'
  BY <1>1, <1>2, SameFiles
<1>4. ASSUME NEW q \in Runtimes
      PROVE  ProcessInv(q)'
  <2>1. CASE q = p
    BY <1>2, <1>3, <2>1, OffInv
  <2>2. CASE q # p /\ lease = p
    <3>1. /\ runtime[q].task.op = "none" /\ runtime[q].loaded = -1 /\ runtime[q].st # "serving"
      BY <2>2, OthersIdle DEF Inv
    <3> QED
      BY <1>2, <1>3, <2>2, <3>1, ProcessFacts, IdleKeeps DEF Inv
  <2>3. CASE q # p /\ lease # p
    BY <1>1, <1>2, <2>3, ProcessFacts, SameProcess
  <2> QED
    BY <2>1, <2>2, <2>3
<1>5. lease' \in Runtimes \cup {NoOwner}
  BY <1>1 DEF Inv, ProcessesInv
<1>6. ProcessesInv'
  BY <1>2, <1>4, <1>5 DEF ProcessesInv
<1> QED
  BY <1>3, <1>6 DEF Inv

\* A power failure keeps the invariant.
LEMMA PowerFailureInv ==
    ASSUME Inv, PowerFailure
    PROVE  Inv'
<1>1. /\ lease' = NoOwner /\ runtime' = [p \in Runtimes |-> Off]
      /\ UNCHANGED <<acknowledged, prepared>>
  BY DEF PowerFailure
<1>2. PICK s \in AfterPowerFailure : root' = s /\ journal' = {s}
  BY DEF PowerFailure
<1>3. PICK r \in journal : s \in Survivors(r)
  BY DEF AfterPowerFailure
<1>4. RootOK(s) /\ Safe(s)
  BY <1>3, SurvivorFacts DEF Inv, FilesInv
<1>5. RootOK(s)' /\ Safe(s)'
  BY <1>1, <1>4 DEF RootOK, DirOK, Safe
<1>6. FilesInv'
  BY <1>2, <1>5 DEF FilesInv
<1>7. HistoryInv'
  BY <1>1 DEF Inv, HistoryInv
<1>8. \A q \in Runtimes : ProcessInv(q)'
  BY <1>1, <1>7, OffInv
<1>9. ProcessesInv'
  <2>1. runtime' \in [Runtimes -> Process]
    BY <1>1, TaskTypes
  <2> QED
    BY <1>1, <1>8, <2>1 DEF ProcessesInv
<1> QED
  BY <1>6, <1>7, <1>9 DEF Inv

-----------------------------------------------------------------------------
(***************************************************************************)
(* The theorems                                                            *)
(***************************************************************************)
LEMMA InitInv ==
    ASSUME SnapshotInit
    PROVE  Inv
<1>1. /\ journal = {root} /\ lease = NoOwner /\ runtime = [p \in Runtimes |-> Off] /\ prepared = 2
      /\ acknowledged = IF Cardinality(root.bak) = 2 THEN 0
                        ELSE IF Exists(root.target) \/ root.bak # {} THEN 1 ELSE 0
  BY DEF SnapshotInit
<1>2. HistoryInv
  BY <1>1, SnapshotAssumption DEF HistoryInv
<1>3. PICK one, two, bad : one = Generation(1) /\ two = Generation(2) /\ bad = Damaged(two)
  OBVIOUS
<1>4. /\ one \in Directory /\ one.gen = 1 /\ one.whole = TRUE /\ one.synced = TRUE
      /\ two \in Directory /\ two.gen = 2 /\ two.whole = TRUE /\ two.synced = TRUE
  BY <1>3 DEF Generation, Directory
<1>5. bad \in Directory /\ bad.gen = 2 /\ bad.whole = FALSE /\ bad.synced = TRUE
  BY <1>3, <1>4, DamagedFacts
<1>6. DirOK(NoDir) /\ DirOK(one) /\ DirOK(two) /\ DirOK(bad)
  BY <1>1, <1>4, <1>5, NoDirFacts DEF DirOK
<1>7. one # NoDir /\ two # NoDir /\ bad # NoDir /\ one # two
  BY <1>4, <1>5, NoDirFacts
<1>8. PICK t \in {NoDir, one, bad}, v \in {NoDir, one}, k \in {{}, {one}, {one, two}} :
         /\ root.target = t /\ root.previous = v /\ root.tmp = NoDir /\ root.bak = k
         /\ root \in RootDirectory
         /\ v = one <=> t = bad
         /\ t # NoDir => k = {}
  <2>1. root \in {Root(NoDir, {}), Root(one, {}), Root(NoDir, {one}),
                  [Root(bad, {}) EXCEPT !.previous = one], Root(NoDir, {one, two})}
    BY <1>3 DEF SnapshotInit
  <2>2. ASSUME NEW t \in {NoDir, one, bad}, NEW k \in {{}, {one}, {one, two}}
        PROVE  /\ Root(t, k) \in RootDirectory /\ Root(t, k).target = t /\ Root(t, k).previous = NoDir
               /\ Root(t, k).tmp = NoDir /\ Root(t, k).bak = k
    BY <1>4, <1>5, NoDirFacts DEF Root, RootDirectory
  <2>3. CASE root = [Root(bad, {}) EXCEPT !.previous = one]
    <3>1. /\ root \in RootDirectory /\ root.target = bad /\ root.previous = one
          /\ root.tmp = NoDir /\ root.bak = {}
      BY <1>4, <2>2, <2>3 DEF RootDirectory
    <3> QED
      BY <1>7, <3>1
  <2>4. ASSUME NEW t \in {NoDir, one}, NEW k \in {{}, {one}, {one, two}},
               root = Root(t, k), t # NoDir => k = {}
        PROVE  /\ root \in RootDirectory /\ root.target = t /\ root.previous = NoDir
               /\ root.tmp = NoDir /\ root.bak = k
    BY <2>2, <2>4
  <2> QED
    <3>1. CASE root \in {Root(NoDir, {}), Root(NoDir, {one}), Root(NoDir, {one, two})}
      <4>1. PICK k \in {{}, {one}, {one, two}} : root = Root(NoDir, k)
        BY <3>1
      <4>2. /\ root \in RootDirectory /\ root.target = NoDir /\ root.previous = NoDir
            /\ root.tmp = NoDir /\ root.bak = k
        BY <2>4, <4>1
      <4> QED
        BY <1>7, <4>1, <4>2
    <3>2. CASE root = Root(one, {})
      <4>1. /\ root \in RootDirectory /\ root.target = one /\ root.previous = NoDir
            /\ root.tmp = NoDir /\ root.bak = {}
        BY <2>4, <3>2
      <4>2. one # bad
        BY <1>4, <1>5
      <4> QED
        BY <1>7, <4>1, <4>2
    <3> QED
      BY <2>1, <2>3, <3>1, <3>2
<1>9. RootOK(root)
  BY <1>4, <1>5, <1>6, <1>8, NoDirFacts DEF RootOK
<1>10. Safe(root)
  <2>1. CASE t = one
    BY <1>1, <1>4, <1>8, <2>1, SelectedFacts DEF Safe
  <2>2. CASE t = bad
    BY <1>1, <1>4, <1>5, <1>7, <1>8, <2>2, BackupFacts, SelectedFacts DEF Safe
  <2>3. CASE t = NoDir /\ k = {}
    <3>1. acknowledged = 0
      BY <1>1, <1>8, <2>3 DEF Exists
    <3> QED
      BY <3>1 DEF Safe
  <2>4. CASE t = NoDir /\ k = {one}
    <3>1. Cardinality(k) = 1
      BY <2>4, FS_Singleton
    <3>2. Backup(root) = one
      BY <1>7, <1>8, <2>4, <3>1 DEF Backup, Exists
    <3> QED
      BY <1>1, <1>4, <1>7, <1>8, <2>4, <3>1, <3>2, NoDirFacts, SelectedFacts DEF Safe
  <2>5. CASE t = NoDir /\ k = {one, two}
    <3>1. IsFiniteSet({one}) /\ Cardinality({one}) = 1 /\ two \notin {one}
      BY <1>7, FS_Singleton
    <3>2. Cardinality({one} \cup {two}) = 2
      BY <3>1, FS_AddElement
    <3>3. k = {one} \cup {two}
      BY <2>5
    <3>4. acknowledged = 0
      BY <1>1, <1>8, <3>2, <3>3
    <3> QED
      BY <3>4 DEF Safe
  <2> QED
    BY <1>8, <2>1, <2>2, <2>3, <2>4, <2>5
<1>11. FilesInv
  BY <1>1, <1>9, <1>10 DEF FilesInv
<1>12. ProcessesInv
  <2>1. runtime \in [Runtimes -> Process]
    BY <1>1, TaskTypes
  <2>2. \A p \in Runtimes : ProcessInv(p)
    BY <1>1, TaskTypes DEF ProcessInv
  <2> QED
    BY <1>1, <2>1, <2>2 DEF ProcessesInv
<1> QED
  BY <1>2, <1>11, <1>12 DEF Inv

\* Every step keeps the invariant.
LEMMA NextInv ==
    ASSUME Inv, [SnapshotNext]_snapshotVars
    PROVE  Inv'
<1>1. CASE PowerFailure
  BY <1>1, PowerFailureInv
<1>2. ASSUME NEW p \in Runtimes,
             \/ TaskStep(p)
             \/ Start(p) \/ AcquireLease(p) \/ BeginLoad(p) \/ Loaded(p) \/ StartupFails(p)
             \/ BeginSave(p) \/ QuiesceFails(p) \/ Saved(p) \/ SaveObservationEnds(p) \/ Exit(p)
      PROVE  Inv'
  <2>1. CASE StartupFails(p) \/ QuiesceFails(p) \/ SaveObservationEnds(p)
    BY <2>1, StoppingInv DEF StartupFails, QuiesceFails, SaveObservationEnds
  <2> QED
    BY <1>2, <2>1, TaskStepInv, StartInv, AcquireLeaseInv, BeginLoadInv, LoadedInv, BeginSaveInv,
       SavedInv, ExitInv
<1>3. CASE UNCHANGED snapshotVars
  <2>1. UNCHANGED <<root, journal, lease, runtime, acknowledged, prepared>>
    BY <1>3 DEF snapshotVars
  <2>2. HistoryInv' /\ FilesInv'
    BY <2>1, SameFiles
  <2>3. \A q \in Runtimes : ProcessInv(q)'
    BY <2>1, ProcessFacts, SameProcess
  <2>4. ProcessesInv'
    BY <2>1, <2>3 DEF Inv, ProcessesInv
  <2> QED
    BY <2>2, <2>4 DEF Inv
<1> QED
  BY <1>1, <1>2, <1>3 DEF SnapshotNext

\* The inductive invariant holds.
THEOREM SnapshotInvariant == SnapshotSpec => []Inv
<1>1. SnapshotInit => Inv
  BY InitInv
<1>2. Inv /\ [SnapshotNext]_snapshotVars => Inv'
  BY NextInv
<1> QED
  BY <1>1, <1>2, PTL DEF SnapshotSpec

\* Entries of the root, the lease and the processes stay in their types, and
\* a process reads and writes the files only while it holds the lease that
\* SnapshotLease::acquire took.
THEOREM SnapshotTypeCorrect == SnapshotSpec => []SnapshotTypeOK
<1>1. Inv => SnapshotTypeOK
  <2> SUFFICES ASSUME Inv PROVE SnapshotTypeOK
    OBVIOUS
  <2>1. \A d \in {root.target, root.previous, root.tmp} \cup root.bak : d.gen \in 0..MaxGeneration
    <3>1. \A d \in {root.target, root.previous, root.tmp} \cup root.bak : DirOK(d)
      BY RootNow DEF RootOK
    <3> QED
      BY <3>1, SnapshotAssumption DEF DirOK, Directory, Inv, HistoryInv
  <2>2. root \in journal /\ lease \in Runtimes \cup {NoOwner}
    BY DEF Inv, FilesInv, ProcessesInv
  <2>3. ASSUME NEW p \in Runtimes
        PROVE  /\ runtime[p].st \in {"off", "starting", "serving", "saving", "stopping"}
               /\ runtime[p].loaded \in -1..MaxGeneration
               /\ runtime[p].task.op # "none" => lease = p
    <3>1. runtime[p].st \in {"off", "starting", "serving", "saving", "stopping"}
      BY ProcessFacts DEF Process
    <3>2. runtime[p].loaded \in -1..MaxGeneration
      BY ProcessFacts, SnapshotAssumption DEF Inv, HistoryInv
    <3>3. runtime[p].task.op # "none" => lease = p
      BY ProcessFacts DEF ProcessInv
    <3> QED
      BY <3>1, <3>2, <3>3
  <2> QED
    BY <2>1, <2>2, <2>3 DEF SnapshotTypeOK
<1> QED
  BY <1>1, SnapshotInvariant, PTL

\* Whatever step a load or a save is interrupted at, and whatever of the root
\* a power failure leaves behind, recover_snapshot selects a complete
\* generation that is not older than the last one a save reported.
THEOREM RecoverableAlways == SnapshotSpec => []Recoverable
<1>1. Inv => Recoverable
  <2> SUFFICES ASSUME Inv, acknowledged # 0, NEW r \in {root} \cup AfterPowerFailure
               PROVE  Selected(r).whole /\ Selected(r).gen >= acknowledged
    BY DEF Recoverable
  <2>1. CASE r = root
    BY <2>1, RootNow DEF Safe
  <2>2. CASE r \in AfterPowerFailure
    <3>1. PICK s \in journal : r \in Survivors(s)
      BY <2>2 DEF AfterPowerFailure
    <3>2. Safe(r)
      BY <3>1, SurvivorFacts DEF Inv, FilesInv
    <3> QED
      BY <3>2 DEF Safe
  <2> QED
    BY <2>1, <2>2
<1> QED
  BY <1>1, SnapshotInvariant, PTL

\* The rename that publishes a save replaces the generation that the same
\* process imported: no process overwrites a snapshot it has not read.
THEOREM ReplacesLoadedAlways == SnapshotSpec => ReplacesLoaded
<1> DEFINE A == \A p \in Runtimes :
                   AtPc(p, "publish") /\ runtime'[p].task.pc = "published" =>
                       runtime[p].loaded = IF runtime[p].task.had THEN root.previous.gen ELSE 0
<1>1. Inv => A
  <2> SUFFICES ASSUME Inv, NEW p \in Runtimes, AtPc(p, "publish")
               PROVE  runtime[p].loaded = IF runtime[p].task.had THEN root.previous.gen ELSE 0
    OBVIOUS
  <2>1. runtime[p].task.pc = "publish"
    BY DEF AtPc
  <2>2. SaveInv("publish", runtime[p].task.had, runtime[p].loaded)
    BY <2>1, TaskFacts DEF LoadPcs
  <2> QED
    BY <2>2 DEF SaveInv
<1>2. Inv => [A]_snapshotVars
  BY <1>1
<1>3. []Inv => [][A]_snapshotVars
  BY <1>2, PTL
<1> QED
  BY <1>3, SnapshotInvariant, PTL DEF ReplacesLoaded

-----------------------------------------------------------------------------
(***************************************************************************)
(* Proofs about the Docker pool and the owner of its environments, for any  *)
(* number of calls, any limits and any number of panics and daemon losses.  *)
(***************************************************************************)

Phases == {"None", "Allocating", "Initializing", "Idle", "Busy", "Retiring", "Quarantined",
           "Removed"}
Holders == {"none", "inbox", "worker", "recovery", "emergency"}
Counters == {"none", "create", "issued", "init", "serve", "call", "retire", "retire_call", "done"}
Progresses == {"unissued", "uncertain", "known", "clean"}
Containers == {"absent", "inflight", "refused", "exists", "removed"}
Results == {"none", "success", "failure", "lost"}
Announcements == {"none", "ok", "err"}

Environment ==
    [phase : Phases, stop : BOOLEAN, holder : Holders, pc : Counters, progress : Progresses,
     container : Containers, dirty : BOOLEAN, mail : BOOLEAN, result : Results,
     done : Announcements]

\* The values of each field, as sets that need not be expanded.
LEMMA Names ==
    /\ {"None", "Allocating", "Initializing", "Idle", "Busy", "Retiring", "Quarantined",
        "Removed"} \subseteq Phases
    /\ {"none", "inbox", "worker", "recovery", "emergency"} \subseteq Holders
    /\ {"none", "create", "issued", "init", "serve", "call", "retire", "retire_call",
        "done"} \subseteq Counters
    /\ {"unissued", "uncertain", "known", "clean"} \subseteq Progresses
    /\ {"absent", "inflight", "refused", "exists", "removed"} \subseteq Containers
    /\ {"none", "success", "failure", "lost"} \subseteq Results
    /\ {"none", "ok", "err"} \subseteq Announcements
BY DEF Phases, Holders, Counters, Progresses, Containers, Results, Announcements

\* What the owner's record of an environment tells about its container: one
\* that is there, or may still come, is registered, its creation was issued,
\* and its removal has not been announced.
Sound(r) ==
    /\ r.container \in {"inflight", "exists"} =>
           /\ r.holder \in {"worker", "recovery", "emergency"}
           /\ r.pc \notin {"none", "create", "done"}
           /\ r.progress \in {"uncertain", "known"}
           /\ r.done = "none"
    /\ r.holder = "inbox" =>
           r.progress = "unissued" /\ r.container = "absent" /\ r.done = "none"
    /\ r.pc = "create" => r.progress = "unissued" /\ r.container = "absent"
    /\ r.pc = "issued" => r.progress = "uncertain"
    /\ r.progress = "known" => r.container \in {"exists", "removed"}
    /\ r.holder = "worker" => r.done = "none"
    /\ r.phase = "None" => r.holder = "none" /\ r.container = "absent"

\* A step of the owner allocates nothing, and takes back no announcement.
Follows(r, q) ==
    /\ q \in Environment /\ Sound(q)
    /\ q.holder # "none" => r.holder # "none"
    /\ r.done # "none" => q.done # "none"
    /\ r.phase = "None" => q.phase = "None"

EnvironmentsInv ==
    /\ environments \in [Calls -> Environment]
    /\ \A e \in Calls : Sound(environments[e])

AllFollow ==
    /\ environments' \in [Calls -> Environment]
    /\ \A e \in Calls : Follows(environments[e], environments'[e])

-----------------------------------------------------------------------------
(* The owner's steps.                                                       *)

\* A record follows itself.
LEMMA SameFollows ==
    ASSUME NEW r \in Environment, Sound(r) PROVE Follows(r, r)
BY DEF Follows

\* One record that follows is enough when the others stay.
LEMMA SetFollows ==
    ASSUME EnvironmentsInv, NEW e \in Calls, NEW r, Set(e, r), Follows(environments[e], r)
    PROVE  AllFollow
<1>1. environments' \in [Calls -> Environment] BY DEF EnvironmentsInv, Set, Follows
<1>2. ASSUME NEW d \in Calls PROVE Follows(environments[d], environments'[d])
  <2>1. CASE d = e BY <2>1 DEF EnvironmentsInv, Set
  <2>2. CASE d # e
    <3>1. environments'[d] = environments[d] BY <2>2 DEF EnvironmentsInv, Set
    <3> QED BY <3>1, SameFollows DEF EnvironmentsInv
  <2> QED BY <2>1, <2>2
<1> QED BY <1>1, <1>2 DEF AllFollow

\* Records that stay follow.
LEMMA UnchangedFollows ==
    ASSUME EnvironmentsInv, UNCHANGED environments PROVE AllFollow
BY SameFollows DEF EnvironmentsInv, AllFollow

\* The steps of one environment, on its record.
LEMMA InboxFollows ==
    ASSUME NEW r \in Environment, Sound(r), r.holder = "inbox"
    PROVE  /\ Follows(r, [r EXCEPT !.holder = "worker", !.pc = "create"])
           /\ \A d \in {"ok", "err"} : Follows(r, Unstarted(r, d))
           /\ Follows(r, Unstarted(WorkerFailed(r), "err"))
<1>0. r.phase # "None" /\ r.holder # "none" BY DEF Sound
<1>1. Follows(r, [r EXCEPT !.holder = "worker", !.pc = "create"])
  <2>1. PICK q : q = [r EXCEPT !.holder = "worker", !.pc = "create"] OBVIOUS
  <2>2. q \in Environment BY Names, <2>1 DEF Environment
  <2>3. q.holder = "worker" /\ q.pc = "create" /\ q.phase = r.phase /\ q.progress = r.progress /\ q.container = r.container /\ q.done = r.done
    BY <2>1 DEF Environment
  <2>4. Sound(q) BY <2>3 DEF Sound
  <2>5. Follows(r, q) BY <1>0, <2>2, <2>3, <2>4 DEF Follows
  <2> QED BY <2>1, <2>5
<1>2. ASSUME NEW d \in {"ok", "err"}
      PROVE  Follows(r, Unstarted(r, d))
  <2>1. PICK q : q = Unstarted(r, d) OBVIOUS
  <2>2. q \in Environment BY Names, <1>2, <2>1 DEF Environment, Unstarted
  <2>3. q.holder = "none" /\ q.phase = "Removed" /\ q.done = d /\ q.pc = r.pc /\ q.progress = r.progress /\ q.container = r.container
    BY <1>2, <2>1 DEF Environment, Unstarted
  <2>4. Sound(q) BY <1>2, <2>3 DEF Sound
  <2>5. Follows(r, q) BY <1>2, <1>0, <2>2, <2>3, <2>4 DEF Follows
  <2> QED BY <2>1, <2>5
<1>3. Follows(r, Unstarted(WorkerFailed(r), "err"))
  <2>1. PICK q : q = Unstarted(WorkerFailed(r), "err") OBVIOUS
  <2>2. q \in Environment BY Names, <2>1 DEF Environment, Unstarted, WorkerFailed
  <2>3. q.holder = "none" /\ q.phase = "Removed" /\ q.done = "err" /\ q.pc = r.pc /\ q.progress = r.progress /\ q.container = r.container
    BY <2>1 DEF Environment, Unstarted, WorkerFailed
  <2>4. Sound(q) BY <2>3 DEF Sound
  <2>5. Follows(r, q) BY <1>0, <2>2, <2>3, <2>4 DEF Follows
  <2> QED BY <2>1, <2>5
<1> QED BY <1>1, <1>2, <1>3, Zenon

\* An owner that is announced follows.
LEMMA RegisteredFollows ==
    ASSUME NEW r \in Environment, Sound(r), r.holder \in {"worker", "recovery", "emergency"}
    PROVE  /\ Follows(r, WorkerFailed(r)) /\ Follows(r, [r EXCEPT !.stop = TRUE])
           /\ Follows(r, [Dropped(WorkerFailed(r)) EXCEPT !.holder = "recovery"])
           /\ Follows(r, [Dropped(WorkerFailed(r)) EXCEPT !.holder = "emergency"])
<1>0. r.phase # "None" /\ r.holder # "none" BY DEF Sound
<1>1. Follows(r, WorkerFailed(r))
  <2>1. PICK q : q = WorkerFailed(r) OBVIOUS
  <2>2. q \in Environment BY Names, <2>1 DEF Environment, WorkerFailed
  <2>3. q.phase = "Retiring" /\ q.holder = r.holder /\ q.pc = r.pc /\ q.progress = r.progress /\ q.container = r.container /\ q.done = r.done
    BY <2>1 DEF Environment, WorkerFailed
  <2>4. Sound(q) BY <2>3 DEF Sound
  <2>5. Follows(r, q) BY <1>0, <2>2, <2>3, <2>4 DEF Follows
  <2> QED BY <2>1, <2>5
<1>2. Follows(r, [r EXCEPT !.stop = TRUE])
  <2>1. PICK q : q = [r EXCEPT !.stop = TRUE] OBVIOUS
  <2>2. q \in Environment BY Names, <2>1 DEF Environment
  <2>3. q.phase = r.phase /\ q.holder = r.holder /\ q.pc = r.pc /\ q.progress = r.progress /\ q.container = r.container /\ q.done = r.done
    BY <2>1 DEF Environment
  <2>4. Sound(q) BY <2>3 DEF Sound
  <2>5. Follows(r, q) BY <1>0, <2>2, <2>3, <2>4 DEF Follows
  <2> QED BY <2>1, <2>5
<1>3. ASSUME NEW h \in {"recovery", "emergency"}
      PROVE  Follows(r, [Dropped(WorkerFailed(r)) EXCEPT !.holder = h])
  <2>0. PICK w : w = WorkerFailed(r) OBVIOUS
  <2>1. /\ w \in Environment /\ w.phase = "Retiring"
        /\ w.progress = r.progress /\ w.container = r.container /\ w.done = r.done
    BY Names, <2>0 DEF Environment, WorkerFailed
  <2>2. PICK u : u = Dropped(w) OBVIOUS
  <2>3. u \in Environment BY Names, <2>1, <2>2 DEF Environment, Dropped
  <2>4. /\ u.pc = "retire" /\ u.phase = w.phase
        /\ u.progress = w.progress /\ u.container = w.container /\ u.done = w.done
    BY <2>1, <2>2 DEF Environment, Dropped
  <2>5. PICK q : q = [u EXCEPT !.holder = h] OBVIOUS
  <2>6. q \in Environment BY Names, <2>3, <2>5 DEF Environment
  <2>7. /\ q.holder = h /\ q.pc = "retire" /\ q.phase = "Retiring"
        /\ q.progress = r.progress /\ q.container = r.container /\ q.done = r.done
    BY <2>1, <2>3, <2>4, <2>5 DEF Environment
  <2>8. Sound(q) BY <2>7, <1>3 DEF Sound
  <2>9. Follows(r, q) BY <1>0, <2>6, <2>7, <2>8 DEF Follows
  <2> QED BY <2>0, <2>2, <2>5, <2>9
<1> QED BY <1>1, <1>2, <1>3, Zenon

\* An environment that is announced as gone follows.
LEMMA GoneFollows ==
    ASSUME NEW r \in Environment, Sound(r), r.pc = "done", r.holder # "none",
           NEW d \in {"none", "ok", "err"}, r.done # "none" => d # "none"
    PROVE  Follows(r, Gone(r, d))
<1>0. r.phase # "None" BY DEF Sound
<1>1. Follows(r, Gone(r, d))
  <2>1. PICK q : q = Gone(r, d) OBVIOUS
  <2>2. q \in Environment BY Names, <2>1 DEF Environment, Gone, NoEnvironment
  <2>3. q.phase = "Removed" /\ q.holder = "none" /\ q.pc = "none" /\ q.progress = "unissued" /\ q.done = d /\ q.container = r.container
    BY <2>1 DEF Environment, Gone, NoEnvironment
  <2>4. Sound(q) BY <2>3 DEF Sound
  <2>5. Follows(r, q) BY <1>0, <2>2, <2>3, <2>4 DEF Follows
  <2> QED BY <2>1, <2>5
<1> QED BY <1>1

\* The steps of the cleaner follow.
LEMMA CleanerFollows ==
    ASSUME NEW r \in Environment, Sound(r), r.holder \in {"worker", "recovery", "emergency"},
           r.pc \in {"retire", "retire_call"}
    PROVE  /\ (\/ r.progress \in {"unissued", "clean"}
               \/ r.progress = "uncertain" /\ r.container = "absent"
               \/ r.progress = "known" /\ r.container = "removed") => Follows(r, Cleaned(r))
           /\ r.progress \in {"uncertain", "known"} =>
                Follows(r, [r EXCEPT !.progress = "known", !.container = "removed"])
           /\ Follows(r, [r EXCEPT !.phase = "Quarantined", !.dirty = TRUE])
<1>0. r.phase # "None" /\ r.holder # "none" BY DEF Sound
<1>1. ASSUME \/ r.progress \in {"unissued", "clean"}
             \/ r.progress = "uncertain" /\ r.container = "absent"
             \/ r.progress = "known" /\ r.container = "removed"
      PROVE  Follows(r, Cleaned(r))
  <2>0. r.container \notin {"inflight", "exists"} BY <1>1 DEF Sound
  <2>1. PICK q : q = Cleaned(r) OBVIOUS
  <2>2. q \in Environment BY Names, <2>1 DEF Environment, Cleaned
  <2>3. /\ q.progress = "clean" /\ q.pc = "done" /\ q.holder = r.holder /\ q.container = r.container
        /\ q.phase = IF r.holder = "worker" THEN r.phase ELSE "Removed"
        /\ q.done = IF r.holder = "worker" THEN r.done ELSE "err"
    BY <2>1 DEF Environment, Cleaned
  <2>4. Sound(q) BY <1>0, <2>0, <2>3 DEF Sound
  <2>5. Follows(r, q) BY <1>0, <2>2, <2>3, <2>4 DEF Follows
  <2> QED BY <2>1, <2>5
<1>2. Follows(r, [r EXCEPT !.progress = "known", !.container = "removed"])
  <2>1. PICK q : q = [r EXCEPT !.progress = "known", !.container = "removed"] OBVIOUS
  <2>2. q \in Environment BY Names, <2>1 DEF Environment
  <2>3. q.progress = "known" /\ q.container = "removed" /\ q.phase = r.phase /\ q.holder = r.holder /\ q.pc = r.pc /\ q.done = r.done
    BY <2>1 DEF Environment
  <2>4. Sound(q) BY <2>3 DEF Sound
  <2>5. Follows(r, q) BY <1>0, <2>2, <2>3, <2>4 DEF Follows
  <2> QED BY <2>1, <2>5
<1>3. Follows(r, [r EXCEPT !.phase = "Quarantined", !.dirty = TRUE])
  <2>1. PICK q : q = [r EXCEPT !.phase = "Quarantined", !.dirty = TRUE] OBVIOUS
  <2>2. q \in Environment BY Names, <2>1 DEF Environment
  <2>3. q.phase = "Quarantined" /\ q.progress = r.progress /\ q.container = r.container /\ q.holder = r.holder /\ q.pc = r.pc /\ q.done = r.done
    BY <2>1 DEF Environment
  <2>4. Sound(q) BY <2>3 DEF Sound
  <2>5. Follows(r, q) BY <1>0, <2>2, <2>3, <2>4 DEF Follows
  <2> QED BY <2>1, <2>5
<1> QED BY <1>1, <1>2, <1>3, Zenon

\* The answers of the Docker daemon follow.
LEMMA DaemonFollows ==
    ASSUME NEW r \in Environment, Sound(r), r.container = "inflight", NEW c \in {"exists", "refused"}
    PROVE  Follows(r, [r EXCEPT !.container = c])
<1>0. r.phase # "None" /\ r.progress = "uncertain" BY DEF Sound, Environment
<1>1. Follows(r, [r EXCEPT !.container = c])
  <2>1. PICK q : q = [r EXCEPT !.container = c] OBVIOUS
  <2>2. q \in Environment BY Names, <2>1 DEF Environment
  <2>3. q.container = c /\ q.phase = r.phase /\ q.progress = r.progress /\ q.holder = r.holder /\ q.pc = r.pc /\ q.done = r.done
    BY <2>1 DEF Environment
  <2>4. Sound(q) BY <2>3 DEF Sound
  <2>5. Follows(r, q) BY <1>0, <2>2, <2>3, <2>4 DEF Follows
  <2> QED BY <2>1, <2>5
<1> QED BY <1>1

\* The steps of the worker follow.
LEMMA WorkerFollows ==
    ASSUME NEW r \in Environment, Sound(r), r.holder = "worker"
    PROVE  /\ r.pc = "create" =>
                /\ Follows(r, [r EXCEPT !.progress = "uncertain", !.container = "inflight",
                                        !.pc = "issued"])
                /\ Follows(r, [r EXCEPT !.progress = "uncertain", !.phase = "Retiring",
                                        !.pc = "retire"])
           /\ r.pc = "issued" /\ r.container = "exists" =>
                Follows(r, [r EXCEPT !.progress = "known", !.phase = "Initializing", !.pc = "init"])
           /\ r.pc = "issued" /\ r.container = "refused" =>
                Follows(r, [r EXCEPT !.progress = "clean", !.phase = "Retiring", !.pc = "retire"])
           /\ r.pc = "init" => Follows(r, [r EXCEPT !.phase = "Idle", !.pc = "serve"])
           /\ r.pc = "serve" =>
                Follows(r, [r EXCEPT !.phase = "Busy", !.pc = "call", !.mail = FALSE])
           /\ r.pc = "call" =>
                Follows(r, [r EXCEPT !.phase = "Idle", !.pc = "serve", !.result = "success"])
           /\ r.pc \in {"create", "issued", "init", "serve", "call"} =>
                Follows(r, [r EXCEPT !.phase = "Retiring", !.mail = FALSE,
                                     !.pc = IF r.pc = "call" THEN "retire_call" ELSE "retire",
                                     !.result = IF r.mail THEN "failure" ELSE @])
<1>0. r.phase # "None" /\ r.holder # "none" BY DEF Sound
<1>1. ASSUME r.pc = "create"
      PROVE  Follows(r, [r EXCEPT !.progress = "uncertain", !.container = "inflight", !.pc = "issued"])
  <2>1. PICK q : q = [r EXCEPT !.progress = "uncertain", !.container = "inflight", !.pc = "issued"] OBVIOUS
  <2>2. q \in Environment BY Names, <1>1, <2>1 DEF Environment
  <2>3. q.progress = "uncertain" /\ q.container = "inflight" /\ q.pc = "issued" /\ q.phase = r.phase /\ q.holder = r.holder /\ q.done = r.done
    BY <1>1, <2>1 DEF Environment
  <2>4. Sound(q) BY <1>1, <2>3 DEF Sound
  <2>5. Follows(r, q) BY <1>1, <1>0, <2>2, <2>3, <2>4 DEF Follows
  <2> QED BY <2>1, <2>5
<1>2. ASSUME r.pc = "create"
      PROVE  Follows(r, [r EXCEPT !.progress = "uncertain", !.phase = "Retiring", !.pc = "retire"])
  <2>1. PICK q : q = [r EXCEPT !.progress = "uncertain", !.phase = "Retiring", !.pc = "retire"] OBVIOUS
  <2>2. q \in Environment BY Names, <1>2, <2>1 DEF Environment
  <2>3. q.progress = "uncertain" /\ q.phase = "Retiring" /\ q.pc = "retire" /\ q.container = r.container /\ q.holder = r.holder /\ q.done = r.done
    BY <1>2, <2>1 DEF Environment
  <2>4. Sound(q) BY <1>2, <2>3 DEF Sound
  <2>5. Follows(r, q) BY <1>2, <1>0, <2>2, <2>3, <2>4 DEF Follows
  <2> QED BY <2>1, <2>5
<1>3. ASSUME r.pc = "issued", r.container = "exists"
      PROVE  Follows(r, [r EXCEPT !.progress = "known", !.phase = "Initializing", !.pc = "init"])
  <2>1. PICK q : q = [r EXCEPT !.progress = "known", !.phase = "Initializing", !.pc = "init"] OBVIOUS
  <2>2. q \in Environment BY Names, <1>3, <2>1 DEF Environment
  <2>3. q.progress = "known" /\ q.phase = "Initializing" /\ q.pc = "init" /\ q.container = r.container /\ q.holder = r.holder /\ q.done = r.done
    BY <1>3, <2>1 DEF Environment
  <2>4. Sound(q) BY <1>3, <2>3 DEF Sound
  <2>5. Follows(r, q) BY <1>3, <1>0, <2>2, <2>3, <2>4 DEF Follows
  <2> QED BY <2>1, <2>5
<1>4. ASSUME r.pc = "issued", r.container = "refused"
      PROVE  Follows(r, [r EXCEPT !.progress = "clean", !.phase = "Retiring", !.pc = "retire"])
  <2>1. PICK q : q = [r EXCEPT !.progress = "clean", !.phase = "Retiring", !.pc = "retire"] OBVIOUS
  <2>2. q \in Environment BY Names, <1>4, <2>1 DEF Environment
  <2>3. q.progress = "clean" /\ q.phase = "Retiring" /\ q.pc = "retire" /\ q.container = r.container /\ q.holder = r.holder /\ q.done = r.done
    BY <1>4, <2>1 DEF Environment
  <2>4. Sound(q) BY <1>4, <2>3 DEF Sound
  <2>5. Follows(r, q) BY <1>4, <1>0, <2>2, <2>3, <2>4 DEF Follows
  <2> QED BY <2>1, <2>5
<1>5. ASSUME r.pc = "init"
      PROVE  Follows(r, [r EXCEPT !.phase = "Idle", !.pc = "serve"])
  <2>1. PICK q : q = [r EXCEPT !.phase = "Idle", !.pc = "serve"] OBVIOUS
  <2>2. q \in Environment BY Names, <1>5, <2>1 DEF Environment
  <2>3. q.phase = "Idle" /\ q.pc = "serve" /\ q.progress = r.progress /\ q.container = r.container /\ q.holder = r.holder /\ q.done = r.done
    BY <1>5, <2>1 DEF Environment
  <2>4. Sound(q) BY <1>5, <2>3 DEF Sound
  <2>5. Follows(r, q) BY <1>5, <1>0, <2>2, <2>3, <2>4 DEF Follows
  <2> QED BY <2>1, <2>5
<1>6. ASSUME r.pc = "serve"
      PROVE  Follows(r, [r EXCEPT !.phase = "Busy", !.pc = "call", !.mail = FALSE])
  <2>1. PICK q : q = [r EXCEPT !.phase = "Busy", !.pc = "call", !.mail = FALSE] OBVIOUS
  <2>2. q \in Environment BY Names, <1>6, <2>1 DEF Environment
  <2>3. q.phase = "Busy" /\ q.pc = "call" /\ q.progress = r.progress /\ q.container = r.container /\ q.holder = r.holder /\ q.done = r.done
    BY <1>6, <2>1 DEF Environment
  <2>4. Sound(q) BY <1>6, <2>3 DEF Sound
  <2>5. Follows(r, q) BY <1>6, <1>0, <2>2, <2>3, <2>4 DEF Follows
  <2> QED BY <2>1, <2>5
<1>7. ASSUME r.pc = "call"
      PROVE  Follows(r, [r EXCEPT !.phase = "Idle", !.pc = "serve", !.result = "success"])
  <2>1. PICK q : q = [r EXCEPT !.phase = "Idle", !.pc = "serve", !.result = "success"] OBVIOUS
  <2>2. q \in Environment BY Names, <1>7, <2>1 DEF Environment
  <2>3. q.phase = "Idle" /\ q.pc = "serve" /\ q.progress = r.progress /\ q.container = r.container /\ q.holder = r.holder /\ q.done = r.done
    BY <1>7, <2>1 DEF Environment
  <2>4. Sound(q) BY <1>7, <2>3 DEF Sound
  <2>5. Follows(r, q) BY <1>7, <1>0, <2>2, <2>3, <2>4 DEF Follows
  <2> QED BY <2>1, <2>5
<1>8. ASSUME r.pc \in {"create", "issued", "init", "serve", "call"}
      PROVE  Follows(r, [r EXCEPT !.phase = "Retiring", !.mail = FALSE,
                             !.pc = IF r.pc = "call" THEN "retire_call" ELSE "retire",
                             !.result = IF r.mail THEN "failure" ELSE @])
  <2>1. PICK q : q = [r EXCEPT !.phase = "Retiring", !.mail = FALSE,
                             !.pc = IF r.pc = "call" THEN "retire_call" ELSE "retire",
                             !.result = IF r.mail THEN "failure" ELSE @] OBVIOUS
  <2>2. q \in Environment BY Names, <1>8, <2>1 DEF Environment
  <2>3. q.phase = "Retiring" /\ q.pc = (IF r.pc = "call" THEN "retire_call" ELSE "retire") /\ q.progress = r.progress /\ q.container = r.container /\ q.holder = r.holder /\ q.done = r.done
    BY <1>8, <2>1 DEF Environment
  <2>4. Sound(q) BY <1>8, <2>3 DEF Sound
  <2>5. Follows(r, q) BY <1>8, <1>0, <2>2, <2>3, <2>4 DEF Follows
  <2> QED BY <2>1, <2>5
<1> QED BY <1>1, <1>2, <1>3, <1>4, <1>5, <1>6, <1>7, <1>8, Zenon

\* what the pool does to a record: it stops it, posts a call and takes the answer
LEMMA PoolFollows ==
    ASSUME NEW r \in Environment, Sound(r)
    PROVE  /\ Follows(r, [r EXCEPT !.stop = TRUE])
           /\ Follows(r, [r EXCEPT !.result = "none"])
           /\ Follows(r, [r EXCEPT !.stop = TRUE, !.result = "none"])
           /\ Follows(r, [r EXCEPT !.mail = TRUE, !.result = "none"])
<1>0. TRUE OBVIOUS
<1>1. Follows(r, [r EXCEPT !.stop = TRUE])
  <2>1. PICK q : q = [r EXCEPT !.stop = TRUE] OBVIOUS
  <2>2. q \in Environment BY Names, <2>1 DEF Environment
  <2>3. q.phase = r.phase /\ q.holder = r.holder /\ q.pc = r.pc /\ q.progress = r.progress /\ q.container = r.container /\ q.done = r.done
    BY <2>1 DEF Environment
  <2>4. Sound(q) BY <2>3 DEF Sound
  <2>5. Follows(r, q) BY <1>0, <2>2, <2>3, <2>4 DEF Follows
  <2> QED BY <2>1, <2>5
<1>2. Follows(r, [r EXCEPT !.result = "none"])
  <2>1. PICK q : q = [r EXCEPT !.result = "none"] OBVIOUS
  <2>2. q \in Environment BY Names, <2>1 DEF Environment
  <2>3. q.phase = r.phase /\ q.holder = r.holder /\ q.pc = r.pc /\ q.progress = r.progress /\ q.container = r.container /\ q.done = r.done
    BY <2>1 DEF Environment
  <2>4. Sound(q) BY <2>3 DEF Sound
  <2>5. Follows(r, q) BY <1>0, <2>2, <2>3, <2>4 DEF Follows
  <2> QED BY <2>1, <2>5
<1>3. Follows(r, [r EXCEPT !.stop = TRUE, !.result = "none"])
  <2>1. PICK q : q = [r EXCEPT !.stop = TRUE, !.result = "none"] OBVIOUS
  <2>2. q \in Environment BY Names, <2>1 DEF Environment
  <2>3. q.phase = r.phase /\ q.holder = r.holder /\ q.pc = r.pc /\ q.progress = r.progress /\ q.container = r.container /\ q.done = r.done
    BY <2>1 DEF Environment
  <2>4. Sound(q) BY <2>3 DEF Sound
  <2>5. Follows(r, q) BY <1>0, <2>2, <2>3, <2>4 DEF Follows
  <2> QED BY <2>1, <2>5
<1>4. Follows(r, [r EXCEPT !.mail = TRUE, !.result = "none"])
  <2>1. PICK q : q = [r EXCEPT !.mail = TRUE, !.result = "none"] OBVIOUS
  <2>2. q \in Environment BY Names, <2>1 DEF Environment
  <2>3. q.phase = r.phase /\ q.holder = r.holder /\ q.pc = r.pc /\ q.progress = r.progress /\ q.container = r.container /\ q.done = r.done
    BY <2>1 DEF Environment
  <2>4. Sound(q) BY <2>3 DEF Sound
  <2>5. Follows(r, q) BY <1>0, <2>2, <2>3, <2>4 DEF Follows
  <2> QED BY <2>1, <2>5
<1> QED BY <1>1, <1>2, <1>3, <1>4, Zenon

\* Every step of an environment follows.
LEMMA StepFollows ==
    ASSUME EnvironmentsInv, NEW e \in Calls, EnvironmentStep(e)
    PROVE  AllFollow
<1>0. environments[e] \in Environment /\ Sound(environments[e]) BY DEF EnvironmentsInv
<1>1. CASE StartWorker(e)
  <2>0. environments[e].holder = "inbox" BY <1>1 DEF StartWorker
  <2>1. CASE Set(e, [environments[e] EXCEPT !.holder = "worker", !.pc = "create"])
    BY <1>0, <2>0, <2>1, InboxFollows, SetFollows, Zenon
  <2>2. CASE Set(e, Unstarted(environments[e], "ok"))
    BY <1>0, <2>0, <2>2, InboxFollows, SetFollows, Zenon
  <2> QED BY <1>1, <2>1, <2>2 DEF StartWorker
<1>2. CASE Finished(e)
  <2>1. PICK d \in {"ok", "err"} : Set(e, Gone(environments[e], d)) BY <1>2 DEF Finished
  <2>2. environments[e].pc = "done" /\ environments[e].holder # "none"
    BY <1>2 DEF Finished, Registered
  <2>3. Follows(environments[e], Gone(environments[e], d)) BY <1>0, <2>2, GoneFollows
  <2> QED BY <2>1, <2>3, SetFollows, Zenon
<1>3. CASE WorkerPanics(e)
  <2>1. environments[e].holder \in {"worker", "recovery", "emergency"}
    BY <1>3 DEF WorkerPanics, Registered
  <2>2. Set(e, [Dropped(WorkerFailed(environments[e])) EXCEPT !.holder = "recovery"])
    BY <1>3, Zenon DEF WorkerPanics
  <2> QED BY <1>0, <2>1, <2>2, RegisteredFollows, SetFollows, Zenon
<1>4. CASE RecoveredAll(e)
  <2>1. Set(e, Gone(environments[e], environments[e].done)) BY <1>4 DEF RecoveredAll
  <2>2. /\ environments[e].pc = "done" /\ environments[e].holder # "none"
        /\ environments[e].done \in {"none", "ok", "err"}
    BY <1>0, <1>4 DEF RecoveredAll, Environment, Announcements
  <2>3. Follows(environments[e], Gone(environments[e], environments[e].done))
    BY <1>0, <2>2, GoneFollows
  <2> QED BY <2>1, <2>3, SetFollows, Zenon
<1>5. CASE Create(e)
  <2>0. environments[e].holder = "worker" /\ environments[e].pc = "create"
    BY <1>5 DEF Create, WorkerAt
  <2>1. CASE Set(e, [environments[e] EXCEPT !.progress = "uncertain", !.container = "inflight",
                                            !.pc = "issued"])
    BY <1>0, <2>0, <2>1, WorkerFollows, SetFollows, Zenon
  <2>2. CASE Set(e, [environments[e] EXCEPT !.progress = "uncertain", !.phase = "Retiring",
                                            !.pc = "retire"])
    BY <1>0, <2>0, <2>2, WorkerFollows, SetFollows, Zenon
  <2> QED BY <1>5, <2>1, <2>2 DEF Create
<1>6. CASE Answered(e)
  <2>0. environments[e].holder = "worker" /\ environments[e].pc = "issued"
    BY <1>6 DEF Answered, WorkerAt
  <2>1. CASE /\ environments[e].container = "exists"
             /\ Set(e, [environments[e] EXCEPT !.progress = "known", !.phase = "Initializing",
                                               !.pc = "init"])
    BY <1>0, <2>0, <2>1, WorkerFollows, SetFollows, Zenon
  <2>2. CASE /\ environments[e].container = "refused"
             /\ Set(e, [environments[e] EXCEPT !.progress = "clean", !.phase = "Retiring",
                                               !.pc = "retire"])
    BY <1>0, <2>0, <2>2, WorkerFollows, SetFollows, Zenon
  <2> QED BY <1>6, <2>1, <2>2 DEF Answered
<1>7. CASE BootstrapReady(e)
  BY <1>0, <1>7, WorkerFollows, SetFollows, Zenon DEF BootstrapReady, WorkerAt
<1>8. CASE TakeCall(e)
  BY <1>0, <1>8, WorkerFollows, SetFollows, Zenon DEF TakeCall, WorkerAt
<1>9. CASE CallSucceeds(e)
  BY <1>0, <1>9, WorkerFollows, SetFollows, Zenon DEF CallSucceeds, WorkerAt
<1>10. CASE GiveUp(e)
  <2>1. /\ environments[e].holder = "worker"
        /\ environments[e].pc \in {"create", "issued", "init", "serve", "call"}
    BY <1>10 DEF GiveUp, WorkerAt
  <2> QED BY <1>0, <1>10, <2>1, WorkerFollows, SetFollows, Zenon DEF GiveUp
<1>11. CASE Settle(e)
  BY <1>0, <1>11, CleanerFollows, SetFollows, Zenon
  DEF Settle, DefinitelyAbsent, Cleaning, Registered
<1>12. CASE RemoveContainer(e)
  BY <1>0, <1>12, CleanerFollows, SetFollows, Zenon DEF RemoveContainer, Cleaning, Registered
<1>13. CASE CleanFails(e)
  BY <1>0, <1>13, CleanerFollows, SetFollows, Zenon DEF CleanFails, Cleaning, Registered
<1>14. CASE DockerCreates(e)
  BY <1>0, <1>14, DaemonFollows, SetFollows, Zenon DEF DockerCreates
<1> QED BY <1>1, <1>2, <1>3, <1>4, <1>5, <1>6, <1>7, <1>8, <1>9, <1>10, <1>11, <1>12, <1>13,
           <1>14 DEF EnvironmentStep

\* The manager's steps follow.
LEMMA ManagerFollows ==
    ASSUME EnvironmentsInv, ManagerStep
    PROVE  AllFollow
<1>1. CASE Stopping
  <2>1. environments' = [e \in Calls |-> Disposed(e)] BY <1>1 DEF Stopping
  <2>2. ASSUME NEW e \in Calls PROVE Follows(environments[e], Disposed(e))
    <3>0. environments[e] \in Environment /\ Sound(environments[e]) BY DEF EnvironmentsInv
    <3>1. CASE environments[e].holder = "inbox"
      <4>1. PICK d \in {"ok", "err"} : Disposed(e) = Unstarted(environments[e], d)
        BY <3>1 DEF Disposed
      <4> QED BY <3>0, <3>1, <4>1, InboxFollows, Zenon
    <3>2. CASE environments[e].holder # "inbox" /\ ~Registered(e)
      <4>1. Disposed(e) = environments[e] BY <3>2 DEF Disposed
      <4> QED BY <3>0, <4>1, SameFollows, Zenon
    <3>3. CASE environments[e].holder # "inbox" /\ Registered(e)
      <4>1. \/ Disposed(e) = WorkerFailed(environments[e])
            \/ Disposed(e) = [environments[e] EXCEPT !.stop = TRUE]
        BY <3>3, Zenon DEF Disposed
      <4> QED BY <3>0, <3>3, <4>1, RegisteredFollows, Zenon DEF Registered
    <3> QED BY <3>1, <3>2, <3>3
  <2> QED BY <2>1, <2>2 DEF AllFollow, Follows
<1>2. CASE WireStops \/ Settles BY <1>2, UnchangedFollows DEF WireStops, Settles
<1>3. CASE DropManager
  <2>1. environments' = [e \in Calls |-> Rescued(e)] BY <1>3 DEF DropManager
  <2>2. ASSUME NEW e \in Calls PROVE Follows(environments[e], Rescued(e))
    <3>0. environments[e] \in Environment /\ Sound(environments[e]) BY DEF EnvironmentsInv
    <3>1. CASE environments[e].holder = "inbox"
      BY <3>0, <3>1, InboxFollows, Zenon DEF Rescued
    <3>2. CASE environments[e].holder # "inbox" /\ ~Registered(e)
      <4>1. Rescued(e) = environments[e] BY <3>2 DEF Rescued
      <4> QED BY <3>0, <4>1, SameFollows, Zenon
    <3>3. CASE environments[e].holder # "inbox" /\ Registered(e)
      BY <3>0, <3>3, RegisteredFollows, Zenon DEF Registered, Rescued
    <3> QED BY <3>1, <3>2, <3>3
  <2> QED BY <2>1, <2>2 DEF AllFollow, Follows
<1> QED BY <1>1, <1>2, <1>3 DEF ManagerStep

-----------------------------------------------------------------------------
(* The pool.                                                                *)

JobKinds == {"none", "invoke", "retire"}
JobCounters == {"none", "ready", "busy", "offered", "warm", "retire", "complete"}
Lanes == {"open", "error", "offer", "closed"}
CallerPlaces == {"new", "queued", "job", "gone"}
Lives == {"runs", "settled", "dropped"}
Loop == {"top", "dispatch", "select"}

JobRecord == [kind : JobKinds, call : Calls \cup {Nobody}, pc : JobCounters, failed : BOOLEAN]
Caller == [at : CallerPlaces, key : Nat, expired : BOOLEAN, cancelled : BOOLEAN, waiting : BOOLEAN,
           consumed : BOOLEAN, lane : Lanes, settlement : Announcements,
           env : Calls \cup {Nobody}]
Pool == [pc : Loop, life : Lives, stop : BOOLEAN, stopping : BOOLEAN, failed : BOOLEAN,
         pending : Seq(Calls), warm : Seq(Calls), eviction : Calls \cup {Nobody}]

\* The values of the pool's fields, as sets that need not be expanded.
LEMMA PoolNames ==
    /\ {"none", "invoke", "retire"} \subseteq JobKinds
    /\ {"none", "ready", "busy", "offered", "warm", "retire", "complete"} \subseteq JobCounters
    /\ {"open", "error", "offer", "closed"} \subseteq Lanes
    /\ {"new", "queued", "job", "gone"} \subseteq CallerPlaces
    /\ {"runs", "settled", "dropped"} \subseteq Lives
    /\ {"top", "dispatch", "select"} \subseteq Loop
BY DEF JobKinds, JobCounters, Lanes, CallerPlaces, Lives, Loop

TypesInv == pool \in Pool /\ jobs \in [Calls -> JobRecord] /\ callers \in [Calls -> Caller]

\* a call that has not been dispatched: its environment does not exist
Unborn(c) == callers[c].at \in {"new", "queued"}

PendingInv ==
    /\ IsInjective(pool.pending)
    /\ \A c \in Range(pool.pending) : callers[c].at = "queued"

WarmInv ==
    /\ IsInjective(pool.warm)
    /\ \A e \in Range(pool.warm) : jobs[e].pc = "none" /\ ~Unborn(e)

\* until its removal is announced, an environment has a job or is warm
HandleKept(e) ==
    Held(e) /\ environments[e].done = "none" => jobs[e].pc # "none" \/ e \in Range(pool.warm)

\* A job with a call has the environment of its call; it is complete when the
\* removal was announced, and wants its environment kept when the result was
\* consumed.
JobInv(e) ==
    /\ jobs[e].pc = "none" => jobs[e] = NoJob
    /\ jobs[e].pc # "none" => ~Unborn(e)
    /\ jobs[e].kind = "invoke" => jobs[e].call # Nobody
    /\ jobs[e].call # Nobody =>
           callers[jobs[e].call].env = e /\ callers[jobs[e].call].at = "job"
    /\ jobs[e].pc = "warm" => jobs[e].call # Nobody /\ callers[jobs[e].call].consumed
    /\ jobs[e].pc = "complete" => environments[e].done # "none"

SettledCall(r) == r.settlement # "none" \/ r.lane = "error"

CallerInv(c) ==
    /\ callers[c].consumed => ~callers[c].waiting
    /\ Unborn(c) => /\ callers[c].env = Nobody /\ ~callers[c].consumed
                    /\ environments[c].phase = "None" /\ ~SettledCall(callers[c])
    /\ callers[c].env # Nobody => ~Unborn(callers[c].env)
    /\ callers[c].env # Nobody /\ ~callers[c].consumed /\ SettledCall(callers[c]) =>
           environments[callers[c].env].done # "none"

PoolInv ==
    /\ EnvironmentsInv
    /\ TypesInv
    /\ PendingInv
    /\ WarmInv
    /\ \A e \in Calls : HandleKept(e)
    /\ \A e \in Calls : JobInv(e)
    /\ \A c \in Calls : CallerInv(c)

\* No call is mistaken for nobody.
LEMMA CallsNotNobody == Nobody \notin Calls /\ Calls \subseteq Nat
BY EnvironmentsAssumption DEF Nobody

\* The records a call and a job start with.
LEMMA NewRecords ==
    /\ NoJob \in JobRecord /\ NoJob.pc = "none" /\ NoJob.kind = "none" /\ NoJob.call = Nobody
    /\ NewCall \in Caller /\ NewCall.at = "new" /\ NewCall.env = Nobody /\ NewCall.consumed = FALSE
    /\ Maintenance \in JobRecord /\ Maintenance.pc = "retire" /\ Maintenance.kind = "retire"
    /\ Maintenance.call = Nobody
BY PoolNames, Names DEF NoJob, JobRecord, NewCall, Caller, Maintenance, Nobody

\* A caller's record that keeps its place.
Steady(r, q) ==
    /\ q.env = r.env /\ q.at = r.at /\ (r.consumed => q.consumed)
    /\ q.settlement = r.settlement /\ (q.lane = "error" => r.lane = "error")
    /\ (q.consumed => ~q.waiting) /\ (q.consumed => r.at \notin {"new", "queued"})

Placed(r, q) == q.env = r.env /\ q.at = r.at /\ (r.consumed => q.consumed)

\* A steady caller keeps its part of the invariant.
LEMMA SteadyCaller ==
    ASSUME PoolInv, AllFollow, NEW c \in Calls, Steady(callers[c], callers'[c]),
           \A d \in Calls : Unborn(d)' => Unborn(d)
    PROVE  CallerInv(c)'
<1>0. CallerInv(c) /\ callers[c].env \in Calls \cup {Nobody} BY DEF PoolInv, TypesInv, Caller
<1>1. Unborn(c)' <=> Unborn(c) BY DEF Steady, Unborn
<1>2. callers'[c].consumed => ~callers'[c].waiting BY DEF Steady
<1>3. Unborn(c)' => /\ callers'[c].env = Nobody /\ ~callers'[c].consumed
                    /\ environments'[c].phase = "None" /\ ~SettledCall(callers'[c])
  BY <1>0, <1>1 DEF Steady, CallerInv, AllFollow, Follows, Unborn, SettledCall
<1>4. callers'[c].env # Nobody => ~Unborn(callers[c].env)'
  BY <1>0 DEF Steady, CallerInv
<1>5. callers'[c].env # Nobody /\ ~callers'[c].consumed /\ SettledCall(callers'[c]) =>
           environments'[callers'[c].env].done # "none"
  BY <1>0 DEF Steady, CallerInv, SettledCall, AllFollow, Follows
<1>6. callers'[c].env # Nobody => ~Unborn(callers[c].env)' BY <1>4
<1> QED BY <1>2, <1>3, <1>5, <1>6 DEF CallerInv, Steady, Unborn

NoRebirth == \A c \in Calls : Unborn(c)' => Unborn(c)
AllSteady == \A c \in Calls : Steady(callers[c], callers'[c])

\* A job that goes on, or is replaced by one that retires the environment.
Moves(e) ==
    /\ jobs[e].pc # "none" /\ jobs'[e].pc # "none"
    /\ jobs'[e].kind = "invoke" => jobs'[e].call # Nobody
    /\ jobs'[e].call # Nobody => jobs'[e].call = jobs[e].call
    /\ jobs'[e].pc = "warm" => jobs'[e].call # Nobody /\ callers'[jobs'[e].call].consumed
    /\ jobs'[e].pc = "complete" => environments[e].done # "none"

\* A job that stays keeps its part of the invariant.
LEMMA SameJob ==
    ASSUME PoolInv, AllFollow, NoRebirth, NEW e \in Calls, jobs'[e] = jobs[e],
           jobs[e].call # Nobody => Placed(callers[jobs[e].call], callers'[jobs[e].call])
    PROVE  JobInv(e)'
<1>0. JobInv(e) BY DEF PoolInv
<1>1. jobs'[e].pc # "none" => ~Unborn(e)' BY <1>0 DEF JobInv, NoRebirth
<1>2. jobs'[e].pc = "complete" => environments'[e].done # "none"
  BY <1>0 DEF JobInv, AllFollow, Follows
<1> QED BY <1>0, <1>1, <1>2 DEF JobInv, Placed

\* A job that moves on keeps its part of the invariant.
LEMMA MovedJob ==
    ASSUME PoolInv, AllFollow, NoRebirth, NEW e \in Calls, Moves(e),
           jobs'[e].call # Nobody => Placed(callers[jobs[e].call], callers'[jobs[e].call])
    PROVE  JobInv(e)'
<1>0. JobInv(e) BY DEF PoolInv
<1>1. jobs'[e].pc # "none" => ~Unborn(e)' BY <1>0 DEF JobInv, NoRebirth, Moves
<1>2. jobs'[e].pc = "complete" => environments'[e].done # "none"
  BY DEF Moves, AllFollow, Follows
<1> QED BY <1>0, <1>1, <1>2 DEF JobInv, Placed, Moves

\* Steady records are not born again.
LEMMA SteadyNoRebirth == ASSUME AllSteady PROVE NoRebirth
BY DEF AllSteady, NoRebirth, Steady, Unborn

\* Sound records that follow stay sound.
LEMMA FollowedEnvironments ==
    ASSUME AllFollow PROVE EnvironmentsInv'
BY DEF AllFollow, Follows, EnvironmentsInv

\* A handle is still kept when its environment follows and its place is not lost.
LEMMA FollowedHandle ==
    ASSUME PoolInv, AllFollow, NEW e \in Calls,
           \/ environments[e].done # "none"
           \/ jobs[e].pc # "none" \/ e \in Range(pool.warm) =>
                 jobs'[e].pc # "none" \/ e \in Range(pool'.warm)
    PROVE  HandleKept(e)'
<1>1. HandleKept(e) BY DEF PoolInv
<1>2. Follows(environments[e], environments'[e]) BY DEF AllFollow
<1> QED BY <1>1, <1>2 DEF HandleKept, Held, Follows

\* Steps that leave the queues alone and every caller in its place.
LEMMA SteadyStep ==
    ASSUME PoolInv, AllFollow, TypesInv', AllSteady,
           pool'.pending = pool.pending, pool'.warm = pool.warm,
           \A e \in Calls : jobs'[e] = jobs[e] \/ Moves(e)
    PROVE  PoolInv'
<1>0. NoRebirth BY SteadyNoRebirth
<1>1. EnvironmentsInv' BY FollowedEnvironments
<1>a. Range(pool.pending) \subseteq Calls /\ Range(pool.warm) \subseteq Calls
  BY ElementsOf DEF PoolInv, TypesInv, Pool
<1>2. PendingInv'
  <2>1. \A c \in Range(pool.pending) : callers'[c].at = "queued"
    BY <1>a DEF PoolInv, PendingInv, AllSteady, Steady
  <2> QED BY <2>1 DEF PoolInv, PendingInv
<1>3. WarmInv'
  <2>1. ASSUME NEW e \in Range(pool.warm) PROVE jobs'[e].pc = "none" /\ ~Unborn(e)'
    <3>1. jobs[e].pc = "none" /\ ~Unborn(e) /\ e \in Calls BY <1>a DEF PoolInv, WarmInv
    <3>2. ~Moves(e) BY <3>1 DEF Moves
    <3> QED BY <3>1, <3>2, <1>0 DEF NoRebirth
  <2> QED BY <2>1 DEF PoolInv, WarmInv
<1>4. ASSUME NEW e \in Calls PROVE HandleKept(e)'
  <2>1. jobs[e].pc # "none" => jobs'[e].pc # "none" BY DEF Moves
  <2> QED BY <2>1, FollowedHandle
<1>5. ASSUME NEW e \in Calls PROVE JobInv(e)'
  <2>1. jobs[e].call \in Calls \cup {Nobody} BY DEF PoolInv, TypesInv, JobRecord
  <2>2. CASE jobs'[e] = jobs[e] BY <2>1, <2>2, <1>0, SameJob DEF AllSteady, Steady, Placed
  <2>3. CASE Moves(e)
    <3>1. jobs'[e].call # Nobody => jobs[e].call \in Calls BY <2>1, <2>3 DEF Moves
    <3> QED BY <3>1, <2>3, <1>0, MovedJob DEF AllSteady, Steady, Placed
  <2> QED BY <2>2, <2>3
<1>6. ASSUME NEW c \in Calls PROVE CallerInv(c)'
  BY <1>0, SteadyCaller DEF AllSteady, NoRebirth
<1> QED BY <1>1, <1>2, <1>3, <1>4, <1>5, <1>6 DEF PoolInv

\* A caller that stays keeps its part of the invariant.
LEMMA SameCaller ==
    ASSUME PoolInv, NEW c \in Calls PROVE Steady(callers[c], callers[c])
<1>1. CallerInv(c) BY DEF PoolInv
<1> QED BY <1>1 DEF CallerInv, Steady, Unborn

\* Callers that stay keep their part of the invariant.
LEMMA SameCallers ==
    ASSUME PoolInv, UNCHANGED callers PROVE AllSteady
BY SameCaller DEF AllSteady

\* A step of the owner, under the pool.
LEMMA OwnerStep ==
    ASSUME PoolInv, AllFollow, UNCHANGED <<pool, jobs, callers>>
    PROVE  PoolInv'
<1>1. TypesInv' BY DEF PoolInv, TypesInv
<1> QED BY <1>1, SteadyStep, SameCallers

\* One caller changes, and the others keep their part of the invariant.
LEMMA CallerSet ==
    ASSUME PoolInv, NEW c \in Calls, NEW q \in Caller, Steady(callers[c], q),
           callers' = [callers EXCEPT ![c] = q]
    PROVE  AllSteady /\ callers' \in [Calls -> Caller]
<1>1. callers \in [Calls -> Caller] BY DEF PoolInv, TypesInv
<1>2. callers' \in [Calls -> Caller] BY <1>1
<1>3. ASSUME NEW d \in Calls PROVE Steady(callers[d], callers'[d])
  <2>1. CASE d = c BY <1>1, <2>1
  <2>2. CASE d # c
    <3>1. callers'[d] = callers[d] BY <1>1, <2>2
    <3> QED BY <3>1, SameCaller
  <2> QED BY <2>1, <2>2
<1> QED BY <1>2, <1>3 DEF AllSteady

\* A caller's own steps.
LEMMA CallerSteps ==
    ASSUME PoolInv, NEW c \in Calls, Expire(c) \/ CancelCall(c) \/ Wait(c)
    PROVE  PoolInv'
<1>0. callers[c] \in Caller /\ callers \in [Calls -> Caller] /\ CallerInv(c)
  BY DEF PoolInv, TypesInv
<1>1. UNCHANGED <<environments, pool, jobs>>
  BY DEF Expire, CancelCall, Wait, environmentVars
<1>2. ASSUME NEW q \in Caller, Steady(callers[c], q), callers' = [callers EXCEPT ![c] = q]
      PROVE  PoolInv'
  <2>1. AllSteady /\ callers' \in [Calls -> Caller] BY <1>2, CallerSet
  <2>2. TypesInv' BY <2>1, <1>1 DEF PoolInv, TypesInv
  <2>3. EnvironmentsInv BY DEF PoolInv
  <2>4. AllFollow BY <1>1, <2>3, UnchangedFollows
  <2> QED BY <2>1, <2>2, <2>4, <1>1, SteadyStep
<1>3. CASE Expire(c)
  <2>1. PICK q : q = [callers[c] EXCEPT !.expired = TRUE] OBVIOUS
  <2>2. q \in Caller BY <1>0, <2>1 DEF Caller
  <2>3. /\ q.env = callers[c].env /\ q.at = callers[c].at /\ q.consumed = callers[c].consumed
        /\ q.settlement = callers[c].settlement /\ q.lane = callers[c].lane
        /\ q.waiting = callers[c].waiting
    BY <1>0, <2>1 DEF Caller
  <2>4. Steady(callers[c], q) BY <1>0, <2>3 DEF Steady, CallerInv, Unborn
  <2>5. callers' = [callers EXCEPT ![c] = q] BY <1>0, <1>3, <2>1 DEF Expire
  <2> QED BY <2>2, <2>4, <2>5, <1>2
<1>4. CASE CancelCall(c)
  <2>1. PICK q : q = [callers[c] EXCEPT !.cancelled = TRUE, !.waiting = FALSE] OBVIOUS
  <2>2. q \in Caller BY <1>0, <2>1 DEF Caller
  <2>3. /\ q.env = callers[c].env /\ q.at = callers[c].at /\ q.consumed = callers[c].consumed
        /\ q.settlement = callers[c].settlement /\ q.lane = callers[c].lane
        /\ q.waiting = FALSE
    BY <1>0, <2>1 DEF Caller
  <2>4. Steady(callers[c], q) BY <1>0, <2>3 DEF Steady, CallerInv, Unborn
  <2>5. callers' = [callers EXCEPT ![c] = q] BY <1>0, <1>4, <2>1 DEF CancelCall
  <2> QED BY <2>2, <2>4, <2>5, <1>2
<1>5. CASE Wait(c)
  <2>0. PICK b \in BOOLEAN :
            b = (callers[c].lane = "offer" /\ ~callers[c].expired /\ ReceiptOpen(c)) OBVIOUS
  <2>1. PICK q : q = [callers[c] EXCEPT !.waiting = FALSE, !.consumed = b] OBVIOUS
  <2>2. q \in Caller BY <1>0, <2>1 DEF Caller
  <2>3. /\ q.env = callers[c].env /\ q.at = callers[c].at /\ q.consumed = b
        /\ q.settlement = callers[c].settlement /\ q.lane = callers[c].lane
        /\ q.waiting = FALSE
    BY <1>0, <2>1 DEF Caller
  <2>4. callers[c].waiting BY <1>5 DEF Wait
  <2>5. b => ~Unborn(c)
    <3>1. ASSUME b PROVE ~Unborn(c)
      <4>1. PICK e \in Calls : jobs[e].call = c /\ jobs[e].pc = "offered"
        BY <2>0, <3>1 DEF ReceiptOpen
      <4>2. JobInv(e) BY DEF PoolInv
      <4>3. callers[c].at = "job" BY <4>1, <4>2, CallsNotNobody DEF JobInv
      <4> QED BY <4>3 DEF Unborn
    <3> QED BY <3>1
  <2>6. Steady(callers[c], q) BY <1>0, <2>3, <2>4, <2>5 DEF Steady, CallerInv, Unborn
  <2>7. callers' = [callers EXCEPT ![c] = q] BY <1>0, <1>5, <2>0, <2>1 DEF Wait
  <2> QED BY <2>2, <2>6, <2>7, <1>2
<1> QED BY <1>3, <1>4, <1>5

\* Stopping the pool keeps the invariant.
LEMMA StopPoolStep ==
    ASSUME PoolInv, StopPool \/ DispatchEnds PROVE PoolInv'
<1>1. pool' \in Pool /\ pool'.pending = pool.pending /\ pool'.warm = pool.warm
  BY PoolNames DEF PoolInv, TypesInv, Pool, StopPool, DispatchEnds
<1>2. UNCHANGED <<environments, jobs, callers>> BY DEF StopPool, DispatchEnds, environmentVars
<1>3. AllFollow BY <1>2, UnchangedFollows DEF PoolInv
<1>4. TypesInv' BY <1>1, <1>2 DEF PoolInv, TypesInv
<1> QED BY <1>1, <1>2, <1>3, <1>4, SameCallers, SteadyStep

\* A job that goes on with its call.
LEMMA JobSteps ==
    ASSUME PoolInv, NEW e \in Calls, AllFollow, AllSteady, callers' \in [Calls -> Caller],
           NEW pc \in JobCounters \ {"none", "complete"}, jobs[e].kind = "invoke",
           jobs[e].pc # "none", pc = "warm" => callers[jobs[e].call].consumed,
           GotoJob(e, pc), UNCHANGED pool
    PROVE  PoolInv'
<1>0. jobs[e] \in JobRecord /\ jobs \in [Calls -> JobRecord] /\ JobInv(e)
  BY DEF PoolInv, TypesInv
<1>1. PICK q : q = [jobs[e] EXCEPT !.pc = pc] OBVIOUS
<1>2. q \in JobRecord /\ q.pc = pc /\ q.kind = jobs[e].kind /\ q.call = jobs[e].call
  BY <1>0, <1>1 DEF JobRecord
<1>3. jobs' = [jobs EXCEPT ![e] = q] BY <1>0, <1>1 DEF GotoJob
<1>4. TypesInv' BY <1>0, <1>2, <1>3 DEF PoolInv, TypesInv
<1>5. jobs'[e] = q BY <1>0, <1>3
<1>6. jobs[e].call # Nobody /\ jobs[e].call \in Calls BY <1>0 DEF JobInv, JobRecord
<1>7. pc = "warm" => callers'[jobs[e].call].consumed BY <1>6 DEF AllSteady, Steady
<1>8. Moves(e) BY <1>2, <1>5, <1>6, <1>7 DEF Moves
<1>9. \A d \in Calls : d # e => jobs'[d] = jobs[d] BY <1>0, <1>3
<1> QED BY <1>4, <1>8, <1>9, SteadyStep

\* A job that gives up keeps the invariant.
LEMMA AbandonStep ==
    ASSUME PoolInv, NEW e \in Calls, jobs[e].kind = "invoke", jobs[e].pc # "none", Abandon(e)
    PROVE  PoolInv'
<1>0. environments[e] \in Environment /\ Sound(environments[e]) /\ EnvironmentsInv
  BY DEF PoolInv, EnvironmentsInv
<1>1. Set(e, [environments[e] EXCEPT !.stop = TRUE, !.result = "none"]) BY DEF Abandon
<1>2. AllFollow BY <1>0, <1>1, PoolFollows, SetFollows, Zenon
<1>3. GotoJob(e, "retire") /\ UNCHANGED <<pool, callers>> BY DEF Abandon
<1>4. "retire" \in JobCounters \ {"none", "complete"} BY PoolNames
<1>5. AllSteady /\ callers' \in [Calls -> Caller] BY <1>3, SameCallers DEF PoolInv, TypesInv
<1> QED BY <1>2, <1>3, <1>4, <1>5, JobSteps

\* The steps of a job keep the invariant.
LEMMA InvokeSteps ==
    ASSUME PoolInv, NEW e \in Calls, WaitReady(e) \/ Invoked(e) \/ Receipt(e)
    PROVE  PoolInv'
<1>0. environments[e] \in Environment /\ Sound(environments[e]) /\ EnvironmentsInv
  BY DEF PoolInv, EnvironmentsInv
<1>1. jobs[e].kind = "invoke" /\ jobs[e].pc # "none" /\ jobs[e].call \in Calls
  <2>1. jobs[e].kind = "invoke" /\ jobs[e].pc # "none"
    BY DEF WaitReady, Invoked, Receipt, Job
  <2>2. JobInv(e) /\ jobs[e] \in JobRecord BY DEF PoolInv, TypesInv
  <2> QED BY <2>1, <2>2 DEF JobInv, JobRecord
<1>2. {"busy", "offered", "warm"} \subseteq JobCounters \ {"none", "complete"} BY PoolNames
<1>3. CASE Abandon(e) BY <1>1, <1>3, AbandonStep
<1>4. CASE /\ Set(e, [environments[e] EXCEPT !.mail = TRUE, !.result = "none"])
           /\ GotoJob(e, "busy") /\ UNCHANGED <<manager, faults, pool, callers>>
  <2>1. AllFollow BY <1>0, <1>4, PoolFollows, SetFollows, Zenon
  <2>2. AllSteady /\ callers' \in [Calls -> Caller] BY <1>4, SameCallers DEF PoolInv, TypesInv
  <2> QED BY <1>1, <1>2, <1>4, <2>1, <2>2, JobSteps
<1>5. CASE /\ callers' = [callers EXCEPT ![jobs[e].call].lane = "offer"]
           /\ GotoJob(e, "offered")
           /\ Set(e, [environments[e] EXCEPT !.result = "none"])
           /\ UNCHANGED <<manager, faults, pool>>
  <2>1. AllFollow BY <1>0, <1>5, PoolFollows, SetFollows, Zenon
  <2>2. PICK c \in Calls : c = jobs[e].call BY <1>1
  <2>3. callers[c] \in Caller /\ callers \in [Calls -> Caller] /\ CallerInv(c)
    BY DEF PoolInv, TypesInv
  <2>4. PICK q : q = [callers[c] EXCEPT !.lane = "offer"] OBVIOUS
  <2>5. q \in Caller BY <2>3, <2>4, PoolNames DEF Caller
  <2>6. /\ q.env = callers[c].env /\ q.at = callers[c].at /\ q.consumed = callers[c].consumed
        /\ q.settlement = callers[c].settlement /\ q.lane = "offer"
        /\ q.waiting = callers[c].waiting
    BY <2>3, <2>4 DEF Caller
  <2>7. Steady(callers[c], q) BY <2>3, <2>6 DEF Steady, CallerInv, Unborn
  <2>8. callers' = [callers EXCEPT ![c] = q] BY <1>5, <2>2, <2>3, <2>4
  <2>9. AllSteady /\ callers' \in [Calls -> Caller] BY <2>5, <2>7, <2>8, CallerSet
  <2> QED BY <1>1, <1>2, <1>5, <2>1, <2>9, JobSteps
<1>6. CASE /\ callers[jobs[e].call].consumed /\ GotoJob(e, "warm")
           /\ UNCHANGED <<environmentVars, pool, callers>>
  <2>1. AllFollow BY <1>0, <1>6, UnchangedFollows DEF environmentVars
  <2>2. AllSteady /\ callers' \in [Calls -> Caller] BY <1>6, SameCallers DEF PoolInv, TypesInv
  <2> QED BY <1>1, <1>2, <1>6, <2>1, <2>2, JobSteps
<1> QED BY <1>3, <1>4, <1>5, <1>6, Zenon DEF WaitReady, Invoked, Receipt

\* A caller that is answered or published once its environment is gone, or
\* its result was consumed.
LEMMA SettledCaller ==
    ASSUME PoolInv, AllFollow, NoRebirth, NEW c \in Calls, ~Unborn(c),
           callers'[c].at \notin {"new", "queued"},
           callers'[c].env = callers[c].env, callers'[c].consumed = callers[c].consumed,
           callers'[c].waiting = callers[c].waiting,
           \/ callers[c].consumed
           \/ callers[c].env # Nobody => environments[callers[c].env].done # "none"
    PROVE  CallerInv(c)'
<1>0. CallerInv(c) /\ callers[c].env \in Calls \cup {Nobody} BY DEF PoolInv, TypesInv, Caller
<1>1. ~Unborn(c)' BY DEF Unborn
<1>2. callers'[c].consumed => ~callers'[c].waiting BY <1>0 DEF CallerInv
<1>3. callers'[c].env # Nobody => ~Unborn(callers[c].env)' BY <1>0 DEF CallerInv, NoRebirth
<1>4. callers'[c].env # Nobody /\ ~callers'[c].consumed =>
           environments'[callers'[c].env].done # "none"
  BY <1>0 DEF AllFollow, Follows
<1> QED BY <1>1, <1>2, <1>3, <1>4 DEF CallerInv, Unborn

\* What the queues hold are calls.
LEMMA QueuesAreCalls ==
    ASSUME PoolInv
    PROVE  /\ pool.pending \in Seq(Calls) /\ pool.warm \in Seq(Calls)
           /\ Range(pool.pending) \subseteq Calls /\ Range(pool.warm) \subseteq Calls
<1>1. pool.pending \in Seq(Calls) /\ pool.warm \in Seq(Calls) BY DEF PoolInv, TypesInv, Pool
<1> QED BY <1>1, ElementsOf

\* A call that is sent keeps the invariant.
LEMMA StartCallStep ==
    ASSUME PoolInv, NEW c \in Calls, NEW k \in Calls, StartCall(c, k) PROVE PoolInv'
<1>0. callers[c] \in Caller /\ callers \in [Calls -> Caller] /\ CallerInv(c) /\ pool \in Pool
  BY DEF PoolInv, TypesInv
<1>1. UNCHANGED <<environments, jobs>> /\ callers[c].at = "new"
  BY DEF StartCall, environmentVars
<1>2. PICK q : q = [callers[c] EXCEPT !.at = "queued", !.waiting = TRUE, !.key = k] OBVIOUS
<1>3. q \in Caller BY <1>0, <1>2, CallsNotNobody, PoolNames DEF Caller
<1>4. /\ q.at = "queued" /\ q.env = callers[c].env /\ q.consumed = callers[c].consumed
      /\ q.settlement = callers[c].settlement /\ q.lane = callers[c].lane
  BY <1>0, <1>2 DEF Caller
<1>5. callers' = [callers EXCEPT ![c] = q] BY <1>0, <1>2 DEF StartCall
<1>6. callers' \in [Calls -> Caller] /\ callers'[c] = q /\ \A d \in Calls : d # c => callers'[d] = callers[d]
  BY <1>0, <1>3, <1>5
<1>7. pool' \in Pool /\ pool'.pending = Append(pool.pending, c) /\ pool'.warm = pool.warm
  <2>1. PICK queue \in Seq(Calls) : queue = Append(pool.pending, c)
    BY QueuesAreCalls, AppendRange
  <2>2. pool' = [pool EXCEPT !.pending = queue] BY <2>1 DEF StartCall
  <2> QED BY <1>0, <2>1, <2>2 DEF Pool
<1>8. TypesInv' BY <1>1, <1>6, <1>7 DEF PoolInv, TypesInv
<1>9. AllFollow BY <1>1, UnchangedFollows DEF PoolInv
<1>10. NoRebirth BY <1>1, <1>6 DEF NoRebirth, Unborn
<1>11. PendingInv'
  <2>1. c \notin Range(pool.pending) BY <1>1 DEF PoolInv, PendingInv
  <2>2. IsInjective(pool'.pending) /\ Range(pool'.pending) = Range(pool.pending) \cup {c}
    BY <1>7, <2>1, QueuesAreCalls, AppendRange DEF PoolInv, PendingInv
  <2>3. \A d \in Range(pool'.pending) : callers'[d].at = "queued"
    BY <2>2, <1>4, <1>6, QueuesAreCalls DEF PoolInv, PendingInv
  <2> QED BY <2>2, <2>3 DEF PendingInv
<1>12. WarmInv'
  <2>1. \A e \in Range(pool.warm) : jobs'[e].pc = "none" /\ ~Unborn(e)'
    BY <1>1, <1>10, QueuesAreCalls DEF PoolInv, WarmInv, NoRebirth
  <2> QED BY <2>1, <1>7 DEF PoolInv, WarmInv
<1>13. ASSUME NEW e \in Calls PROVE HandleKept(e)' BY <1>1, <1>7, <1>9, FollowedHandle
<1>14. ASSUME NEW e \in Calls PROVE JobInv(e)'
  <2>1. jobs[e].call # Nobody => jobs[e].call \in Calls /\ jobs[e].call # c
    BY <1>1 DEF PoolInv, JobInv, TypesInv, JobRecord
  <2>2. jobs[e].call # Nobody => Placed(callers[jobs[e].call], callers'[jobs[e].call])
    BY <2>1, <1>6 DEF Placed
  <2> QED BY <2>2, <1>1, <1>9, <1>10, SameJob
<1>15. ASSUME NEW d \in Calls PROVE CallerInv(d)'
  <2>1. CASE d = c
    BY <2>1, <1>0, <1>1, <1>4, <1>6 DEF CallerInv, Unborn, SettledCall
  <2>2. CASE d # c
    <3>1. Steady(callers[d], callers'[d]) BY <2>2, <1>6, SameCaller
    <3> QED BY <3>1, <1>9, <1>10, SteadyCaller DEF NoRebirth
  <2> QED BY <2>1, <2>2
<1>16. EnvironmentsInv' BY <1>9, FollowedEnvironments
<1> QED BY <1>8, <1>11, <1>12, <1>13, <1>14, <1>15, <1>16 DEF PoolInv

\* A retirement that ends keeps the invariant.
LEMMA JobRetiredStep ==
    ASSUME PoolInv, NEW e \in Calls, JobRetired(e) PROVE PoolInv'
<1>0. /\ jobs[e] \in JobRecord /\ jobs \in [Calls -> JobRecord] /\ JobInv(e)
      /\ callers \in [Calls -> Caller]
  BY DEF PoolInv, TypesInv
<1>1. /\ UNCHANGED <<environments, pool>>
      /\ jobs[e].pc = "retire" /\ environments[e].done # "none"
  BY DEF JobRetired, environmentVars
<1>2. PICK b \in BOOLEAN : b = (jobs[e].failed \/ environments[e].done = "err") OBVIOUS
<1>3. PICK q : q = [jobs[e] EXCEPT !.pc = "complete", !.failed = b] OBVIOUS
<1>4. q \in JobRecord /\ q.pc = "complete" /\ q.kind = jobs[e].kind /\ q.call = jobs[e].call
  BY <1>0, <1>3, PoolNames DEF JobRecord
<1>5. jobs' = [jobs EXCEPT ![e] = q] BY <1>0, <1>2, <1>3 DEF JobRetired
<1>6. jobs' \in [Calls -> JobRecord] /\ jobs'[e] = q /\ \A d \in Calls : d # e => jobs'[d] = jobs[d]
  BY <1>0, <1>4, <1>5
<1>7. AllFollow BY <1>1, UnchangedFollows DEF PoolInv
<1>8. /\ callers' \in [Calls -> Caller]
      /\ \A c \in Calls :
           \/ callers'[c] = callers[c]
           \/ /\ c = jobs[e].call /\ c # Nobody
              /\ callers'[c].at = callers[c].at /\ callers'[c].env = callers[c].env
              /\ callers'[c].consumed = callers[c].consumed
              /\ callers'[c].waiting = callers[c].waiting
  <2>1. CASE jobs[e].kind = "invoke" /\ callers[jobs[e].call].lane = "open"
    <3>1. PICK c \in Calls : c = jobs[e].call /\ c # Nobody
      BY <1>0, <2>1 DEF JobInv, JobRecord
    <3>2. callers' = [callers EXCEPT ![c].lane = "error"] BY <2>1, <3>1 DEF JobRetired
    <3>3. PICK r : r = [callers[c] EXCEPT !.lane = "error"] OBVIOUS
    <3>4. callers[c] \in Caller BY <1>0
    <3>5. /\ r \in Caller /\ r.at = callers[c].at /\ r.env = callers[c].env
          /\ r.consumed = callers[c].consumed /\ r.waiting = callers[c].waiting
      BY <3>3, <3>4, PoolNames DEF Caller
    <3>6. callers' = [callers EXCEPT ![c] = r] BY <1>0, <3>2, <3>3
    <3>7. callers'[c] = r /\ \A d \in Calls : d # c => callers'[d] = callers[d] BY <1>0, <3>6
    <3> QED BY <1>0, <3>1, <3>5, <3>6, <3>7
  <2>2. CASE ~(jobs[e].kind = "invoke" /\ callers[jobs[e].call].lane = "open")
    BY <1>0, <2>2 DEF JobRetired
  <2> QED BY <2>1, <2>2
<1>9. TypesInv' BY <1>1, <1>6, <1>8 DEF PoolInv, TypesInv
<1>10. \A c \in Calls : Placed(callers[c], callers'[c]) BY <1>8 DEF Placed
<1>11. NoRebirth BY <1>10 DEF NoRebirth, Unborn, Placed
<1>12. PendingInv' BY <1>1, <1>10, QueuesAreCalls DEF PoolInv, PendingInv, Placed
<1>13. WarmInv'
  <2>1. \A d \in Range(pool.warm) : jobs'[d].pc = "none" /\ ~Unborn(d)'
    BY <1>1, <1>6, <1>11, QueuesAreCalls DEF PoolInv, WarmInv, NoRebirth
  <2> QED BY <2>1, <1>1 DEF PoolInv, WarmInv
<1>14. ASSUME NEW d \in Calls PROVE HandleKept(d)'
  BY <1>1, <1>4, <1>6, <1>7, FollowedHandle
<1>15. ASSUME NEW d \in Calls PROVE JobInv(d)'
  <2>1. jobs[d].call # Nobody => Placed(callers[jobs[d].call], callers'[jobs[d].call])
    BY <1>10 DEF PoolInv, TypesInv, JobRecord
  <2>2. CASE d = e
    <3>1. Moves(d) BY <1>0, <1>1, <1>4, <1>6, <2>2 DEF Moves, JobInv
    <3> QED BY <3>1, <2>1, <2>2, <1>4, <1>6, <1>7, <1>11, MovedJob
  <2>3. CASE d # e BY <2>1, <2>3, <1>6, <1>7, <1>11, SameJob
  <2> QED BY <2>2, <2>3
<1>16. ASSUME NEW c \in Calls PROVE CallerInv(c)'
  <2>1. CASE callers'[c] = callers[c]
    <3>1. Steady(callers[c], callers'[c]) BY <2>1, SameCaller
    <3> QED BY <3>1, <1>7, <1>11, SteadyCaller DEF NoRebirth
  <2>2. CASE callers'[c] # callers[c]
    <3>1. /\ c = jobs[e].call /\ c # Nobody
          /\ callers'[c].at = callers[c].at /\ callers'[c].env = callers[c].env
          /\ callers'[c].consumed = callers[c].consumed
          /\ callers'[c].waiting = callers[c].waiting
      BY <2>2, <1>8
    <3>2. callers[c].at = "job" /\ callers[c].env = e BY <3>1, <1>0 DEF JobInv
    <3>3. ~Unborn(c) BY <3>2 DEF Unborn
    <3> QED BY <3>1, <3>2, <3>3, <1>1, <1>7, <1>11, SettledCaller
  <2> QED BY <2>1, <2>2
<1>17. EnvironmentsInv' BY <1>7, FollowedEnvironments
<1> QED BY <1>9, <1>12, <1>13, <1>14, <1>15, <1>16, <1>17 DEF PoolInv

\* A cancelled environment follows.
LEMMA CancelFollows ==
    ASSUME EnvironmentsInv, NEW R, Cancel(R) PROVE AllFollow
<1>1. ASSUME NEW e \in Calls
      PROVE  environments'[e] \in Environment /\ Follows(environments[e], environments'[e])
  <2>0. environments[e] \in Environment /\ Sound(environments[e]) BY DEF EnvironmentsInv
  <2>1. CASE e \in R
    <3>1. environments'[e] = [environments[e] EXCEPT !.stop = TRUE] BY <2>1, Zenon DEF Cancel
    <3>2. Follows(environments[e], environments'[e]) BY <2>0, <3>1, PoolFollows, Zenon
    <3> QED BY <3>2 DEF Follows
  <2>2. CASE e \notin R
    <3>1. environments'[e] = environments[e] BY <2>2, Zenon DEF Cancel
    <3> QED BY <2>0, <3>1, SameFollows
  <2> QED BY <2>1, <2>2
<1>2. environments' = [e \in Calls |-> environments'[e]] BY Zenon DEF Cancel
<1>3. environments' \in [Calls -> Environment] BY <1>1, <1>2
<1> QED BY <1>1, <1>3 DEF AllFollow

\* The lane of a call whose job is lost is closed.
LEMMA ClosedLane ==
    ASSUME PoolInv, NEW c \in Calls
    PROVE  LET q == [callers[c] EXCEPT !.lane = "closed"]
           IN q \in Caller /\ Steady(callers[c], q)
<1>0. callers[c] \in Caller /\ CallerInv(c) BY DEF PoolInv, TypesInv
<1>1. PICK q : q = [callers[c] EXCEPT !.lane = "closed"] OBVIOUS
<1>2. q \in Caller BY <1>0, <1>1, PoolNames DEF Caller
<1>3. /\ q.env = callers[c].env /\ q.at = callers[c].at /\ q.consumed = callers[c].consumed
      /\ q.settlement = callers[c].settlement /\ q.lane = "closed"
      /\ q.waiting = callers[c].waiting
  BY <1>0, <1>1 DEF Caller
<1>4. Steady(callers[c], q) BY <1>0, <1>3 DEF Steady, CallerInv, Unborn
<1> QED BY <1>1, <1>2, <1>4, Zenon

\* A job that panics keeps the invariant.
LEMMA JobPanicsStep ==
    ASSUME PoolInv, NEW e \in Calls, JobPanics(e) PROVE PoolInv'
<1>0. /\ jobs[e] \in JobRecord /\ jobs \in [Calls -> JobRecord] /\ JobInv(e)
      /\ callers \in [Calls -> Caller] /\ pool \in Pool
  BY DEF PoolInv, TypesInv
<1>1. AllFollow BY CancelFollows DEF JobPanics, PoolInv
<1>2. jobs[e].pc # "none" BY <1>0 DEF JobPanics, JobInv
<1>3. PICK q : q = [jobs[e] EXCEPT !.kind = "retire", !.pc = "retire", !.failed = TRUE] OBVIOUS
<1>4. q \in JobRecord /\ q.pc = "retire" /\ q.kind = "retire" /\ q.call = jobs[e].call
  BY <1>0, <1>3, PoolNames DEF JobRecord
<1>5. jobs' = [jobs EXCEPT ![e] = q] BY <1>0, <1>3 DEF JobPanics
<1>6. jobs' \in [Calls -> JobRecord] /\ jobs'[e] = q /\ \A d \in Calls : d # e => jobs'[d] = jobs[d]
  BY <1>0, <1>4, <1>5
<1>7. AllSteady /\ callers' \in [Calls -> Caller]
  <2>1. CASE jobs[e].kind = "invoke" /\ callers[jobs[e].call].lane = "open"
    <3>1. PICK c \in Calls : c = jobs[e].call BY <1>0, <2>1 DEF JobInv, JobRecord
    <3>2. callers' = [callers EXCEPT ![c].lane = "closed"] BY <2>1, <3>1 DEF JobPanics
    <3>3. PICK r : r = [callers[c] EXCEPT !.lane = "closed"] OBVIOUS
    <3>4. callers' = [callers EXCEPT ![c] = r] BY <1>0, <3>2, <3>3
    <3>5. r \in Caller /\ Steady(callers[c], r) BY <3>3, ClosedLane, Zenon
    <3> QED BY <3>4, <3>5, CallerSet
  <2>2. CASE ~(jobs[e].kind = "invoke" /\ callers[jobs[e].call].lane = "open")
    <3>1. UNCHANGED callers BY <2>2 DEF JobPanics
    <3> QED BY <3>1, <1>0, SameCallers
  <2> QED BY <2>1, <2>2
<1>8. pool' \in Pool /\ pool'.pending = pool.pending /\ pool'.warm = pool.warm
  <2>1. PICK v \in Calls \cup {Nobody} : v = IF pool.eviction = e THEN Nobody ELSE pool.eviction
    BY <1>0 DEF Pool
  <2>2. pool' = [pool EXCEPT !.pc = "top", !.failed = TRUE, !.stop = TRUE, !.eviction = v]
    BY <2>1 DEF JobPanics
  <2> QED BY <1>0, <2>2, PoolNames DEF Pool
<1>9. TypesInv' BY <1>6, <1>7, <1>8 DEF TypesInv
<1>10. Moves(e) BY <1>2, <1>4, <1>6 DEF Moves
<1> QED BY <1>1, <1>6, <1>7, <1>8, <1>9, <1>10, SteadyStep

\* Publishing the settlement of a call whose job has ended.
LEMMA PublishedCallers ==
    ASSUME PoolInv, AllFollow, NEW e \in Calls, jobs[e].pc \in {"complete", "warm"},
           PublishSettlement(jobs[e].call, jobs[e].failed)
    PROVE  /\ callers' \in [Calls -> Caller] /\ NoRebirth
           /\ \A c \in Calls : CallerInv(c)'
           /\ \A c \in Calls : c # jobs[e].call => callers'[c] = callers[c]
<1>0. jobs[e] \in JobRecord /\ JobInv(e) /\ callers \in [Calls -> Caller]
  BY DEF PoolInv, TypesInv
<1>1. CASE jobs[e].call = Nobody
  <2>1. UNCHANGED callers BY <1>1 DEF PublishSettlement
  <2>2. AllSteady BY <2>1, SameCallers
  <2>3. NoRebirth BY <2>2, SteadyNoRebirth
  <2>4. \A c \in Calls : CallerInv(c)' BY <2>2, <2>3, SteadyCaller DEF AllSteady, NoRebirth
  <2> QED BY <1>0, <2>1, <2>3, <2>4
<1>2. CASE jobs[e].call # Nobody
  <2>1. PICK c \in Calls : c = jobs[e].call BY <1>0, <1>2 DEF JobRecord
  <2>2. PICK q : q = Published(callers[c], jobs[e].failed) OBVIOUS
  <2>3. callers' = [callers EXCEPT ![c] = q] BY <1>2, <2>1, <2>2 DEF PublishSettlement
  <2>4. callers[c] \in Caller BY <1>0
  <2>5. q \in Caller BY <2>2, <2>4, PoolNames, Names DEF Published, Caller
  <2>6. /\ q.at = "gone" /\ q.env = callers[c].env /\ q.consumed = callers[c].consumed
        /\ q.waiting = callers[c].waiting
    BY <2>2, <2>4 DEF Published, Caller
  <2>7. /\ callers' \in [Calls -> Caller] /\ callers'[c] = q
        /\ \A d \in Calls : d # c => callers'[d] = callers[d]
    BY <1>0, <2>3, <2>5
  <2>8. callers[c].at = "job" /\ callers[c].env = e BY <1>0, <1>2, <2>1 DEF JobInv
  <2>9. NoRebirth BY <2>6, <2>7 DEF NoRebirth, Unborn
  <2>10. ASSUME NEW d \in Calls PROVE CallerInv(d)'
    <3>1. CASE d = c
      <4>1. callers[c].consumed \/ environments[e].done # "none"
        BY <1>0, <1>2, <2>1 DEF JobInv
      <4>2. ~Unborn(c) BY <2>8 DEF Unborn
      <4> QED BY <3>1, <4>1, <4>2, <2>6, <2>7, <2>8, <2>9, SettledCaller
    <3>2. CASE d # c
      <4>1. Steady(callers[d], callers'[d]) BY <3>2, <2>7, SameCaller
      <4> QED BY <4>1, <2>9, SteadyCaller DEF NoRebirth
    <3> QED BY <3>1, <3>2
  <2> QED BY <2>1, <2>7, <2>9, <2>10
<1> QED BY <1>1, <1>2

\* A job ends: its environment is gone, kept warm, or retired by another job.
LEMMA EndedJob ==
    ASSUME PoolInv, AllFollow, NEW e \in Calls, jobs[e].pc \in {"complete", "warm"},
           PublishSettlement(jobs[e].call, jobs[e].failed),
           pool' \in Pool, pool'.pending = pool.pending,
           NEW q \in {NoJob, Maintenance}, jobs' = [jobs EXCEPT ![e] = q],
           \/ pool'.warm = pool.warm /\ (q = NoJob => jobs[e].pc = "complete")
           \/ pool'.warm = Append(pool.warm, e) /\ q = NoJob
    PROVE  PoolInv'
<1>0. jobs \in [Calls -> JobRecord] /\ JobInv(e) BY DEF PoolInv, TypesInv
<1>1. /\ callers' \in [Calls -> Caller] /\ NoRebirth
      /\ \A c \in Calls : CallerInv(c)'
      /\ \A c \in Calls : c # jobs[e].call => callers'[c] = callers[c]
  BY PublishedCallers
<1>2. jobs' \in [Calls -> JobRecord] /\ jobs'[e] = q /\ \A d \in Calls : d # e => jobs'[d] = jobs[d]
  BY <1>0, NewRecords
<1>3. TypesInv' BY <1>1, <1>2 DEF TypesInv
<1>4. ~Unborn(e) /\ e \notin Range(pool.warm) BY <1>0 DEF JobInv, PoolInv, WarmInv
<1>5. PendingInv'
  <2>1. \A c \in Range(pool.pending) : c # jobs[e].call
    BY <1>0, QueuesAreCalls, CallsNotNobody DEF JobInv, PoolInv, PendingInv
  <2> QED BY <1>1, <2>1, QueuesAreCalls DEF PoolInv, PendingInv
<1>6. WarmInv'
  <2>1. ASSUME NEW d \in Range(pool.warm) PROVE jobs'[d].pc = "none" /\ ~Unborn(d)'
    BY <1>1, <1>2, <1>4, QueuesAreCalls DEF PoolInv, WarmInv, NoRebirth
  <2>2. CASE pool'.warm = pool.warm BY <2>1, <2>2 DEF PoolInv, WarmInv
  <2>3. CASE pool'.warm = Append(pool.warm, e) /\ q = NoJob
    <3>1. Range(pool'.warm) = Range(pool.warm) \cup {e} /\ IsInjective(pool'.warm)
      BY <2>3, <1>4, QueuesAreCalls, AppendRange DEF PoolInv, WarmInv
    <3>2. jobs'[e].pc = "none" /\ ~Unborn(e)'
      BY <2>3, <1>1, <1>2, <1>4, NewRecords DEF NoRebirth
    <3> QED BY <2>1, <3>1, <3>2 DEF WarmInv
  <2> QED BY <2>2, <2>3
<1>7. ASSUME NEW d \in Calls PROVE HandleKept(d)'
  <2>1. CASE d = e
    <3>1. CASE q = Maintenance BY <2>1, <3>1, <1>2, NewRecords, FollowedHandle
    <3>2. CASE q = NoJob /\ pool'.warm = pool.warm
      <4>1. jobs[e].pc = "complete" BY <3>2
      <4>2. environments[e].done # "none" BY <4>1, <1>0 DEF JobInv
      <4> QED BY <4>2, <2>1, FollowedHandle
    <3>3. CASE q = NoJob /\ pool'.warm = Append(pool.warm, e)
      <4>1. e \in Range(pool'.warm) BY <3>3, QueuesAreCalls, AppendRange
      <4> QED BY <4>1, <2>1, FollowedHandle
    <3> QED BY <3>1, <3>2, <3>3
  <2>2. CASE d # e
    <3>0. Range(Append(pool.warm, e)) = Range(pool.warm) \cup {e} BY QueuesAreCalls, AppendRange
    <3>1. Range(pool.warm) \subseteq Range(pool'.warm) BY <3>0, Zenon
    <3> QED BY <2>2, <3>1, <1>2, FollowedHandle
  <2> QED BY <2>1, <2>2
<1>8. ASSUME NEW d \in Calls PROVE JobInv(d)'
  <2>1. CASE d = e
    <3>1. ~Unborn(d)' BY <2>1, <1>1, <1>4 DEF NoRebirth
    <3>2. jobs'[d] = q BY <2>1, <1>2
    <3>3. CASE q = NoJob BY <3>2, <3>3, NewRecords DEF JobInv
    <3>4. CASE q = Maintenance BY <3>1, <3>2, <3>4, NewRecords DEF JobInv
    <3> QED BY <3>3, <3>4
  <2>2. CASE d # e
    <3>1. JobInv(d) BY DEF PoolInv
    <3>2. jobs[d].call # Nobody => jobs[d].call # jobs[e].call
      BY <2>2, <3>1, <1>0 DEF JobInv
    <3>3. jobs[d].call # Nobody => jobs[d].call \in Calls BY <1>0 DEF JobRecord
    <3>4. jobs[d].call # Nobody => Placed(callers[jobs[d].call], callers'[jobs[d].call])
      BY <3>2, <3>3, <1>1 DEF Placed
    <3> QED BY <2>2, <3>4, <1>1, <1>2, SameJob
  <2> QED BY <2>1, <2>2
<1>9. EnvironmentsInv' BY FollowedEnvironments
<1> QED BY <1>1, <1>3, <1>5, <1>6, <1>7, <1>8, <1>9 DEF PoolInv

\* A job that is joined keeps the invariant.
LEMMA CompletedStep ==
    ASSUME PoolInv, NEW e \in Calls, Completed(e) PROVE PoolInv'
<1>0. /\ jobs[e] \in JobRecord /\ jobs \in [Calls -> JobRecord] /\ pool \in Pool
      /\ EnvironmentsInv
  BY DEF PoolInv, TypesInv
<1>1. jobs[e].pc \in {"complete", "warm"} /\ PublishSettlement(jobs[e].call, jobs[e].failed)
  BY DEF Completed
<1>2. PICK kept \in BOOLEAN : kept = (jobs[e].pc = "warm" /\ Keeps(e)) OBVIOUS
<1>3. PICK warm \in Seq(Calls) : warm = IF kept THEN Append(pool.warm, e) ELSE pool.warm
  BY QueuesAreCalls, AppendRange
<1>4. PICK v \in Calls \cup {Nobody} : v = IF pool.eviction = e THEN Nobody ELSE pool.eviction
  BY <1>0 DEF Pool
<1>5. PICK f \in BOOLEAN : f = (pool.failed \/ jobs[e].failed) OBVIOUS
<1>6. PICK s \in BOOLEAN : s = (pool.stop \/ jobs[e].failed) OBVIOUS
<1>7. pool' = [pool EXCEPT !.pc = "top", !.eviction = v, !.failed = f, !.stop = s, !.warm = warm]
  BY <1>2, <1>3, <1>4, <1>5, <1>6 DEF Completed
<1>8. pool' \in Pool /\ pool'.pending = pool.pending /\ pool'.warm = warm
  BY <1>0, <1>3, <1>7, PoolNames DEF Pool
<1>9. CASE jobs[e].pc = "warm" /\ ~kept
  <2>1. RetireAll({e}) BY <1>2, <1>9 DEF Completed
  <2>2. AllFollow BY <1>0, <2>1, CancelFollows DEF RetireAll
  <2>3. jobs' = [d \in Calls |-> IF d \in {e} THEN Maintenance ELSE jobs[d]]
    BY <2>1 DEF RetireAll
  <2>4. jobs' = [jobs EXCEPT ![e] = Maintenance] BY <1>0, <2>3
  <2>5. Maintenance # NoJob BY NewRecords
  <2> QED BY <1>1, <1>3, <1>8, <1>9, <2>2, <2>4, <2>5, EndedJob
<1>10. CASE ~(jobs[e].pc = "warm" /\ ~kept)
  <2>1. jobs' = [jobs EXCEPT ![e] = NoJob] /\ UNCHANGED environments
    BY <1>2, <1>10 DEF Completed
  <2>2. AllFollow BY <1>0, <2>1, UnchangedFollows
  <2>3. \/ pool'.warm = pool.warm /\ jobs[e].pc = "complete"
        \/ pool'.warm = Append(pool.warm, e)
    BY <1>1, <1>3, <1>8, <1>10
  <2> QED BY <1>1, <1>8, <2>1, <2>2, <2>3, EndedJob
<1> QED BY <1>9, <1>10

\* A step of the recovery keeps the invariant.
LEMMA RecoverStep ==
    ASSUME PoolInv, NEW e \in Calls, Recover(e) PROVE PoolInv'
<1>1. /\ jobs[e].pc = "complete" /\ PublishSettlement(jobs[e].call, jobs[e].failed)
      /\ jobs' = [jobs EXCEPT ![e] = NoJob] /\ UNCHANGED <<environments, pool>>
  BY DEF Recover, environmentVars
<1>2. AllFollow BY <1>1, UnchangedFollows DEF PoolInv
<1>3. pool' \in Pool BY <1>1 DEF PoolInv, TypesInv
<1> QED BY <1>1, <1>2, <1>3, EndedJob

-----------------------------------------------------------------------------
(* Queued calls that are rejected, and environments that are retired.       *)

\* A rejected call is answered.
LEMMA RejectedRecord ==
    ASSUME NEW r \in Caller
    PROVE  /\ Rejected(r) \in Caller /\ Rejected(r).at = "gone" /\ Rejected(r).env = Nobody
           /\ Rejected(r).consumed = FALSE
BY PoolNames, Names DEF Caller, Rejected, NewCall, Nobody

\* What a step does to callers that reject some of the queued ones.
Rejects(R) ==
    /\ callers' \in [Calls -> Caller]
    /\ \A c \in Calls : IF c \in R THEN callers'[c] = Rejected(callers[c])
                        ELSE Steady(callers[c], callers'[c])

\* Rejecting the calls of a queue keeps the invariant of the callers.
LEMMA RejectedCallers ==
    ASSUME PoolInv, AllFollow, NEW R, R \subseteq Range(pool.pending), Rejects(R)
    PROVE  /\ NoRebirth
           /\ \A c \in Calls : CallerInv(c)'
           /\ \A c \in Calls : ~Unborn(c) => Placed(callers[c], callers'[c])
<1>0. R \subseteq Calls /\ \A c \in R : callers[c].at = "queued"
  BY QueuesAreCalls DEF PoolInv, PendingInv
<1>1. ASSUME NEW c \in Calls, c \in R
      PROVE  callers'[c].at = "gone" /\ callers'[c].env = Nobody /\ callers'[c].consumed = FALSE
  <2>1. callers[c] \in Caller /\ callers'[c] = Rejected(callers[c])
    BY <1>1 DEF Rejects, PoolInv, TypesInv
  <2> QED BY <2>1, RejectedRecord
<1>2. NoRebirth BY <1>0, <1>1 DEF NoRebirth, Unborn, Rejects, Steady
<1>3. ASSUME NEW c \in Calls PROVE CallerInv(c)'
  <2>1. CASE c \in R BY <2>1, <1>1 DEF CallerInv, Unborn
  <2>2. CASE c \notin R BY <2>2, <1>2, SteadyCaller DEF Rejects, NoRebirth
  <2> QED BY <2>1, <2>2
<1>4. \A c \in Calls : ~Unborn(c) => Placed(callers[c], callers'[c])
  BY <1>0 DEF Rejects, Unborn, Steady, Placed
<1> QED BY <1>2, <1>3, <1>4

\* Some queued calls are rejected, and jobs take over warm environments.
LEMMA RetiringStep ==
    ASSUME PoolInv, AllFollow, NEW R, R \subseteq Range(pool.pending), Rejects(R),
           pool' \in Pool, jobs' \in [Calls -> JobRecord],
           IsInjective(pool'.pending), Range(pool'.pending) \subseteq Range(pool.pending) \ R,
           IsInjective(pool'.warm), Range(pool'.warm) \subseteq Range(pool.warm),
           \A e \in Calls : \/ jobs'[e] = jobs[e] /\ (e \in Range(pool.warm) => e \in Range(pool'.warm))
                            \/ Moves(e)
                            \/ /\ e \in Range(pool.warm) \ Range(pool'.warm)
                               /\ jobs'[e].pc = "retire" /\ jobs'[e].kind = "retire"
                               /\ jobs'[e].call = Nobody
    PROVE  PoolInv'
<1>1. /\ NoRebirth
      /\ \A c \in Calls : CallerInv(c)'
      /\ \A c \in Calls : ~Unborn(c) => Placed(callers[c], callers'[c])
  BY RejectedCallers
<1>2. TypesInv' BY DEF TypesInv, Rejects
<1>3. PendingInv'
  <2>1. \A c \in Range(pool'.pending) : callers'[c].at = "queued"
    BY QueuesAreCalls DEF Rejects, Steady, PoolInv, PendingInv
  <2> QED BY <2>1 DEF PendingInv
<1>4. WarmInv'
  <2>1. ASSUME NEW e \in Range(pool'.warm) PROVE jobs'[e].pc = "none" /\ ~Unborn(e)'
    <3>1. e \in Calls /\ jobs[e].pc = "none" /\ ~Unborn(e) BY QueuesAreCalls DEF PoolInv, WarmInv
    <3>2. jobs'[e] = jobs[e] BY <3>1 DEF Moves
    <3> QED BY <3>1, <3>2, <1>1 DEF NoRebirth
  <2> QED BY <2>1 DEF WarmInv
<1>5. ASSUME NEW e \in Calls PROVE HandleKept(e)'
  <2>1. jobs[e].pc # "none" \/ e \in Range(pool.warm) =>
            jobs'[e].pc # "none" \/ e \in Range(pool'.warm)
    BY DEF Moves
  <2> QED BY <2>1, FollowedHandle
<1>6. ASSUME NEW e \in Calls PROVE JobInv(e)'
  <2>0. JobInv(e) /\ jobs[e].call \in Calls \cup {Nobody} BY DEF PoolInv, TypesInv, JobRecord
  <2>1. jobs[e].call # Nobody => Placed(callers[jobs[e].call], callers'[jobs[e].call])
    BY <2>0, <1>1 DEF JobInv, Unborn
  <2>2. CASE jobs'[e] = jobs[e] BY <2>1, <2>2, <1>1, SameJob
  <2>3. CASE Moves(e)
    <3>1. jobs'[e].call # Nobody => jobs[e].call # Nobody BY <2>3 DEF Moves
    <3> QED BY <3>1, <2>1, <2>3, <1>1, MovedJob
  <2>4. CASE /\ e \in Range(pool.warm)
             /\ jobs'[e].pc = "retire" /\ jobs'[e].kind = "retire" /\ jobs'[e].call = Nobody
    <3>1. ~Unborn(e)' BY <2>4, <1>1 DEF NoRebirth, PoolInv, WarmInv
    <3> QED BY <2>4, <3>1 DEF JobInv
  <2> QED BY <2>2, <2>3, <2>4
<1>7. EnvironmentsInv' BY FollowedEnvironments
<1> QED BY <1>1, <1>2, <1>3, <1>4, <1>5, <1>6, <1>7 DEF PoolInv

\* What is retired from the warm queue leaves it.
LEMMA RetiredWarm ==
    ASSUME PoolInv, NEW R, R \subseteq Range(pool.warm), RetireAll(R)
    PROVE  /\ AllFollow /\ jobs' \in [Calls -> JobRecord]
           /\ \A e \in Calls :
                IF e \in R
                THEN jobs'[e].pc = "retire" /\ jobs'[e].kind = "retire" /\ jobs'[e].call = Nobody
                ELSE jobs'[e] = jobs[e]
<1>1. AllFollow BY CancelFollows DEF RetireAll, PoolInv
<1>2. jobs' = [e \in Calls |-> IF e \in R THEN Maintenance ELSE jobs[e]] BY DEF RetireAll
<1>3. jobs \in [Calls -> JobRecord] BY DEF PoolInv, TypesInv
<1> QED BY <1>1, <1>2, <1>3, NewRecords

\* What the pool can afford to retire is a prefix.
LEMMA AffordablePrefix ==
    ASSUME NEW s \in Seq(Calls)
    PROVE  \E n \in 0..Len(s) : Affordable(s) = SubSeq(s, 1, n)
<1>1. IsFiniteSet({e \in Calls : jobs[e] # NoJob})
  <2>1. {e \in Calls : jobs[e] # NoJob} \subseteq Calls OBVIOUS
  <2> QED BY <2>1, EnvironmentsAssumption, FS_Subset
<1>2. JobCount \in Nat BY <1>1, FS_CardinalityType DEF JobCount
<1>3. MaxJobs \in Nat /\ Len(s) \in Nat BY PoolAssumption
<1>4. PICK free \in Int : free = MaxJobs - JobCount BY <1>2, <1>3
<1>5. CASE Len(s) < free BY <1>3, <1>4, <1>5 DEF Affordable
<1>6. CASE ~(Len(s) < free) /\ free >= 0 BY <1>3, <1>4, <1>6 DEF Affordable
<1>7. CASE free < 0
  <2>1. Affordable(s) = SubSeq(s, 1, free) BY <1>3, <1>4, <1>7 DEF Affordable
  <2>2. SubSeq(s, 1, free) = SubSeq(s, 1, 0) BY <1>7
  <2> QED BY <2>1, <2>2, <1>3
<1> QED BY <1>3, <1>5, <1>6, <1>7

\* A pool that stops rejects all that wait.
LEMMA RejectAllRejects ==
    ASSUME PoolInv, NEW R, RejectAll(R) PROVE Rejects(R)
<1>1. callers' = [c \in Calls |-> IF c \in R THEN Rejected(callers[c]) ELSE callers[c]]
  BY DEF RejectAll
<1>2. callers \in [Calls -> Caller] BY DEF PoolInv, TypesInv
<1>3. callers' \in [Calls -> Caller] BY <1>1, <1>2, RejectedRecord
<1>4. ASSUME NEW c \in Calls
      PROVE IF c \in R THEN callers'[c] = Rejected(callers[c])
                       ELSE Steady(callers[c], callers'[c])
  BY <1>1, SameCaller
<1> QED BY <1>3, <1>4 DEF Rejects

\* Without a refusal the callers stay.
LEMMA NothingRejected ==
    ASSUME PoolInv, UNCHANGED callers PROVE Rejects({})
BY SameCaller DEF Rejects, PoolInv, TypesInv

\* The top of the loop keeps the invariant.
LEMMA TopStep ==
    ASSUME PoolInv, Top PROVE PoolInv'
<1>0. /\ pool \in Pool /\ pool.pending \in Seq(Calls) /\ pool.warm \in Seq(Calls)
      /\ IsInjective(pool.pending) /\ IsInjective(pool.warm)
      /\ Range(pool.pending) \subseteq Calls /\ Range(pool.warm) \subseteq Calls
  BY QueuesAreCalls DEF PoolInv, TypesInv, PendingInv, WarmInv
<1>1. CASE pool.stop \/ pool.stopping
  <2>1. PICK n \in 0..Len(pool.warm) : Affordable(pool.warm) = SubSeq(pool.warm, 1, n)
    BY <1>0, AffordablePrefix
  <2>2. PICK p : p = SubSeq(pool.warm, 1, n) OBVIOUS
  <2>3. PICK q : q = SubSeq(pool.warm, n + 1, Len(pool.warm)) OBVIOUS
  <2>4. /\ q \in Seq(Calls) /\ Len(p) = n /\ Range(p) \cup Range(q) = Range(pool.warm)
        /\ IsInjective(q) /\ Range(p) \cap Range(q) = {}
    BY <1>0, <2>2, <2>3, SplitRange
  <2>5. RejectAll(Range(pool.pending)) /\ RetireAll(Range(p))
    BY <1>1, <2>1, <2>2 DEF Top
  <2>6. PICK life \in {"settled", pool.life} :
            life = IF JobCount = 0 /\ pool.warm = <<>> THEN "settled" ELSE pool.life
    OBVIOUS
  <2>7. pool' = [pool EXCEPT !.stopping = TRUE, !.pending = <<>>, !.warm = q, !.pc = "select",
                             !.life = life]
    BY <1>1, <2>1, <2>2, <2>3, <2>4, <2>6 DEF Top
  <2>8. <<>> \in Seq(Calls) /\ life \in Lives BY <1>0, PoolNames DEF Pool
  <2>9. pool' \in Pool /\ pool'.pending = <<>> /\ pool'.warm = q
    BY <1>0, <2>4, <2>7, <2>8, PoolNames DEF Pool
  <2>10. Range(p) \subseteq Range(pool.warm) /\ Range(q) \subseteq Range(pool.warm)
    BY <2>4
  <2>11. /\ AllFollow /\ jobs' \in [Calls -> JobRecord]
         /\ \A e \in Calls :
              IF e \in Range(p)
              THEN jobs'[e].pc = "retire" /\ jobs'[e].kind = "retire" /\ jobs'[e].call = Nobody
              ELSE jobs'[e] = jobs[e]
    BY <2>5, <2>10, RetiredWarm
  <2>12. Rejects(Range(pool.pending)) BY <2>5, RejectAllRejects
  <2>13. IsInjective(pool'.pending) /\ Range(pool'.pending) = {} BY <2>9, EmptyRange
  <2>14. ASSUME NEW e \in Calls
         PROVE  \/ jobs'[e] = jobs[e] /\ (e \in Range(pool.warm) => e \in Range(pool'.warm))
                \/ /\ e \in Range(pool.warm) \ Range(pool'.warm)
                   /\ jobs'[e].pc = "retire" /\ jobs'[e].kind = "retire"
                   /\ jobs'[e].call = Nobody
    BY <2>4, <2>9, <2>11
  <2> QED BY <2>4, <2>9, <2>10, <2>11, <2>12, <2>13, <2>14, RetiringStep
<1>2. CASE ~(pool.stop \/ pool.stopping)
  <2>1. PICK expired : expired = {c \in Range(pool.pending) : CallError(c)} OBVIOUS
  <2>2. PICK idle : idle = Keep(pool.warm, {e \in Calls : Phase(e) # "Idle"}) OBVIOUS
  <2>3. idle \in Seq(Calls) /\ Range(idle) \subseteq Range(pool.warm)
    BY <1>0, <2>2, KeepRange
  <2>4. PICK n \in 0..Len(idle) : Affordable(idle) = SubSeq(idle, 1, n)
    BY <2>3, AffordablePrefix
  <2>5. PICK unfit : unfit = SubSeq(idle, 1, n) OBVIOUS
  <2>6. Range(unfit) \subseteq Range(pool.warm)
    <3>1. Range(unfit) \subseteq Range(idle) BY <2>3, <2>5, SplitRange
    <3> QED BY <2>3, <3>1
  <2>7. PICK pending : pending = Keep(pool.pending, Calls \ expired) OBVIOUS
  <2>8. PICK warm : warm = Keep(pool.warm, Calls \ Range(unfit)) OBVIOUS
  <2>9. /\ pending \in Seq(Calls) /\ IsInjective(pending)
        /\ Range(pending) = Range(pool.pending) \cap (Calls \ expired)
    BY <1>0, <2>7, KeepRange
  <2>10. /\ warm \in Seq(Calls) /\ IsInjective(warm)
         /\ Range(warm) = Range(pool.warm) \cap (Calls \ Range(unfit))
    BY <1>0, <2>8, KeepRange
  <2>11. RejectAll(expired) /\ RetireAll(Range(unfit))
    BY <1>2, <2>1, <2>2, <2>4, <2>5 DEF Top
  <2>12. pool' = [pool EXCEPT !.pc = "dispatch", !.pending = pending, !.warm = warm]
    BY <1>2, <2>1, <2>2, <2>4, <2>5, <2>7, <2>8 DEF Top
  <2>13. pool' \in Pool /\ pool'.pending = pending /\ pool'.warm = warm
    BY <1>0, <2>9, <2>10, <2>12, PoolNames DEF Pool
  <2>14. /\ AllFollow /\ jobs' \in [Calls -> JobRecord]
         /\ \A e \in Calls :
              IF e \in Range(unfit)
              THEN jobs'[e].pc = "retire" /\ jobs'[e].kind = "retire" /\ jobs'[e].call = Nobody
              ELSE jobs'[e] = jobs[e]
    BY <2>6, <2>11, RetiredWarm
  <2>15. Rejects(expired) BY <2>11, RejectAllRejects
  <2>16. expired \subseteq Range(pool.pending) BY <2>1
  <2>17. ASSUME NEW e \in Calls
         PROVE  \/ jobs'[e] = jobs[e] /\ (e \in Range(pool.warm) => e \in Range(pool'.warm))
                \/ /\ e \in Range(pool.warm) \ Range(pool'.warm)
                   /\ jobs'[e].pc = "retire" /\ jobs'[e].kind = "retire"
                   /\ jobs'[e].call = Nobody
    BY <2>6, <2>10, <2>13, <2>14
  <2>18. /\ Range(pool'.pending) \subseteq Range(pool.pending) \ expired
         /\ Range(pool'.warm) \subseteq Range(pool.warm)
    BY <2>9, <2>10, <2>13
  <2> QED BY <2>9, <2>10, <2>13, <2>14, <2>15, <2>16, <2>17, <2>18, RetiringStep
<1> QED BY <1>1, <1>2

\* The first call that waits is a call.
LEMMA FirstPending ==
    ASSUME PoolInv, pool.pending # <<>>
    PROVE  /\ pool.pending[1] \in Calls /\ pool.pending[1] \in Range(pool.pending)
           /\ callers[pool.pending[1]].at = "queued"
           /\ Tail(pool.pending) \in Seq(Calls) /\ IsInjective(Tail(pool.pending))
           /\ Range(Tail(pool.pending)) = Range(pool.pending) \ {pool.pending[1]}
BY QueuesAreCalls, TailRange DEF PoolInv, PendingInv

\* A refused dispatch keeps the invariant.
LEMMA DispatchRejectsStep ==
    ASSUME PoolInv, DispatchRejects PROVE PoolInv'
<1>0. pool \in Pool /\ jobs \in [Calls -> JobRecord] /\ callers \in [Calls -> Caller]
  BY DEF PoolInv, TypesInv
<1>1. pool.pending # <<>> BY DEF DispatchRejects, Blocked
<1>2. PICK c \in Calls : c = pool.pending[1] BY <1>1, FirstPending
<1>3. PICK rest \in Seq(Calls) : rest = Tail(pool.pending) BY <1>1, FirstPending
<1>4. /\ callers' = [callers EXCEPT ![c] = Rejected(callers[c])]
      /\ pool' = [pool EXCEPT !.pending = rest] /\ UNCHANGED <<environments, jobs>>
  BY <1>0, <1>2, <1>3 DEF DispatchRejects, RejectFirst, environmentVars
<1>5. pool' \in Pool /\ pool'.pending = rest /\ pool'.warm = pool.warm BY <1>0, <1>4 DEF Pool
<1>6. AllFollow BY <1>4, UnchangedFollows DEF PoolInv
<1>7. callers[c] \in Caller /\ Rejected(callers[c]) \in Caller BY <1>0, RejectedRecord
<1>8. Rejects({c}) BY <1>0, <1>4, <1>7, SameCaller DEF Rejects
<1>9. /\ {c} \subseteq Range(pool.pending) /\ IsInjective(pool'.pending)
      /\ Range(pool'.pending) \subseteq Range(pool.pending) \ {c}
  BY <1>1, <1>2, <1>3, <1>5, FirstPending
<1>10. IsInjective(pool'.warm) BY <1>5 DEF PoolInv, WarmInv
<1> QED BY <1>0, <1>4, <1>5, <1>6, <1>8, <1>9, <1>10, RetiringStep

\* A dispatch without capacity keeps the invariant.
LEMMA DispatchBusyStep ==
    ASSUME PoolInv, DispatchBusy PROVE PoolInv'
<1>0. /\ pool \in Pool /\ jobs \in [Calls -> JobRecord] /\ UNCHANGED callers
      /\ IsInjective(pool.pending) /\ IsInjective(pool.warm)
  BY DEF PoolInv, TypesInv, DispatchBusy, PendingInv, WarmInv
<1>1. Rejects({}) BY <1>0, NothingRejected
<1>2. CASE pool.warm = <<>>
  <2>1. pool' = [pool EXCEPT !.pc = "select"] /\ UNCHANGED <<environments, jobs>>
    BY <1>2 DEF DispatchBusy
  <2>2. pool' \in Pool /\ pool'.pending = pool.pending /\ pool'.warm = pool.warm
    BY <1>0, <2>1, PoolNames DEF Pool
  <2>3. AllFollow BY <2>1, UnchangedFollows DEF PoolInv
  <2>4. TypesInv' BY <1>0, <2>1, <2>2 DEF PoolInv, TypesInv
  <2> QED BY <1>0, <2>1, <2>2, <2>3, <2>4, SameCallers, SteadyStep
<1>3. CASE pool.warm # <<>>
  <2>1. PICK e \in Calls : e = pool.warm[1] BY <1>3, QueuesAreCalls, TailRange
  <2>2. PICK rest \in Seq(Calls) : rest = Tail(pool.warm) BY <1>3, QueuesAreCalls, TailRange
  <2>3. /\ e \in Range(pool.warm) /\ IsInjective(rest)
        /\ Range(rest) = Range(pool.warm) \ {e}
    BY <1>0, <1>3, <2>1, <2>2, QueuesAreCalls, TailRange
  <2>4. /\ RetireAll({e})
        /\ pool' = [pool EXCEPT !.pc = "select", !.warm = rest, !.eviction = e]
    BY <1>3, <2>1, <2>2 DEF DispatchBusy
  <2>5. pool' \in Pool /\ pool'.pending = pool.pending /\ pool'.warm = rest
    BY <1>0, <2>4, PoolNames DEF Pool
  <2>6. {e} \subseteq Range(pool.warm) BY <2>3
  <2>7. /\ AllFollow /\ jobs' \in [Calls -> JobRecord]
        /\ \A d \in Calls :
             IF d \in {e}
             THEN jobs'[d].pc = "retire" /\ jobs'[d].kind = "retire" /\ jobs'[d].call = Nobody
             ELSE jobs'[d] = jobs[d]
    BY <2>4, <2>6, RetiredWarm
  <2>8. ASSUME NEW d \in Calls
        PROVE  \/ jobs'[d] = jobs[d] /\ (d \in Range(pool.warm) => d \in Range(pool'.warm))
               \/ /\ d \in Range(pool.warm) \ Range(pool'.warm)
                  /\ jobs'[d].pc = "retire" /\ jobs'[d].kind = "retire"
                  /\ jobs'[d].call = Nobody
    BY <2>3, <2>5, <2>7
  <2>9. Range(pool'.warm) \subseteq Range(pool.warm) BY <2>3, <2>5
  <2>10. {} \subseteq Range(pool.pending) /\ Range(pool'.pending) \subseteq Range(pool.pending) \ {}
    BY <2>5
  <2> QED BY <1>0, <1>1, <2>3, <2>5, <2>7, <2>8, <2>9, <2>10, RetiringStep
<1> QED BY <1>2, <1>3

-----------------------------------------------------------------------------
(* An environment goes to the first call.                                   *)

\* A call that is given an environment keeps the invariant.
LEMMA AssignedStep ==
    ASSUME PoolInv, pool.pending # <<>>, NEW c \in Calls, c = pool.pending[1],
           NEW e \in Calls, e = c \/ ~Unborn(e),
           NEW w \in Seq(Calls), IsInjective(w), Range(w) = Range(pool.warm) \ {e}, Assign(e, w),
           environments' \in [Calls -> Environment], \A d \in Calls : Sound(environments'[d]),
           \A d \in Calls : Follows(environments[d], environments'[d]) \/ (d = e /\ e = c)
    PROVE  PoolInv'
<1>0. /\ pool \in Pool /\ jobs \in [Calls -> JobRecord] /\ callers \in [Calls -> Caller]
      /\ CallerInv(c) /\ callers[c] \in Caller
  BY DEF PoolInv, TypesInv
<1>1. PICK rest \in Seq(Calls) : rest = Tail(pool.pending) BY FirstPending
<1>2. /\ callers[c].at = "queued" /\ IsInjective(rest)
      /\ Range(rest) = Range(pool.pending) \ {c}
  BY <1>1, FirstPending
<1>3. PICK j : j = [NoJob EXCEPT !.kind = "invoke", !.pc = "ready", !.call = c] OBVIOUS
<1>4. j \in JobRecord /\ j.pc = "ready" /\ j.kind = "invoke" /\ j.call = c
  BY <1>3, PoolNames DEF NoJob, JobRecord
<1>5. jobs' = [jobs EXCEPT ![e] = j] BY <1>3 DEF Assign
<1>6. jobs' \in [Calls -> JobRecord] /\ jobs'[e] = j /\ \A d \in Calls : d # e => jobs'[d] = jobs[d]
  BY <1>0, <1>4, <1>5
<1>7. PICK q : q = [callers[c] EXCEPT !.at = "job", !.env = e] OBVIOUS
<1>8. /\ q \in Caller /\ q.at = "job" /\ q.env = e /\ q.consumed = callers[c].consumed
      /\ q.settlement = callers[c].settlement /\ q.lane = callers[c].lane
  BY <1>0, <1>7, PoolNames DEF Caller
<1>9. callers' = [callers EXCEPT ![c] = q] BY <1>0, <1>7 DEF Assign
<1>10. /\ callers' \in [Calls -> Caller] /\ callers'[c] = q
       /\ \A d \in Calls : d # c => callers'[d] = callers[d]
  BY <1>0, <1>8, <1>9
<1>11. pool' = [pool EXCEPT !.pending = rest, !.warm = w] BY <1>1 DEF Assign
<1>12. pool' \in Pool /\ pool'.pending = rest /\ pool'.warm = w BY <1>0, <1>11 DEF Pool
<1>13. TypesInv' BY <1>6, <1>10, <1>12 DEF TypesInv
<1>14. EnvironmentsInv' BY DEF EnvironmentsInv
<1>15. NoRebirth /\ ~Unborn(c)' /\ ~Unborn(e)'
  BY <1>8, <1>10 DEF NoRebirth, Unborn
<1>16. PendingInv'
  <2>1. \A d \in Range(rest) : callers'[d].at = "queued"
    BY <1>2, <1>10, QueuesAreCalls DEF PoolInv, PendingInv
  <2> QED BY <2>1, <1>2, <1>12 DEF PendingInv
<1>17. WarmInv'
  <2>1. ASSUME NEW d \in Range(w) PROVE jobs'[d].pc = "none" /\ ~Unborn(d)'
    <3>1. d \in Calls /\ d # e /\ jobs[d].pc = "none" /\ ~Unborn(d)
      BY QueuesAreCalls DEF PoolInv, WarmInv
    <3> QED BY <3>1, <1>6, <1>15 DEF NoRebirth
  <2> QED BY <2>1, <1>12 DEF WarmInv
<1>18. ASSUME NEW d \in Calls PROVE HandleKept(d)'
  <2>1. CASE d = e BY <2>1, <1>4, <1>6 DEF HandleKept
  <2>2. CASE d # e
    <3>1. Follows(environments[d], environments'[d]) /\ HandleKept(d) BY <2>2 DEF PoolInv
    <3>2. jobs[d].pc # "none" \/ d \in Range(pool.warm) =>
              jobs'[d].pc # "none" \/ d \in Range(pool'.warm)
      BY <2>2, <1>6, <1>12
    <3> QED BY <3>1, <3>2 DEF HandleKept, Held, Follows
  <2> QED BY <2>1, <2>2
<1>19. ASSUME NEW d \in Calls PROVE JobInv(d)'
  <2>1. CASE d = e
    <3>1. jobs'[d] = j /\ callers'[j.call].env = d /\ callers'[j.call].at = "job"
      BY <2>1, <1>4, <1>6, <1>8, <1>10
    <3>2. j.call # Nobody BY <1>4, CallsNotNobody
    <3> QED BY <2>1, <3>1, <3>2, <1>4, <1>15 DEF JobInv
  <2>2. CASE d # e
    <3>1. jobs'[d] = jobs[d] /\ JobInv(d) /\ jobs[d].call \in Calls \cup {Nobody}
      BY <2>2, <1>0, <1>6 DEF PoolInv, JobRecord
    <3>2. jobs[d].call # Nobody => callers'[jobs[d].call] = callers[jobs[d].call]
      BY <3>1, <1>2, <1>10 DEF JobInv
    <3>3. jobs[d].pc = "complete" => environments'[d].done # "none"
      BY <2>2, <3>1 DEF JobInv, Follows
    <3>4. jobs[d].pc # "none" => ~Unborn(d)' BY <3>1, <1>15 DEF JobInv, NoRebirth
    <3> QED BY <3>1, <3>2, <3>3, <3>4 DEF JobInv
  <2> QED BY <2>1, <2>2
<1>20. ASSUME NEW d \in Calls PROVE CallerInv(d)'
  <2>0. CallerInv(d) /\ callers[d].env \in Calls \cup {Nobody}
    BY DEF PoolInv, TypesInv, Caller
  <2>1. CASE d = c
    <3>1. ~q.consumed /\ ~SettledCall(q)
      BY <1>0, <1>2, <1>8 DEF CallerInv, Unborn, SettledCall
    <3>2. callers'[d] = q BY <2>1, <1>10
    <3>3. ~Unborn(callers[d].env)' BY <3>2, <1>8, <1>15 DEF Unborn
    <3> QED BY <2>1, <3>1, <3>2, <3>3, <1>15 DEF CallerInv
  <2>2. CASE d # c
    <3>1. callers'[d] = callers[d] BY <2>2, <1>10
    <3>2. Unborn(d)' => environments'[d].phase = "None"
      <4>1. Follows(environments[d], environments'[d]) BY <2>2
      <4> QED BY <4>1, <2>0, <1>15 DEF NoRebirth, CallerInv, Follows
    <3>3. callers[d].env # Nobody =>
              ~Unborn(callers[d].env)' /\ Follows(environments[callers[d].env],
                                                  environments'[callers[d].env])
      BY <2>0, <3>1, <1>2, <1>15 DEF CallerInv, NoRebirth, Unborn
    <3>4. callers'[d].env # Nobody /\ ~callers'[d].consumed /\ SettledCall(callers'[d]) =>
              environments'[callers'[d].env].done # "none"
      BY <2>0, <3>1, <3>3 DEF CallerInv, Follows
    <3>5. Unborn(d)' => Unborn(d) BY <1>15 DEF NoRebirth
    <3> QED BY <2>0, <3>1, <3>2, <3>3, <3>4, <3>5 DEF CallerInv
  <2> QED BY <2>1, <2>2
<1> QED BY <1>13, <1>14, <1>16, <1>17, <1>18, <1>19, <1>20 DEF PoolInv

\* The first warm environment of the call's revision is there.
LEMMA FirstMatchIsOne ==
    ASSUME NEW c, Matching(c) # {}, pool.warm \in Seq(Calls)
    PROVE  FirstMatch(c) \in Matching(c) /\ FirstMatch(c) \in 1..Len(pool.warm)
<1>1. Matching(c) \subseteq 1..Len(pool.warm) BY DEF Matching
<1>2. Matching(c) \subseteq Nat BY <1>1
<1>3. \E i \in Matching(c) : \A k \in Matching(c) : i <= k BY <1>2, LeastNat
<1>4. FirstMatch(c) \in Matching(c) BY <1>3 DEF FirstMatch
<1> QED BY <1>1, <1>4

\* A sequence without one of its elements.
LEMMA RemovedRange ==
    ASSUME NEW S, NEW s \in Seq(S), NEW i \in 1..Len(s), IsInjective(s)
    PROVE  /\ RemoveAt(s, i) \in Seq(S) /\ IsInjective(RemoveAt(s, i))
           /\ Range(RemoveAt(s, i)) = Range(s) \ {s[i]}
<1>1. PICK t : t = RemoveAt(s, i) OBVIOUS
<1>2. Len(s) \in Nat /\ i \in Nat OBVIOUS
<1>3. /\ t \in Seq(S) /\ Len(t) = Len(s) - 1
      /\ \A k \in 1..(Len(s) - 1) : t[k] = IF k < i THEN s[k] ELSE s[k + 1]
  <2>1. PICK p : p = SubSeq(s, 1, i - 1) OBVIOUS
  <2>2. PICK q : q = SubSeq(s, i + 1, Len(s)) OBVIOUS
  <2>3. p \in Seq(S) /\ Len(p) = i - 1 /\ \A k \in 1..(i - 1) : p[k] = s[k] BY <2>1, <1>2
  <2>4. q \in Seq(S) /\ Len(q) = Len(s) - i /\ \A k \in 1..(Len(s) - i) : q[k] = s[i + k]
    <3>1. i + 1 \in 1..(Len(s) + 1) BY <1>2
    <3>2. q \in Seq(S) BY <2>2, <3>1
    <3>3. Len(q) = Len(s) - i BY <2>2, <3>1
    <3>4. ASSUME NEW k \in 1..(Len(s) - i) PROVE q[k] = s[i + k]
      <4>1. k \in 1..Len(q) /\ (i + 1) + k - 1 = i + k BY <3>3, <1>2
      <4>2. q[k] = s[(i + 1) + k - 1] BY <2>2, <3>1, <3>3, <4>1
      <4> QED BY <4>1, <4>2
    <3> QED BY <3>2, <3>3, <3>4
  <2>5. t = p \o q BY <1>1, <2>1, <2>2 DEF RemoveAt
  <2>5a. /\ t \in Seq(S) /\ Len(t) = Len(p) + Len(q)
         /\ \A k \in 1..(Len(p) + Len(q)) :
               t[k] = IF k <= Len(p) THEN p[k] ELSE q[k - Len(p)]
    BY <2>3, <2>4, <2>5, ConcatProperties
  <2>6. t \in Seq(S) /\ Len(t) = Len(s) - 1 BY <2>3, <2>4, <2>5a, <1>2
  <2>7. ASSUME NEW k \in 1..(Len(s) - 1) PROVE t[k] = IF k < i THEN s[k] ELSE s[k + 1]
    <3>1. CASE k < i
      <4>1. k \in 1..Len(p) /\ k \in 1..(Len(p) + Len(q)) /\ k <= Len(p)
        BY <3>1, <2>3, <2>4, <1>2
      <4>2. t[k] = p[k] BY <4>1, <2>5a
      <4> QED BY <3>1, <4>1, <4>2, <2>3
    <3>2. CASE ~(k < i)
      <4>1. k - (i - 1) \in 1..(Len(s) - i) /\ i + (k - (i - 1)) = k + 1
            /\ ~(k <= Len(p)) /\ k \in 1..(Len(p) + Len(q))
        BY <3>2, <2>3, <2>4, <1>2
      <4>2. t[k] = q[k - Len(p)] BY <4>1, <2>5a
      <4>3. q[k - (i - 1)] = s[i + (k - (i - 1))] BY <4>1, <2>4
      <4> QED BY <3>2, <4>1, <4>2, <4>3, <2>3
    <3> QED BY <3>1, <3>2
  <2> QED BY <2>6, <2>7
<1>4. /\ \A k \in 1..(Len(s) - 1) : k \in 1..Len(s) /\ k + 1 \in 1..Len(s)
      /\ \A k \in 1..Len(s) : k < i => k \in 1..(Len(s) - 1)
      /\ \A k \in 1..Len(s) : k > i => /\ k - 1 \in 1..(Len(s) - 1) /\ ~(k - 1 < i)
                                       /\ (k - 1) + 1 = k
  BY <1>2
<1>5. \A k, l \in 1..Len(s) : s[k] = s[l] => k = l BY ElementsOf
<1>6. ASSUME NEW k \in 1..Len(t), NEW l \in 1..Len(t), t[k] = t[l] PROVE k = l
  <2>1. k \in 1..(Len(s) - 1) /\ l \in 1..(Len(s) - 1) BY <1>3
  <2>2. CASE k < i /\ l < i BY <2>1, <2>2, <1>3, <1>4, <1>5, <1>6
  <2>3. CASE ~(k < i) /\ ~(l < i)
    <3>1. k + 1 = l + 1 BY <2>1, <2>3, <1>3, <1>4, <1>5, <1>6
    <3> QED BY <3>1, <2>1
  <2>4. CASE k < i /\ ~(l < i)
    <3>1. k = l + 1 BY <2>1, <2>4, <1>3, <1>4, <1>5, <1>6
    <3> QED BY <3>1, <2>1, <2>4, <1>2
  <2>5. CASE ~(k < i) /\ l < i
    <3>1. k + 1 = l BY <2>1, <2>5, <1>3, <1>4, <1>5, <1>6
    <3> QED BY <3>1, <2>1, <2>5, <1>2
  <2> QED BY <2>2, <2>3, <2>4, <2>5
<1>7. IsInjective(t) BY <1>3, <1>6, ElementsOf
<1>8. ASSUME NEW x \in Range(t) PROVE x \in Range(s) \ {s[i]}
  <2>1. PICK k \in 1..Len(t) : t[k] = x BY <1>3, ElementsOf
  <2>2. k \in 1..(Len(s) - 1) BY <1>3
  <2>3. PICK m \in 1..Len(s) : m # i /\ s[m] = x
    <3>1. CASE k < i BY <2>1, <2>2, <3>1, <1>3, <1>4
    <3>2. CASE ~(k < i)
      <4>1. s[k + 1] = x /\ k + 1 \in 1..Len(s) /\ k + 1 # i BY <2>1, <2>2, <3>2, <1>2, <1>3, <1>4
      <4> QED BY <4>1
    <3> QED BY <3>1, <3>2
  <2>4. x # s[i] BY <2>3, <1>5
  <2> QED BY <2>3, <2>4, ElementsOf
<1>9. ASSUME NEW x \in Range(s), x # s[i] PROVE x \in Range(t)
  <2>1. PICK k \in 1..Len(s) : s[k] = x BY ElementsOf
  <2>2. CASE k < i
    <3>1. k \in 1..Len(t) /\ t[k] = x BY <2>1, <2>2, <1>3, <1>4
    <3> QED BY <3>1, <1>3, ElementsOf
  <2>3. CASE k > i
    <3>1. k - 1 \in 1..Len(t) /\ t[k - 1] = x BY <2>1, <2>3, <1>3, <1>4
    <3> QED BY <3>1, <1>3, ElementsOf
  <2>4. k # i BY <2>1, <1>9
  <2> QED BY <2>2, <2>3, <2>4, <1>2
<1> QED BY <1>1, <1>3, <1>7, <1>8, <1>9

\* A dispatch to a warm environment keeps the invariant.
LEMMA DispatchWarmStep ==
    ASSUME PoolInv, DispatchWarm PROVE PoolInv'
<1>0. /\ pool.warm \in Seq(Calls) /\ IsInjective(pool.warm) /\ pool.pending # <<>>
      /\ EnvironmentsInv
  BY QueuesAreCalls DEF PoolInv, WarmInv, DispatchWarm, Blocked
<1>1. PICK c \in Calls : c = pool.pending[1] BY <1>0, FirstPending
<1>2. PICK i \in 1..Len(pool.warm) : i = FirstMatch(c)
  BY <1>0, <1>1, FirstMatchIsOne DEF DispatchWarm
<1>3. PICK e \in Calls : e = pool.warm[i] BY <1>0
<1>4. PICK w : w = RemoveAt(pool.warm, i) OBVIOUS
<1>5. w \in Seq(Calls) /\ IsInjective(w) /\ Range(w) = Range(pool.warm) \ {e}
  BY <1>0, <1>3, <1>4, RemovedRange
<1>6. Assign(e, w) /\ UNCHANGED environments BY <1>1, <1>2, <1>3, <1>4 DEF DispatchWarm
<1>7. e \in Range(pool.warm) BY <1>0, <1>3, ElementsOf
<1>8. ~Unborn(e) BY <1>7 DEF PoolInv, WarmInv
<1>9. AllFollow BY <1>0, <1>6, UnchangedFollows
<1>10. /\ environments' \in [Calls -> Environment] /\ \A d \in Calls : Sound(environments'[d])
       /\ \A d \in Calls : Follows(environments[d], environments'[d])
  BY <1>9 DEF AllFollow, Follows
<1> QED BY <1>0, <1>1, <1>5, <1>6, <1>8, <1>10, AssignedStep

\* A new environment is sound.
LEMMA SpawnedIsSound == SpawnedEnvironment \in Environment /\ Sound(SpawnedEnvironment)
<1>1. SpawnedEnvironment \in Environment BY Names DEF SpawnedEnvironment, NoEnvironment, Environment
<1>2. Sound(SpawnedEnvironment) BY DEF SpawnedEnvironment, NoEnvironment, Sound
<1> QED BY <1>1, <1>2

\* A dispatch to a new environment keeps the invariant.
LEMMA DispatchColdStep ==
    ASSUME PoolInv, DispatchCold PROVE PoolInv'
<1>0. /\ pool.warm \in Seq(Calls) /\ IsInjective(pool.warm) /\ pool.pending # <<>>
      /\ environments \in [Calls -> Environment] /\ \A d \in Calls : Sound(environments[d])
  BY QueuesAreCalls DEF PoolInv, EnvironmentsInv, WarmInv, DispatchCold, Blocked
<1>1. PICK c \in Calls : c = pool.pending[1] BY <1>0, FirstPending
<1>2. Assign(c, pool.warm) /\ Set(c, SpawnedEnvironment) BY <1>1 DEF DispatchCold
<1>3. callers[c].at = "queued" BY <1>0, <1>1, FirstPending
<1>4. c \notin Range(pool.warm) BY <1>3 DEF PoolInv, WarmInv, Unborn
<1>5. Range(pool.warm) = Range(pool.warm) \ {c} BY <1>4
<1>6. /\ environments' \in [Calls -> Environment]
      /\ environments'[c] = SpawnedEnvironment
      /\ \A d \in Calls : d # c => environments'[d] = environments[d]
  BY <1>0, <1>2, SpawnedIsSound DEF Set
<1>7. \A d \in Calls : Sound(environments'[d]) BY <1>0, <1>6, SpawnedIsSound
<1>8. \A d \in Calls : Follows(environments[d], environments'[d]) \/ (d = c /\ c = c)
  BY <1>0, <1>6, SameFollows
<1> QED BY <1>0, <1>1, <1>2, <1>5, <1>6, <1>7, <1>8, AssignedStep

\* The loss of the pool's actor keeps the invariant.
LEMMA DropPoolStep ==
    ASSUME PoolInv, DropPool PROVE PoolInv'
<1>0. /\ pool \in Pool /\ jobs \in [Calls -> JobRecord] /\ callers \in [Calls -> Caller]
      /\ Range(pool.warm) \subseteq Calls /\ Range(pool.pending) \subseteq Calls
  BY QueuesAreCalls DEF PoolInv, TypesInv
<1>1. PICK owned : owned = {e \in Calls : jobs[e] # NoJob} \cup Range(pool.warm) OBVIOUS
<1>2. PICK queued : queued = Range(pool.pending) OBVIOUS
<1>3. PICK cut : cut = {c \in Calls : callers[c].lane = "open" /\ \E e \in owned : jobs[e].call = c}
  OBVIOUS
<1>4. /\ Cancel(owned)
      /\ jobs' = [e \in Calls |-> IF e \notin owned THEN NoJob
                                  ELSE [jobs[e] EXCEPT !.kind = "retire", !.pc = "retire",
                                                       !.failed = TRUE]]
      /\ callers' = [c \in Calls |-> IF c \in queued THEN Rejected(callers[c])
                                     ELSE IF c \in cut THEN [callers[c] EXCEPT !.lane = "closed"]
                                     ELSE callers[c]]
  BY <1>1, <1>2, <1>3, Zenon DEF DropPool
<1>5. AllFollow BY <1>4, CancelFollows DEF PoolInv
<1>6. <<>> \in Seq(Calls) OBVIOUS
<1>7. pool' \in Pool /\ pool'.pending = <<>> /\ pool'.warm = <<>>
  BY <1>0, <1>6, PoolNames DEF DropPool, Pool
<1>8. IsInjective(pool'.pending) /\ Range(pool'.pending) = {} /\ IsInjective(pool'.warm)
      /\ Range(pool'.warm) = {}
  BY <1>7, EmptyRange
<1>9. ASSUME NEW e \in Calls
      PROVE  /\ jobs'[e] \in JobRecord
             /\ \/ jobs'[e] = jobs[e] /\ (e \in Range(pool.warm) => e \in Range(pool'.warm))
                \/ Moves(e)
                \/ /\ e \in Range(pool.warm) \ Range(pool'.warm)
                   /\ jobs'[e].pc = "retire" /\ jobs'[e].kind = "retire"
                   /\ jobs'[e].call = Nobody
  <2>0. jobs[e] \in JobRecord /\ JobInv(e) BY <1>0 DEF PoolInv
  <2>1. CASE e \notin owned
    <3>1. jobs[e] = NoJob /\ e \notin Range(pool.warm) BY <2>1, <1>1
    <3>2. jobs'[e] = NoJob BY <2>1, <1>4
    <3> QED BY <2>0, <3>1, <3>2
  <2>2. CASE e \in owned
    <3>1. PICK q : q = [jobs[e] EXCEPT !.kind = "retire", !.pc = "retire", !.failed = TRUE] OBVIOUS
    <3>2. jobs'[e] = q BY <2>2, <3>1, <1>4
    <3>3. q \in JobRecord /\ q.pc = "retire" /\ q.kind = "retire" /\ q.call = jobs[e].call
      BY <2>0, <3>1, PoolNames DEF JobRecord
    <3>4. CASE jobs[e] # NoJob
      <4>1. jobs[e].pc # "none" BY <2>0, <3>4 DEF JobInv
      <4>2. Moves(e) BY <3>2, <3>3, <4>1 DEF Moves
      <4> QED BY <3>2, <3>3, <4>2
    <3>5. CASE jobs[e] = NoJob
      <4>1. e \in Range(pool.warm) BY <2>2, <3>5, <1>1
      <4>2. jobs[e].call = Nobody BY <3>5, NewRecords
      <4> QED BY <3>2, <3>3, <4>1, <4>2, <1>8
    <3> QED BY <3>4, <3>5
  <2> QED BY <2>1, <2>2
<1>10. jobs' \in [Calls -> JobRecord]
  <2>1. jobs' = [e \in Calls |-> jobs'[e]] BY <1>4, Zenon
  <2> QED BY <2>1, <1>9
<1>11. ASSUME NEW c \in Calls
       PROVE  /\ callers'[c] \in Caller
              /\ IF c \in queued THEN callers'[c] = Rejected(callers[c])
                 ELSE Steady(callers[c], callers'[c])
  <2>0. callers[c] \in Caller BY <1>0
  <2>1. CASE c \in queued
    <3>1. callers'[c] = Rejected(callers[c]) BY <2>1, <1>4, Zenon
    <3> QED BY <2>0, <2>1, <3>1, RejectedRecord
  <2>2. CASE c \notin queued /\ c \in cut
    <3>1. callers'[c] = [callers[c] EXCEPT !.lane = "closed"] BY <2>2, <1>4, Zenon
    <3>2. callers'[c] \in Caller /\ Steady(callers[c], callers'[c]) BY <3>1, ClosedLane, Zenon
    <3> QED BY <2>2, <3>2
  <2>3. CASE c \notin queued /\ c \notin cut
    <3>1. callers'[c] = callers[c] BY <2>3, <1>4, Zenon
    <3> QED BY <2>0, <2>3, <3>1, SameCaller
  <2> QED BY <2>1, <2>2, <2>3
<1>12. callers' \in [Calls -> Caller]
  <2>1. callers' = [c \in Calls |-> callers'[c]] BY <1>4, Zenon
  <2> QED BY <2>1, <1>11
<1>13. Rejects(queued) BY <1>11, <1>12 DEF Rejects
<1>14. queued \subseteq Range(pool.pending) /\ Range(pool'.pending) \subseteq Range(pool.pending) \ queued
  BY <1>2, <1>8
<1>15. Range(pool'.warm) \subseteq Range(pool.warm) BY <1>8
<1> QED BY <1>5, <1>7, <1>8, <1>9, <1>10, <1>13, <1>14, <1>15, RetiringStep

-----------------------------------------------------------------------------
(* The invariant of the pool over the owner of its environments.            *)

\* The invariant holds at the start.
LEMMA InitialPool == PoolInit => PoolInv
<1> SUFFICES ASSUME PoolInit PROVE PoolInv OBVIOUS
<1>1. NoEnvironment \in Environment /\ Sound(NoEnvironment) /\ NoEnvironment.holder = "none"
      /\ NoEnvironment.phase = "None"
  <2>1. NoEnvironment \in Environment BY Names DEF NoEnvironment, Environment
  <2>2. Sound(NoEnvironment) BY DEF NoEnvironment, Sound
  <2> QED BY <2>1, <2>2 DEF NoEnvironment
<1>2. environments = [e \in Calls |-> NoEnvironment] BY DEF PoolInit, EnvironmentsInit
<1>3. EnvironmentsInv BY <1>1, <1>2 DEF EnvironmentsInv
<1>4. jobs = [e \in Calls |-> NoJob] /\ callers = [c \in Calls |-> NewCall] BY DEF PoolInit
<1>5. pool \in Pool /\ pool.pending = <<>> /\ pool.warm = <<>>
  BY PoolNames DEF PoolInit, Pool, Nobody
<1>6. TypesInv BY <1>4, <1>5, NewRecords DEF TypesInv
<1>7. PendingInv /\ WarmInv BY <1>5, EmptyRange DEF PendingInv, WarmInv
<1>8. ASSUME NEW e \in Calls PROVE HandleKept(e) BY <1>1, <1>2 DEF HandleKept, Held
<1>9. ASSUME NEW e \in Calls PROVE JobInv(e) BY <1>4, NewRecords DEF JobInv
<1>10. ASSUME NEW c \in Calls PROVE CallerInv(c)
  <2>1. ~SettledCall(NewCall) BY DEF SettledCall, NewCall
  <2> QED BY <1>1, <1>2, <1>4, <2>1, NewRecords DEF CallerInv
<1> QED BY <1>3, <1>6, <1>7, <1>8, <1>9, <1>10 DEF PoolInv

\* The owner's steps follow and leave the pool alone.
LEMMA OwnerSteps ==
    ASSUME PoolInv, UNCHANGED <<pool, jobs, callers>>,
           ManagerStep \/ \E e \in Calls : EnvironmentStep(e)
    PROVE  AllFollow
BY ManagerFollows, StepFollows DEF PoolInv

\* Every step keeps the invariant.
LEMMA PoolStep ==
    ASSUME PoolInv, [PoolNext]_poolVars PROVE PoolInv'
<1>1. CASE UNCHANGED poolVars
  <2>1. UNCHANGED <<environments, pool, jobs, callers>> BY <1>1 DEF poolVars, environmentVars
  <2> QED BY <2>1, OwnerStep, UnchangedFollows DEF PoolInv
<1>2. CASE \E c, k \in Calls : StartCall(c, k) BY <1>2, StartCallStep
<1>3. CASE \E c \in Calls : Expire(c) \/ CancelCall(c) \/ Wait(c) BY <1>3, CallerSteps
<1>4. CASE StopPool \/ DispatchEnds BY <1>4, StopPoolStep
<1>5. CASE \E e \in Calls : WaitReady(e) \/ Invoked(e) \/ Receipt(e) BY <1>5, InvokeSteps
<1>6. CASE \E e \in Calls : JobRetired(e) BY <1>6, JobRetiredStep
<1>7. CASE Top BY <1>7, TopStep
<1>8. CASE DispatchWarm BY <1>8, DispatchWarmStep
<1>9. CASE DispatchCold BY <1>9, DispatchColdStep
<1>10. CASE DispatchRejects BY <1>10, DispatchRejectsStep
<1>11. CASE DispatchBusy BY <1>11, DispatchBusyStep
<1>12. CASE \E e \in Calls : Completed(e) BY <1>12, CompletedStep
<1>13. CASE \E e \in Calls : JobPanics(e) BY <1>13, JobPanicsStep
<1>14. CASE \E e \in Calls : Recover(e) BY <1>14, RecoverStep
<1>15. CASE DropPool BY <1>15, DropPoolStep
<1>16. CASE StopOwner
  <2>1. UNCHANGED <<environments, pool, jobs, callers>> BY <1>16 DEF StopOwner, StopManager
  <2> QED BY <2>1, OwnerStep, UnchangedFollows DEF PoolInv
<1>17. CASE UNCHANGED <<pool, jobs, callers>> /\ (ManagerStep \/ \E e \in Calls : EnvironmentStep(e))
  BY <1>17, OwnerSteps, OwnerStep
<1> QED BY <1>1, <1>2, <1>3, <1>4, <1>5, <1>6, <1>7, <1>8, <1>9, <1>10, <1>11, <1>12, <1>13,
           <1>14, <1>15, <1>16, <1>17 DEF PoolNext

\* The invariant of the pool, its jobs and its callers with the records of
\* the environments: every part speaks of what the others keep.
THEOREM PoolInvariant == PoolSpec => []PoolInv
<1>1. PoolInv /\ [PoolNext]_poolVars => PoolInv' BY PoolStep
<1> QED BY InitialPool, <1>1, PTL DEF PoolSpec

-----------------------------------------------------------------------------
(* The capacity.                                                            *)

HeldOnes == {e \in Calls : Held(e)}
CapacityInv == Cardinality(HeldOnes) <= Capacity

\* The calls with a reservation are counted.
LEMMA HeldIsFinite ==
    ASSUME NEW S, S \subseteq Calls PROVE IsFiniteSet(S) /\ Cardinality(S) \in Nat
<1>1. IsFiniteSet(S) BY EnvironmentsAssumption, FS_Subset
<1> QED BY <1>1, FS_CardinalityType

\* only a dispatch to a new environment makes a reservation
LEMMA OtherStepsFollow ==
    ASSUME PoolInv, [PoolNext]_poolVars, ~DispatchCold PROVE AllFollow
<1>0. EnvironmentsInv BY DEF PoolInv
<1>1. ASSUME UNCHANGED environments PROVE AllFollow BY <1>0, <1>1, UnchangedFollows
<1>2. ASSUME NEW R, Cancel(R) PROVE AllFollow BY <1>0, <1>2, CancelFollows
<1>3. ASSUME NEW e \in Calls,
             \/ Set(e, [environments[e] EXCEPT !.mail = TRUE, !.result = "none"])
             \/ Set(e, [environments[e] EXCEPT !.result = "none"])
             \/ Set(e, [environments[e] EXCEPT !.stop = TRUE, !.result = "none"])
      PROVE  AllFollow
  <2>1. environments[e] \in Environment /\ Sound(environments[e]) BY <1>0 DEF EnvironmentsInv
  <2> QED BY <1>0, <1>3, <2>1, PoolFollows, SetFollows, Zenon
<1>4. CASE UNCHANGED poolVars BY <1>4, <1>1 DEF poolVars, environmentVars
<1>5. CASE (\E c, k \in Calls : StartCall(c, k)) \/ \E c \in Calls : Expire(c) \/ CancelCall(c) \/ Wait(c)
  BY <1>5, <1>1 DEF StartCall, Expire, CancelCall, Wait, environmentVars
<1>6. CASE \/ StopPool \/ DispatchEnds \/ DispatchWarm \/ DispatchRejects \/ StopOwner
           \/ \E e \in Calls : JobRetired(e) \/ Recover(e)
  BY <1>6, <1>1 DEF StopPool, DispatchEnds, DispatchWarm, DispatchRejects, RejectFirst, StopOwner,
                    StopManager, JobRetired, Recover, environmentVars
<1>7. CASE \E e \in Calls : WaitReady(e) \/ Invoked(e) \/ Receipt(e)
  <2>1. PICK e \in Calls : WaitReady(e) \/ Invoked(e) \/ Receipt(e) BY <1>7
  <2>2. \/ UNCHANGED environments
        \/ Set(e, [environments[e] EXCEPT !.mail = TRUE, !.result = "none"])
        \/ Set(e, [environments[e] EXCEPT !.result = "none"])
        \/ Set(e, [environments[e] EXCEPT !.stop = TRUE, !.result = "none"])
    BY <2>1, Zenon DEF WaitReady, Invoked, Receipt, Abandon, environmentVars
  <2> QED BY <2>2, <1>1, <1>3
<1>8. CASE Top
  <2>1. \E R : Cancel(R) BY <1>8, Zenon DEF Top, RetireAll
  <2> QED BY <2>1, <1>2
<1>9. CASE DispatchBusy
  <2>1. UNCHANGED environments \/ \E R : Cancel(R) BY <1>9, Zenon DEF DispatchBusy, RetireAll
  <2> QED BY <2>1, <1>1, <1>2
<1>10. CASE \E e \in Calls : Completed(e)
  <2>1. UNCHANGED environments \/ \E R : Cancel(R) BY <1>10, Zenon DEF Completed, RetireAll
  <2> QED BY <2>1, <1>1, <1>2
<1>11. CASE DropPool \/ \E e \in Calls : JobPanics(e)
  <2>1. \E R : Cancel(R) BY <1>11, Zenon DEF DropPool, JobPanics
  <2> QED BY <2>1, <1>2
<1>12. CASE UNCHANGED <<pool, jobs, callers>> /\ (ManagerStep \/ \E e \in Calls : EnvironmentStep(e))
  BY <1>12, OwnerSteps
<1> QED BY <1>4, <1>5, <1>6, <1>7, <1>8, <1>9, <1>10, <1>11, <1>12, Zenon DEF PoolNext

\* Every step keeps the reservations below the capacity.
LEMMA CapacityStep ==
    ASSUME PoolInv, CapacityInv, [PoolNext]_poolVars PROVE CapacityInv'
<1>0. HeldOnes \subseteq Calls /\ HeldOnes' \subseteq Calls BY DEF HeldOnes
<1>1. CASE ~DispatchCold
  <2>1. AllFollow BY <1>1, OtherStepsFollow
  <2>2. HeldOnes' \subseteq HeldOnes BY <2>1 DEF AllFollow, Follows, HeldOnes, Held
  <2>3. Cardinality(HeldOnes') <= Cardinality(HeldOnes)
    BY <1>0, <2>2, HeldIsFinite, FS_Subset
  <2>4. Cardinality(HeldOnes) \in Nat /\ Cardinality(HeldOnes') \in Nat BY <1>0, HeldIsFinite
  <2> QED BY <2>3, <2>4, EnvironmentsAssumption DEF CapacityInv
<1>2. CASE DispatchCold
  <2>0. pool.pending # <<>> /\ environments \in [Calls -> Environment]
    BY <1>2 DEF DispatchCold, Blocked, PoolInv, EnvironmentsInv
  <2>1. PICK c \in Calls : c = pool.pending[1] BY <2>0, FirstPending
  <2>2. Set(c, SpawnedEnvironment) /\ ~Busy BY <1>2, <2>1 DEF DispatchCold
  <2>3. HeldOnes' \subseteq HeldOnes \cup {c} BY <2>0, <2>2 DEF Set, HeldOnes, Held
  <2>4. IsFiniteSet(HeldOnes) /\ Cardinality(HeldOnes) \in Nat BY <1>0, HeldIsFinite
  <2>5. /\ IsFiniteSet(HeldOnes \cup {c})
        /\ Cardinality(HeldOnes \cup {c}) <= Cardinality(HeldOnes) + 1
    <3>1. /\ IsFiniteSet(HeldOnes \cup {c})
          /\ Cardinality(HeldOnes \cup {c}) =
               IF c \in HeldOnes THEN Cardinality(HeldOnes) ELSE Cardinality(HeldOnes) + 1
      BY <2>4, FS_AddElement, Zenon
    <3>2. PICK n \in Nat : n = Cardinality(HeldOnes) BY <2>4
    <3>3. CASE c \in HeldOnes
      <4>1. Cardinality(HeldOnes \cup {c}) = n BY <3>1, <3>2, <3>3, Zenon
      <4> QED BY <4>1, <3>1, <3>2
    <3>4. CASE c \notin HeldOnes
      <4>1. Cardinality(HeldOnes \cup {c}) = n + 1 BY <3>1, <3>2, <3>4, Zenon
      <4> QED BY <4>1, <3>1, <3>2
    <3> QED BY <3>3, <3>4
  <2>6. Cardinality(HeldOnes') <= Cardinality(HeldOnes \cup {c}) BY <2>3, <2>5, FS_Subset
  <2>7. Cardinality(HeldOnes') \in Nat /\ Cardinality(HeldOnes \cup {c}) \in Nat
    BY <1>0, <2>5, HeldIsFinite, FS_CardinalityType
  <2>8. ~(Cardinality(HeldOnes) >= Capacity) BY <2>2 DEF Busy, HeldOnes
  <2> QED BY <2>4, <2>5, <2>6, <2>7, <2>8, EnvironmentsAssumption DEF CapacityInv
<1> QED BY <1>1, <1>2

\* At the start nothing is reserved.
LEMMA InitialCapacity == PoolInit => CapacityInv
<1> SUFFICES ASSUME PoolInit PROVE CapacityInv OBVIOUS
<1>1. HeldOnes = {} BY DEF PoolInit, EnvironmentsInit, HeldOnes, Held, NoEnvironment
<1> QED BY <1>1, FS_EmptySet, EnvironmentsAssumption DEF CapacityInv

-----------------------------------------------------------------------------
(* What the pool promises.                                                  *)

\* A container that exists, or that a request in flight may still create, has
\* a registered owner that has not declared it removed, and the reservations
\* never exceed the capacity, whatever panics, drops or is refused
\* (EnvironmentManager, Actor::drop, Cleaner).
THEOREM ContainersOwnedAlways == PoolSpec => []ContainersOwned
<1>1. PoolInv /\ CapacityInv => ContainersOwned
  BY DEF PoolInv, EnvironmentsInv, CapacityInv, ContainersOwned, Sound, Registered, HeldOnes
<1>2. PoolInv /\ CapacityInv /\ [PoolNext]_poolVars => CapacityInv' BY CapacityStep
<1> QED BY <1>1, <1>2, InitialCapacity, PoolInvariant, PTL DEF PoolSpec

\* An environment whose removal was not announced is warm once or has one job,
\* never both and never neither, through every panic and the loss of the pool's
\* actor (Actor::complete, Actor::drop, RetireAll).
THEOREM HandlesKeptAlways == PoolSpec => []HandlesKept
<1>1. PoolInv => HandlesKept
  <2> SUFFICES ASSUME PoolInv PROVE HandlesKept OBVIOUS
  <2>1. \A e \in Calls : jobs[e].pc # "none" => jobs[e] # NoJob BY NewRecords
  <2>2. \A e \in Range(pool.warm) : jobs[e] = NoJob
    BY QueuesAreCalls DEF PoolInv, WarmInv, JobInv
  <2>3. ASSUME NEW e \in Calls, Held(e) /\ environments[e].done = "none"
        PROVE  jobs[e] # NoJob \/ e \in Range(pool.warm)
    BY <2>1, <2>3 DEF PoolInv, HandleKept
  <2> QED BY <2>2, <2>3 DEF HandlesKept, PoolInv, WarmInv
<1> QED BY <1>1, PoolInvariant, PTL

\* Once a settlement is published, or an error is answered, for a call whose
\* result was not consumed, its environment has no container left and none is
\* on its way (PoolInvocation::settled, retire).
THEOREM SettledMeansGoneAlways == PoolSpec => []SettledMeansGone
<1>1. PoolInv => SettledMeansGone
  <2> SUFFICES ASSUME PoolInv, NEW c \in Calls, callers[c].env # Nobody, ~callers[c].consumed,
                      callers[c].settlement # "none" \/ callers[c].lane = "error"
               PROVE  environments[callers[c].env].container \notin {"inflight", "exists"}
    BY DEF SettledMeansGone
  <2>1. CallerInv(c) /\ callers[c].env \in Calls BY DEF PoolInv, TypesInv, Caller
  <2>2. environments[callers[c].env].done # "none" BY <2>1 DEF CallerInv, SettledCall
  <2> QED BY <2>1, <2>2 DEF PoolInv, EnvironmentsInv, Sound
<1> QED BY <1>1, PoolInvariant, PTL
=============================================================================
