---------------------------- MODULE Replication ----------------------------
(***************************************************************************)
(* One discovered database and its local replica: the daemon's replication *)
(* loop (internal/daemon/daemon.go), the HTTP handlers that start, stop,   *)
(* restore and delete (internal/server/http.go), the scans that update the *)
(* catalog row (http.go and cmd/sqnsl/main.go), the catalog tables they    *)
(* all read and write (internal/catalog/catalog.go), and the application   *)
(* that goes on writing the source file.                                   *)
(*                                                                         *)
(* Every catalog call holds Catalog.mu and is one SQLite statement: one    *)
(* step.  Between two calls any other actor may run.  The replica file is  *)
(* written under replicaLock, except by restore and by the clean-up of a   *)
(* failed start, which take no lock.                                       *)
(*                                                                         *)
(* A file's contents are the version of the source they copy.  Time enters *)
(* the code in one place: replicationSourceChanged compares the source's   *)
(* modification time with LastSync, which the catalog keeps in whole       *)
(* seconds (RFC 3339).  The source counts as changed exactly when it was   *)
(* written at or after the second LastSync was taken in.  So a LastSync is *)
(* "clean" or "dirty" instead of a number, every write makes it dirty, and *)
(* "recent" says that the source was written in the present second.        *)
(***************************************************************************)
EXTENDS Integers

CONSTANTS
  Clients,    \* HTTP requests being served
  Ops,        \* per client the requests it sends
  Syncer,     \* the goroutine of runPeriodicReplicator
  Scans,      \* who scans: "gui" (daemon and HTTP) and "cli" (sqnsl scan)
  Failures,   \* whether file and catalog operations may fail
  Crashes,    \* whether the daemon may be killed and started again
  MaxVersion, \* bound: versions the application gives the source
  MaxSnap     \* bound: snapshot versions of one database

Procs   == Clients \cup {Syncer}
Version == 1 .. MaxVersion
Snap    == 1 .. MaxSnap
Nobody  == "nobody"

Absent  == 0                             \* no file at the path
Torn    == -1                            \* a file no source version explains
Content == {Torn, Absent} \cup Version

ASSUME ReplicationAssumption ==
  /\ Syncer \notin Clients
  /\ Nobody \notin Procs
  /\ Ops \in [Clients -> SUBSET {"start", "stop", "restore", "delete"}]
  /\ Scans \subseteq {"gui", "cli"}
  /\ Failures \in BOOLEAN
  /\ Crashes \in BOOLEAN
  /\ MaxVersion \in Nat \ {0}
  /\ MaxSnap \in Nat \ {0}

VARIABLES
  src,       \* the version the source file holds
  recent,    \* the source was written in the present second
  row,       \* status of the row in discovered_databases, "none" without one
  state,     \* the row in replication_state: "none", or its LastSync
  replica,   \* content of the file at replicaPath
  snapRows,  \* versions in the snapshots table
  snapFile,  \* per version the content of v<N>.sqlite
  lock,      \* holder of replicaLock(replicaPath)
  at,        \* per process: step it is at and its local variables
  scan,      \* status a GUI scan has read, "idle" between scans
  raced,     \* history: the last write fell between the snapshot of a sync
             \* and the LastSync that sync takes
  restored   \* history: the replica was restored and not synced since

vars == <<src, recent, row, state, replica, snapRows, snapFile, lock, at, scan,
          raced, restored>>
catalog == <<row, state, snapRows>>
disk    == <<replica, snapFile>>
history == <<raced, restored>>

Status == {"none", "discovered", "replicating", "paused", "error"}

\* live:   the catalog row whose id it holds still exists
\* ver:    content it has read and is about to write
\* snap:   snapshot version it creates or restores
\* mark:   the source was written after its LastSync
\* whole:  nobody else has written into the replica it has open
\* linked: the file it has open is still the one at replicaPath
\* alone:  history: its snapshot version was free when it chose it, and no
\*         other start chose it since
\* say:    status it is about to store
Local == [pc: {"idle", "resume", "check", "lock", "commit", "vacuum", "install",
               "version", "copy", "save", "remove", "insert", "stamp", "record",
               "status", "truncate", "overwrite"},
          live: BOOLEAN, ver: Content, snap: {0} \cup Snap, mark: BOOLEAN,
          whole: BOOLEAN, linked: BOOLEAN, alone: BOOLEAN, say: Status]

Idle == [pc |-> "idle", live |-> FALSE, ver |-> Absent, snap |-> 0,
         mark |-> FALSE, whole |-> FALSE, linked |-> FALSE, alone |-> FALSE,
         say |-> "none"]

TypeOK ==
  /\ src \in Version
  /\ recent \in BOOLEAN
  /\ row \in Status
  /\ state \in {"none", "clean", "dirty"}
  /\ replica \in Content
  /\ snapRows \in SUBSET Snap
  /\ snapFile \in [Snap -> Content]
  /\ lock \in Procs \cup {Nobody}
  /\ at \in [Procs -> Local]
  /\ scan \in Status \cup {"idle"}
  /\ raced \in BOOLEAN
  /\ restored \in BOOLEAN

\* A freshly scanned database.
Init ==
  /\ src = 1
  /\ recent = FALSE
  /\ row = "discovered"
  /\ state = "none"
  /\ replica = Absent
  /\ snapRows = {}
  /\ snapFile = [v \in Snap |-> Absent]
  /\ lock = Nobody
  /\ at = [p \in Procs |-> Idle]
  /\ scan = "idle"
  /\ raced = FALSE
  /\ restored = FALSE

Become(p, r) == at' = [at EXCEPT ![p] = r]
Goto(p, pc)  == Become(p, [at[p] EXCEPT !.pc = pc])
Leave(p)     == Become(p, Idle)

\* Go and store a status: UpdateStatus is the last thing a process does.
Report(p, s) ==
  Become(p, [Idle EXCEPT !.pc = "status", !.live = at[p].live, !.say = s])

\* What a failed sync leaves in the row: a resumed start gives up, the loop
\* keeps the database replicating and tries again.
FailStatus(p) == IF p = Syncer THEN "replicating" ELSE "error"

\* From the snapshot a sync takes of the source to the LastSync it takes.
InFlight(p) ==
  at[p].pc \in {"commit", "install", "version", "copy", "save", "insert", "stamp"}

\* A process that has replicaPath open: under the lock, or restoring.
UsesReplica(p) == at[p].pc \in {"commit", "overwrite"}

\* What becomes of the others when p writes into the file at replicaPath ...
Spoil(p, r) ==
  [q \in Procs |-> IF q = p THEN r
                   ELSE IF UsesReplica(q) /\ at[q].linked
                     THEN [at[q] EXCEPT !.whole = FALSE] ELSE at[q]]
\* ... and when it unlinks that file or renames another one over it.
Unlink(p, r) ==
  [q \in Procs |-> IF q = p THEN r
                   ELSE IF UsesReplica(q)
                     THEN [at[q] EXCEPT !.linked = FALSE] ELSE at[q]]

-----------------------------------------------------------------------------
(* Around the replication                                                  *)

\* The application commits a change to the source.  Every LastSync taken so
\* far is now older than the file.
Write ==
  /\ src < MaxVersion
  /\ src' = src + 1
  /\ recent' = TRUE
  /\ state' = IF state = "none" THEN "none" ELSE "dirty"
  /\ at' = [p \in Procs |->
       IF at[p].pc = "record" THEN [at[p] EXCEPT !.mark = TRUE] ELSE at[p]]
  /\ raced' = (\E p \in Procs : InFlight(p))
  /\ UNCHANGED <<row, replica, snapRows, snapFile, lock, scan, restored>>

\* The second ends.
Tick ==
  /\ recent
  /\ recent' = FALSE
  /\ UNCHANGED <<src, catalog, disk, lock, at, scan, history>>

\* The daemon is killed and started again: SQLite rolls unfinished
\* transactions back, temporary files stay temporary, locks are in memory.
Crash ==
  /\ Crashes
  /\ at' = [p \in Procs |-> Idle]
  /\ lock' = Nobody
  /\ scan' = "idle"
  /\ UNCHANGED <<src, recent, catalog, disk, history>>

-----------------------------------------------------------------------------
(* handleStartReplication                                                  *)

StartReplication(c) ==
  /\ at[c].pc = "idle"
  /\ "start" \in Ops[c]
  /\ row # "none"
  /\ Become(c, [Idle EXCEPT !.pc = "resume", !.live = TRUE])
  /\ UNCHANGED <<src, recent, catalog, disk, lock, scan, history>>

\* With a replication state and a replica: sync it.  Otherwise: make them.
Resume(c) ==
  /\ at[c].pc = "resume"
  /\ Goto(c, IF at[c].live /\ state # "none" /\ replica # Absent
               THEN "lock" ELSE "vacuum")
  /\ UNCHANGED <<src, recent, catalog, disk, lock, scan, history>>

\* A catalog read or the copy returns an error.
StartFails(c) ==
  /\ Failures
  /\ at[c].pc \in {"resume", "vacuum", "install", "version"}
  /\ lock' = IF lock = c THEN Nobody ELSE lock
  /\ Leave(c)
  /\ UNCHANGED <<src, recent, catalog, disk, scan, history>>

\* InitialSync: VACUUM INTO a temporary file, under the lock ...
Vacuum(c) ==
  /\ at[c].pc = "vacuum"
  /\ lock = Nobody
  /\ lock' = c
  /\ Become(c, [at[c] EXCEPT !.pc = "install", !.ver = src])
  /\ UNCHANGED <<src, recent, catalog, disk, scan, history>>

\* ... and rename it over the replica.
Install(c) ==
  /\ at[c].pc = "install"
  /\ replica' = at[c].ver
  /\ at' = Unlink(c, [at[c] EXCEPT !.pc = "version", !.ver = Absent])
  /\ lock' = Nobody
  /\ restored' = FALSE
  /\ UNCHANGED <<src, recent, catalog, snapFile, scan, raced>>

\* Who makes the snapshot v<N>.sqlite.
Numbers(p, v) == at[p].pc \in {"copy", "save", "insert"} /\ at[p].snap = v

\* c goes on with snapshot version v, which others may have chosen, too.
ChooseVersion(c, v) ==
  at' = [q \in Procs |->
           IF q = c
             THEN [at[c] EXCEPT !.pc = "copy", !.snap = v,
                                !.alone = at[c].live /\ ~ \E p \in Procs : Numbers(p, v)]
           ELSE IF Numbers(q, v) THEN [at[q] EXCEPT !.alone = FALSE] ELSE at[q]]

\* Mistake: MAX(version) without + 1.
CurrentSnapshotVersion(c) ==
  /\ at[c].pc = "version"
  /\ \E v \in {0} \cup snapRows :
       /\ \A w \in snapRows : w <= v
       /\ ChooseVersion(c, v)
  /\ UNCHANGED <<src, recent, catalog, disk, lock, scan, history>>

\* Mistake: every start makes v1.sqlite.
FirstSnapshotVersion(c) ==
  /\ at[c].pc = "version"
  /\ ChooseVersion(c, 1)
  /\ UNCHANGED <<src, recent, catalog, disk, lock, scan, history>>

\* NextSnapshotVersion: MAX(version) + 1, or 1.
NextSnapshotVersion(c) ==
  /\ at[c].pc = "version"
  /\ \E v \in Snap :
       /\ IF at[c].live THEN v - 1 \in snapRows \cup {0} /\ \A w \in snapRows : w < v
                        ELSE v = 1
       /\ ChooseVersion(c, v)
  /\ UNCHANGED <<src, recent, catalog, disk, lock, scan, history>>

\* CreateSnapshot reads the replica, without the lock ...
CopyReplica(c) ==
  /\ at[c].pc = "copy"
  /\ Become(c, IF replica = Absent THEN [at[c] EXCEPT !.pc = "remove"]
               ELSE [at[c] EXCEPT !.pc = "save", !.ver = replica])
  /\ UNCHANGED <<src, recent, catalog, disk, lock, scan, history>>

\* ... and renames the copy to v<N>.sqlite.
SaveSnapshot(c) ==
  /\ at[c].pc = "save"
  /\ snapFile' = [snapFile EXCEPT ![at[c].snap] = at[c].ver]
  /\ Become(c, [at[c] EXCEPT !.pc = "insert", !.ver = Absent,
                             !.alone = FALSE])
  /\ UNCHANGED <<src, recent, catalog, replica, lock, scan, history>>

\* Mistake: the error is logged and the start goes on.
SnapshotFailsOn(c) ==
  /\ at[c].pc \in {"copy", "save"}
  /\ Failures \/ replica = Torn
  /\ Goto(c, "insert")
  /\ UNCHANGED <<src, recent, catalog, disk, lock, scan, history>>

SnapshotFails(c) ==
  /\ at[c].pc \in {"copy", "save"}
  /\ Failures \/ replica = Torn
  /\ Goto(c, "remove")
  /\ UNCHANGED <<src, recent, catalog, disk, lock, scan, history>>

\* os.Remove(replicaPath): whatever file is there by now.
RemoveReplica(c) ==
  /\ at[c].pc = "remove"
  /\ replica' = Absent
  /\ at' = Unlink(c, Idle)
  /\ UNCHANGED <<src, recent, catalog, snapFile, lock, scan, history>>

\* The schema version and the snapshot row; both refer to the database's
\* row, and a snapshot version is inserted once.  The four calls (the replica's
\* schema, the latest version, the new one, the row) are one step: nothing
\* modelled here depends on the first three, and a failure of any of them ends
\* the start as InsertFails does.
InsertSnapshot(c) ==
  /\ at[c].pc = "insert"
  /\ at[c].live /\ at[c].snap \notin snapRows
  /\ snapRows' = snapRows \cup {at[c].snap}
  /\ Become(c, [at[c] EXCEPT !.pc = "stamp", !.snap = 0])
  /\ UNCHANGED <<src, recent, row, state, disk, lock, scan, history>>

InsertFails(c) ==
  /\ at[c].pc = "insert"
  /\ Failures \/ ~ at[c].live \/ at[c].snap \in snapRows
  /\ Leave(c)
  /\ UNCHANGED <<src, recent, catalog, disk, lock, scan, history>>

-----------------------------------------------------------------------------
(* syncReplications, one turn for this database                            *)

SyncBegin ==
  /\ at[Syncer].pc = "idle"
  /\ row = "replicating"
  /\ Become(Syncer, [Idle EXCEPT !.pc = "check", !.live = TRUE])
  /\ UNCHANGED <<src, recent, catalog, disk, lock, scan, history>>

\* GetReplicationState and replicationSourceChanged.
CheckSource ==
  LET found == at[Syncer].live /\ state # "none" IN
  /\ at[Syncer].pc = "check"
  /\ \/ ~ found /\ Report(Syncer, "error")
     \/ found /\ state = "clean" /\ Leave(Syncer)
     \/ found /\ state = "dirty" /\ Goto(Syncer, "lock")
  /\ UNCHANGED <<src, recent, catalog, disk, lock, scan, history>>

\* The replication state cannot be read, or the source file examined.
CheckFails ==
  /\ Failures
  /\ at[Syncer].pc = "check"
  /\ \/ Report(Syncer, "error")
     \/ at[Syncer].live /\ state # "none" /\ Report(Syncer, "replicating")
  /\ UNCHANGED <<src, recent, catalog, disk, lock, scan, history>>

-----------------------------------------------------------------------------
(* DifferentialSyncContext, for the loop and for a resumed start           *)

\* Mistake: no replicaLock.
BeginSyncUnlocked(p) ==
  /\ at[p].pc = "lock"
  /\ replica # Absent
  /\ Become(p, [at[p] EXCEPT !.pc = "commit", !.ver = src,
                             !.whole = TRUE, !.linked = TRUE])
  /\ UNCHANGED <<src, recent, catalog, disk, lock, scan, history>>

\* Under the lock: the replica is there; a read transaction on the source
\* and a write transaction on the replica begin.
BeginSync(p) ==
  /\ at[p].pc = "lock"
  /\ lock = Nobody
  /\ replica # Absent
  /\ lock' = p
  /\ Become(p, [at[p] EXCEPT !.pc = "commit", !.ver = src,
                             !.whole = TRUE, !.linked = TRUE])
  /\ UNCHANGED <<src, recent, catalog, disk, scan, history>>

BeginSyncFails(p) ==
  /\ at[p].pc = "lock"
  /\ lock = Nobody
  /\ Failures \/ replica \in {Absent, Torn}
  /\ Report(p, FailStatus(p))
  /\ UNCHANGED <<src, recent, catalog, disk, lock, scan, history>>

\* The replica's contents after the commit: those of the source snapshot, if
\* the file is the one the transaction began on and nobody else wrote to it.
Committed(p) ==
  IF ~ at[p].linked THEN {replica}
  ELSE IF at[p].whole /\ replica # Torn THEN {at[p].ver}
  ELSE {at[p].ver, Torn}

CommitSync(p) ==
  /\ at[p].pc = "commit"
  /\ replica' \in Committed(p)
  /\ at' = Spoil(p, [Idle EXCEPT !.pc = "stamp", !.live = at[p].live])
  /\ lock' = Nobody
  /\ restored' = (restored /\ Committed(p) # {at[p].ver})
  /\ UNCHANGED <<src, recent, catalog, snapFile, scan, raced>>

\* Mistake: the error is logged and LastSync advances all the same.
CommitFailsOn(p) ==
  /\ at[p].pc = "commit"
  /\ Failures \/ ~ at[p].whole \/ ~ at[p].linked \/ replica = Torn
  /\ Goto(p, "stamp")
  /\ lock' = Nobody
  /\ UNCHANGED <<src, recent, catalog, disk, scan, history>>

\* Mistake: no unlock on the way out.
CommitFailsLocked(p) ==
  /\ at[p].pc = "commit"
  /\ Failures \/ ~ at[p].whole \/ ~ at[p].linked \/ replica = Torn
  /\ Report(p, FailStatus(p))
  /\ UNCHANGED <<src, recent, catalog, disk, lock, scan, history>>

\* Rolled back, and the lock released.
CommitFails(p) ==
  /\ at[p].pc = "commit"
  /\ Failures \/ ~ at[p].whole \/ ~ at[p].linked \/ replica = Torn
  /\ Report(p, FailStatus(p))
  /\ lock' = Nobody
  /\ UNCHANGED <<src, recent, catalog, disk, scan, history>>

-----------------------------------------------------------------------------
(* The end of every sync                                                   *)

\* LastSync = time.Now()
Stamp(p) ==
  /\ at[p].pc = "stamp"
  /\ Become(p, [at[p] EXCEPT !.pc = "record", !.mark = recent])
  /\ UNCHANGED <<src, recent, catalog, disk, lock, scan, history>>

\* SetReplicationState refers to the database's row.
Record(p) ==
  /\ at[p].pc = "record"
  /\ at[p].live
  /\ state' = IF at[p].mark THEN "dirty" ELSE "clean"
  /\ Report(p, "replicating")
  /\ UNCHANGED <<src, recent, row, snapRows, disk, lock, scan, history>>

\* SetReplicationState or UpdateStatus returns an error.
StoreFails(p) ==
  /\ \/ at[p].pc = "record" /\ (Failures \/ ~ at[p].live)
     \/ at[p].pc = "status" /\ Failures
  /\ Leave(p)
  /\ UNCHANGED <<src, recent, catalog, disk, lock, scan, history>>

\* Mistake: UPDATE ... WHERE source_path instead of WHERE id.
UpdateStatusByPath(p) ==
  /\ at[p].pc = "status"
  /\ row' = IF row # "none" THEN at[p].say ELSE row
  /\ Leave(p)
  /\ UNCHANGED <<src, recent, state, snapRows, disk, lock, scan, history>>

\* UpdateStatus, of the row it knew when it began: that row may be gone.
UpdateStatus(p) ==
  /\ at[p].pc = "status"
  /\ row' = IF at[p].live THEN at[p].say ELSE row
  /\ Leave(p)
  /\ UNCHANGED <<src, recent, state, snapRows, disk, lock, scan, history>>

-----------------------------------------------------------------------------
(* The other handlers                                                      *)

StopReplication(c) ==
  /\ at[c].pc = "idle"
  /\ "stop" \in Ops[c]
  /\ row # "none"
  /\ row' = "paused"
  /\ UNCHANGED <<src, recent, state, snapRows, disk, lock, at, scan, history>>

\* DeleteDiscovered cascades to the other tables; files stay.
DeleteDiscovered(c) ==
  /\ at[c].pc = "idle"
  /\ "delete" \in Ops[c]
  /\ row # "none"
  /\ row' = "none"
  /\ state' = "none"
  /\ snapRows' = {}
  /\ at' = [p \in Procs |-> [at[p] EXCEPT !.live = FALSE]]
  /\ UNCHANGED <<src, recent, disk, lock, scan, history>>

\* handleRestore: choose a snapshot the catalog lists ...
Restore(c) ==
  /\ at[c].pc = "idle"
  /\ "restore" \in Ops[c]
  /\ row # "none"
  /\ \E v \in snapRows : Become(c, [Idle EXCEPT !.pc = "truncate", !.snap = v])
  /\ UNCHANGED <<src, recent, catalog, disk, lock, scan, history>>

\* ... open it, os.Create the replica, which empties the file in place ...
Truncate(c) ==
  /\ at[c].pc = "truncate"
  /\ replica' = Torn
  /\ at' = Spoil(c, [Idle EXCEPT !.pc = "overwrite", !.ver = snapFile[at[c].snap],
                                 !.whole = TRUE, !.linked = TRUE])
  /\ restored' = TRUE
  /\ UNCHANGED <<src, recent, catalog, snapFile, lock, scan, raced>>

\* ... and copy.
Overwrite(c) ==
  /\ at[c].pc = "overwrite"
  /\ IF at[c].linked
       THEN /\ replica' \in IF at[c].whole THEN {at[c].ver} ELSE {at[c].ver, Torn}
            /\ at' = Spoil(c, Idle)
            /\ restored' = TRUE
       ELSE /\ Leave(c)
            /\ UNCHANGED <<replica, restored>>
  /\ UNCHANGED <<src, recent, catalog, snapFile, lock, scan, raced>>

\* The copy failed: os.Remove(targetPath).
OverwriteFails(c) ==
  /\ Failures
  /\ at[c].pc = "overwrite"
  /\ replica' = Absent
  /\ at' = Unlink(c, Idle)
  /\ UNCHANGED <<src, recent, catalog, snapFile, lock, scan, history>>

-----------------------------------------------------------------------------
(* Scans                                                                   *)

\* HTTPServer.Scan reads the row ...
ScanRead ==
  /\ "gui" \in Scans
  /\ scan = "idle"
  /\ scan' = row
  /\ UNCHANGED <<src, recent, catalog, disk, lock, at, history>>

\* ... and either finds the metadata unchanged and touches nothing modelled
\* here, or upserts it together with the status it has read.
ScanSame ==
  /\ scan \notin {"idle", "none"}
  /\ scan' = "idle"
  /\ UNCHANGED <<src, recent, catalog, disk, lock, at, history>>

ScanUpsert ==
  /\ scan # "idle"
  /\ row' = IF scan = "none" THEN "discovered" ELSE scan
  /\ scan' = "idle"
  /\ UNCHANGED <<src, recent, state, snapRows, disk, lock, at, history>>

\* sqnsl scan upserts without a status, which stands for "discovered".
CliScan ==
  /\ "cli" \in Scans
  /\ row' = "discovered"
  /\ UNCHANGED <<src, recent, state, snapRows, disk, lock, at, scan, history>>

-----------------------------------------------------------------------------
Start(c) ==
  \/ StartReplication(c) \/ Resume(c)
  \/ Vacuum(c) \/ StartFails(c) \/ Install(c)
  \/ NextSnapshotVersion(c) \/ CopyReplica(c) \/ SaveSnapshot(c)
  \/ SnapshotFails(c) \/ RemoveReplica(c) \/ InsertSnapshot(c) \/ InsertFails(c)

Sync(p) ==
  \/ BeginSync(p) \/ BeginSyncFails(p) \/ CommitSync(p) \/ CommitFails(p)
  \/ Stamp(p) \/ Record(p) \/ StoreFails(p) \/ UpdateStatus(p)

RestoreStep(c) == Restore(c) \/ Truncate(c) \/ Overwrite(c) \/ OverwriteFails(c)

Next ==
  \/ \E c \in Clients : \/ Start(c) \/ RestoreStep(c)
                        \/ StopReplication(c) \/ DeleteDiscovered(c)
  \/ \E p \in Procs : Sync(p)
  \/ SyncBegin \/ CheckSource \/ CheckFails
  \/ ScanRead \/ ScanSame \/ ScanUpsert \/ CliScan
  \/ Write \/ Tick \/ Crash

Spec == Init /\ [][Next]_vars

\* The loop runs as long as the daemon does, and whoever holds the lock
\* releases it, one way or the other.  Failures are transient: a step of the
\* loop that is possible again and again succeeds once, which includes its
\* turn at the mutex (Go's mutexes do not starve a waiter).
FairSpec ==
  /\ Spec
  /\ WF_vars(SyncBegin)
  /\ SF_vars(CheckSource) /\ SF_vars(BeginSync(Syncer)) /\ SF_vars(CommitSync(Syncer))
  /\ WF_vars(BeginSyncFails(Syncer)) /\ SF_vars(Stamp(Syncer))
  /\ WF_vars(Record(Syncer) \/ StoreFails(Syncer))
  /\ WF_vars(UpdateStatus(Syncer) \/ StoreFails(Syncer))
  /\ \A c \in Clients : /\ WF_vars(Install(c) \/ StartFails(c))
                        /\ WF_vars(CommitSync(c) \/ CommitFails(c))

-----------------------------------------------------------------------------
(* Properties                                                              *)

\* LastSync may be trusted: while it says that nothing was written since, the
\* replica has the contents of the source (or is gone).  Two things break
\* this, and the history variables say so: a write that falls between the
\* snapshot a sync reads and the LastSync it takes, and a restore.
CleanMeansCurrent ==
  (state = "clean" /\ ~ raced /\ ~ restored) => replica \in {src, Absent}

\* A sync never takes the replica back to an older version of the source,
\* because it reads the source and writes the replica under one lock.  Only
\* a restore does.
ReplicaMonotone ==
  [][({replica, replica'} \subseteq Version /\ ~ \E c \in Clients : Overwrite(c))
       => replica' >= replica]_vars

\* No handler and no turn of the loop leaves a database marked replicating
\* without the replication state the loop needs, also when the database is
\* deleted and registered anew in the middle.  Only a scan can, with the
\* status it read before the deletion.
ReplicatingHasState ==
  [][row' = "replicating" /\ state' = "none"
       => (row = "replicating" /\ state = "none") \/ ScanUpsert]_vars

\* Every snapshot the catalog lists has its file, so that a restore never
\* answers "snapshot not found": the file is renamed into place before the row
\* is stored, a failed copy stores none, and no start, deletion or restart in
\* between takes the file away.
SnapshotsRestorable == \A v \in snapRows : snapFile[v] # Absent

\* A snapshot keeps its contents from the moment it is recorded, also when its
\* database is replicated anew.  Only a start that shares the version with
\* another one, or that has outlived the deletion of its row, writes over it.
SnapshotsStay ==
  [][\A v \in snapRows \cap snapRows' :
       snapFile'[v] # snapFile[v] => \E c \in Clients : SaveSnapshot(c) /\ ~ at[c].alone]_vars

\* A database that stays replicating and keeps its replica catches up with
\* its source, through failures, once the application stops writing; except
\* for the write that raced with a sync.
QuietCatchesUp ==
  <>[](row = "replicating" /\ replica # Absent) => <>[](raced \/ replica = src)

\* CleanMeansCurrent without the exception for writes during a sync, whenever
\* no sync is on its way to mend it.  docs/usage.md: "When a change is
\* detected, it compares table definitions and row sets, replaces changed
\* tables transactionally".
EveryChangeReplicated ==
  (state = "clean" /\ ~ restored)
    => (replica \in {src, Absent} \/ \E p \in Procs : InFlight(p))

\* docs/usage.md: "`sqnsl replicate stop <name>` pauses a replica; selecting
\* replication again or running `sqnsl replicate <name>` resumes it".
PauseHolds ==
  [][row = "paused" /\ row' = "replicating"
       => \E c \in Clients : UpdateStatus(c)]_vars
=============================================================================
