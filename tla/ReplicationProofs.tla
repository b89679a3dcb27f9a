------------------------- MODULE ReplicationProofs -------------------------
(***************************************************************************)
(* Proofs about Replication for any number of clients, requests, source    *)
(* versions and snapshots.                                                 *)
(***************************************************************************)
EXTENDS Replication, TLAPS

\* A process that handles a snapshot has chosen its version.
Numbered ==
  \A p \in Procs :
    at[p].pc \in {"copy", "save", "insert", "truncate"} => at[p].snap \in Snap

\* Who is between the source snapshot and the end of a write holds the lock,
\* and the snapshot is a version of the source.
Locked ==
  \A p \in Procs :
    at[p].pc \in {"commit", "install"} => lock = p /\ at[p].ver \in Version

\* No copy is newer than the source, and none is newer than the snapshot the
\* holder of the lock is about to write.
CopiesUpTo(v) ==
  /\ replica <= v
  /\ \A s \in Snap : snapFile[s] <= v
  /\ \A q \in Procs : at[q].ver <= v

Bounded ==
  /\ CopiesUpTo(src)
  /\ \A p \in Procs : at[p].pc \in {"commit", "install"} => CopiesUpTo(at[p].ver)

\* Without a restore nobody writes into an open replica or tears it, and a
\* file that a sync has open and that was unlinked is gone for good.
Undisturbed ==
  ~ restored =>
    /\ replica # Torn
    /\ \A p \in Procs : at[p].pc = "commit" =>
         IF at[p].linked THEN at[p].whole ELSE replica = Absent

\* The last write raced with no sync: syncs on their way carry it.
Carried ==
  ~ raced => \A p \in Procs : at[p].pc \in {"commit", "install"} => at[p].ver = src

\* Who took or is about to take a LastSync that covers the last write has
\* left the replica with the contents of the source.
Covers(r) ==
  \/ r.pc \in {"version", "copy", "save", "insert", "stamp"}
  \/ r.pc = "record" /\ ~ r.mark

Covered ==
  (~ raced /\ ~ restored /\ (state = "clean" \/ \E p \in Procs : Covers(at[p])))
    => replica \in {src, Absent}

\* Who is about to write "replicating" to a row that still exists has seen
\* the replication state, which lives as long as the row.
Promises(p, r) ==
  r.live /\ (\/ r.pc = "status" /\ r.say = "replicating"
             \/ p = Syncer /\ r.pc \in {"lock", "commit"})

Backed == \A p \in Procs : Promises(p, at[p]) => state # "none"

Inv == TypeOK /\ Numbered /\ Locked /\ Bounded /\ Undisturbed /\ Carried /\ Covered /\ Backed

-----------------------------------------------------------------------------
(* Types                                                                   *)

LEMMA BecomeType ==
  ASSUME TypeOK, NEW p \in Procs, NEW r \in Local, Become(p, r)
  PROVE  at' \in [Procs -> Local]
  BY DEF TypeOK, Become

\* What a process is told about the replica it has open stays well typed.
LEMMA SpoilType ==
  ASSUME TypeOK, NEW p \in Procs, NEW r \in Local
  PROVE  Spoil(p, r) \in [Procs -> Local] /\ Unlink(p, r) \in [Procs -> Local]
<1>1. ASSUME NEW q \in Procs
      PROVE  /\ [at[q] EXCEPT !.whole = FALSE] \in Local
             /\ [at[q] EXCEPT !.linked = FALSE] \in Local
             /\ at[q] \in Local
  BY DEF TypeOK, Local
<1>. QED BY <1>1 DEF Spoil, Unlink

LEMMA IdleType == Idle \in Local
  BY DEF Idle, Local, Content, Status, Absent

\* A process that only goes on to its next step, or to report a status.
LEMMA StepType ==
  ASSUME TypeOK, NEW p \in Procs
  PROVE  /\ \A s \in {"idle", "resume", "check", "lock", "commit", "vacuum", "install",
                      "version", "copy", "save", "remove", "insert", "stamp", "record",
                      "status", "truncate", "overwrite"} :
              [at[p] EXCEPT !.pc = s] \in Local
         /\ \A s \in Status :
              [Idle EXCEPT !.pc = "status", !.live = at[p].live, !.say = s] \in Local
  BY IdleType DEF TypeOK, Local

LEMMA InitType == Init => TypeOK
<1> SUFFICES ASSUME Init PROVE TypeOK OBVIOUS
<1>1. 1 \in Version BY ReplicationAssumption DEF Version
<1>2. Absent \in Content BY DEF Content
<1>. QED BY <1>1, <1>2, IdleType DEF Init, TypeOK, Status

LEMMA SyncType == ASSUME TypeOK, NEW p \in Procs, Sync(p) PROVE TypeOK'
<1> USE DEF vars, catalog, disk, history
<1>1. CASE BeginSync(p)
  <2>1. [at[p] EXCEPT !.pc = "commit", !.ver = src, !.whole = TRUE, !.linked = TRUE] \in Local
    BY ZenonT(30) DEF TypeOK, Local, Content
  <2>. QED BY <1>1, <2>1, BecomeType DEF BeginSync, TypeOK
<1>2. CASE BeginSyncFails(p) \/ CommitFails(p)
  <2>1. FailStatus(p) \in Status BY DEF FailStatus, Status
  <2>2. at' \in [Procs -> Local]
    BY <1>2, <2>1, StepType, BecomeType DEF BeginSyncFails, CommitFails, Report
  <2>. QED BY <1>2, <2>2 DEF BeginSyncFails, CommitFails, TypeOK
<1>3. CASE CommitSync(p)
  <2>1. [Idle EXCEPT !.pc = "stamp", !.live = at[p].live] \in Local
    BY IdleType DEF TypeOK, Local
  <2>2. at' \in [Procs -> Local] BY <1>3, <2>1, SpoilType DEF CommitSync
  <2>3. Committed(p) \subseteq Content BY DEF Committed, TypeOK, Local, Content
  <2>4. restored' \in BOOLEAN BY <1>3 DEF CommitSync
  <2>. QED BY <1>3, <2>2, <2>3, <2>4 DEF CommitSync, TypeOK
<1>4. CASE Stamp(p)
  <2>1. [at[p] EXCEPT !.pc = "record", !.mark = recent] \in Local BY ZenonT(30) DEF TypeOK, Local
  <2>. QED BY <1>4, <2>1, BecomeType DEF Stamp, TypeOK
<1>5. CASE Record(p)
  <2>1. at' \in [Procs -> Local]
    BY <1>5, StepType, BecomeType DEF Record, Report, Status
  <2>. QED BY <1>5, <2>1 DEF Record, TypeOK
<1>6. CASE StoreFails(p)
  <2>1. at' \in [Procs -> Local] BY <1>6, IdleType, BecomeType DEF StoreFails, Leave
  <2>. QED BY <1>6, <2>1 DEF StoreFails, TypeOK
<1>7. CASE UpdateStatus(p)
  <2>1. at' \in [Procs -> Local] BY <1>7, IdleType, BecomeType DEF UpdateStatus, Leave
  <2>2. row' \in Status BY <1>7 DEF UpdateStatus, TypeOK, Local
  <2>. QED BY <1>7, <2>1, <2>2 DEF UpdateStatus, TypeOK
<1>. QED BY <1>1, <1>2, <1>3, <1>4, <1>5, <1>6, <1>7 DEF Sync

\* A start that has chosen its snapshot version disturbs the others in nothing
\* but their claim to be alone with theirs.
LEMMA ChosenVersion ==
  ASSUME TypeOK, NEW c \in Clients, NextSnapshotVersion(c)
  PROVE  /\ at' \in [Procs -> Local]
         /\ at'[c].pc = "copy" /\ at'[c].ver = at[c].ver /\ at'[c].snap \in Snap
         /\ at'[c].alone => /\ at'[c].snap \notin snapRows
                           /\ \A p \in Procs : ~ Numbers(p, at'[c].snap)
         /\ \A q \in Procs \ {c} :
              \/ at'[q] = at[q] /\ ~ Numbers(q, at'[c].snap)
              \/ at'[q] = [at[q] EXCEPT !.alone = FALSE]
<1>1. /\ c \in Procs /\ at[c] \in Local
      /\ \A q \in Procs : at[q] \in Local /\ [at[q] EXCEPT !.alone = FALSE] \in Local
  BY ZenonT(30) DEF Procs, TypeOK, Local
<1>2. PICK v \in Snap : /\ at[c].live => \A w \in snapRows : w < v
                        /\ ChooseVersion(c, v)
  BY DEF NextSnapshotVersion
<1> DEFINE a == at[c].live /\ ~ \E p \in Procs : Numbers(p, v)
           r == [at[c] EXCEPT !.pc = "copy", !.snap = v, !.alone = a]
<1>3. /\ r \in Local /\ r.pc = "copy" /\ r.ver = at[c].ver /\ r.snap = v
      /\ r.alone = a
  <2>1. a \in BOOLEAN OBVIOUS
  <2>. HIDE DEF a
  <2>. QED BY <1>1, <2>1 DEF Local
<1>4. /\ at'[c] = r
      /\ \A q \in Procs \ {c} :
           at'[q] = IF Numbers(q, v) THEN [at[q] EXCEPT !.alone = FALSE] ELSE at[q]
      /\ at' = [q \in Procs |-> at'[q]]
  BY <1>1, <1>2, Zenon DEF ChooseVersion
<1>5. at[c].live => v \notin snapRows
  <2>1. v \in Int BY ReplicationAssumption DEF Snap
  <2>. QED BY <1>2, <2>1
<1>6. r.alone => at[c].live /\ \A p \in Procs : ~ Numbers(p, v) BY <1>3
<1>. HIDE DEF r, a
<1>7. at' \in [Procs -> Local] BY <1>1, <1>3, <1>4
<1>. QED BY <1>3, <1>4, <1>5, <1>6, <1>7

LEMMA StartType == ASSUME TypeOK, Numbered, NEW c \in Clients, Start(c) PROVE TypeOK'
<1> USE DEF vars, catalog, disk, history
<1>0. c \in Procs BY DEF Procs
<1>1. CASE StartReplication(c)
  <2>1. [Idle EXCEPT !.pc = "resume", !.live = TRUE] \in Local BY IdleType DEF Local
  <2>. QED BY <1>0, <1>1, <2>1, BecomeType DEF StartReplication, TypeOK
<1>2. CASE Resume(c)
  <2>1. at' \in [Procs -> Local] BY <1>0, <1>2, StepType, BecomeType DEF Resume, Goto
  <2>. QED BY <1>2, <2>1 DEF Resume, TypeOK
<1>3. CASE Vacuum(c)
  <2>1. [at[c] EXCEPT !.pc = "install", !.ver = src] \in Local
    BY <1>0, ZenonT(30) DEF TypeOK, Local, Content
  <2>. QED BY <1>0, <1>3, <2>1, BecomeType DEF Vacuum, TypeOK
<1>4. CASE StartFails(c) \/ InsertFails(c)
  <2>1. at' \in [Procs -> Local]
    BY <1>0, <1>4, IdleType, BecomeType DEF StartFails, InsertFails, Leave
  <2>. QED BY <1>4, <2>1 DEF StartFails, InsertFails, TypeOK
<1>5. CASE Install(c)
  <2>1. [at[c] EXCEPT !.pc = "version", !.ver = Absent] \in Local
    BY <1>0, ZenonT(30) DEF TypeOK, Local, Content
  <2>2. at' \in [Procs -> Local] BY <1>0, <1>5, <2>1, SpoilType DEF Install
  <2>3. replica' \in Content BY <1>0, <1>5 DEF Install, TypeOK, Local
  <2>. QED BY <1>5, <2>2, <2>3 DEF Install, TypeOK
<1>6. CASE NextSnapshotVersion(c)
  <2>1. at' \in [Procs -> Local] BY <1>6, ChosenVersion
  <2>. QED BY <1>6, <2>1 DEF NextSnapshotVersion, TypeOK
<1>7. CASE CopyReplica(c)
  <2>1. [at[c] EXCEPT !.pc = "save", !.ver = replica] \in Local
    BY <1>0, ZenonT(30) DEF TypeOK, Local
  <2>2. at' \in [Procs -> Local]
    BY <1>0, <1>7, <2>1, StepType, BecomeType DEF CopyReplica
  <2>. QED BY <1>7, <2>2 DEF CopyReplica, TypeOK
<1>8. CASE SaveSnapshot(c)
  <2>1. [at[c] EXCEPT !.pc = "insert", !.ver = Absent, !.alone = FALSE] \in Local
    BY <1>0, ZenonT(30) DEF TypeOK, Local, Content
  <2>2. snapFile' \in [Snap -> Content] BY <1>0, <1>8 DEF SaveSnapshot, TypeOK, Local
  <2>. QED BY <1>0, <1>8, <2>1, <2>2, BecomeType DEF SaveSnapshot, TypeOK
<1>9. CASE SnapshotFails(c)
  <2>1. at' \in [Procs -> Local] BY <1>0, <1>9, StepType, BecomeType DEF SnapshotFails, Goto
  <2>. QED BY <1>9, <2>1 DEF SnapshotFails, TypeOK
<1>10. CASE RemoveReplica(c)
  <2>1. at' \in [Procs -> Local] BY <1>0, <1>10, IdleType, SpoilType DEF RemoveReplica
  <2>2. replica' \in Content BY <1>10 DEF RemoveReplica, Content
  <2>. QED BY <1>10, <2>1, <2>2 DEF RemoveReplica, TypeOK
<1>11. CASE InsertSnapshot(c)
  <2>1. [at[c] EXCEPT !.pc = "stamp", !.snap = 0] \in Local BY <1>0, ZenonT(30) DEF TypeOK, Local
  <2>2. snapRows' \in SUBSET Snap BY <1>0, <1>11 DEF InsertSnapshot, TypeOK, Numbered
  <2>. QED BY <1>0, <1>11, <2>1, <2>2, BecomeType DEF InsertSnapshot, TypeOK
<1>. QED
  BY <1>1, <1>2, <1>3, <1>4, <1>5, <1>6, <1>7, <1>8, <1>9, <1>10, <1>11 DEF Start

LEMMA RestoreType ==
  ASSUME TypeOK, Numbered, NEW c \in Clients, RestoreStep(c) PROVE TypeOK'
<1> USE DEF vars, catalog, disk, history
<1>0. c \in Procs BY DEF Procs
<1>1. CASE Restore(c)
  <2>1. \A v \in snapRows : [Idle EXCEPT !.pc = "truncate", !.snap = v] \in Local
    BY IdleType DEF Local, TypeOK
  <2>2. at' \in [Procs -> Local] BY <1>0, <1>1, <2>1, BecomeType DEF Restore
  <2>. QED BY <1>1, <2>2 DEF Restore, TypeOK
<1>2. CASE Truncate(c)
  <2>1. snapFile[at[c].snap] \in Content BY <1>0, <1>2 DEF Truncate, Numbered, TypeOK
  <2>2. [Idle EXCEPT !.pc = "overwrite", !.ver = snapFile[at[c].snap],
                     !.whole = TRUE, !.linked = TRUE] \in Local
    BY <2>1, IdleType DEF Local
  <2>3. at' \in [Procs -> Local] BY <1>0, <1>2, <2>2, SpoilType DEF Truncate
  <2>4. replica' \in Content /\ restored' \in BOOLEAN BY <1>2 DEF Truncate, Content
  <2>. QED BY <1>2, <2>3, <2>4 DEF Truncate, TypeOK
<1>3. CASE Overwrite(c)
  <2>1. at' \in [Procs -> Local]
    BY <1>0, <1>3, IdleType, SpoilType, BecomeType DEF Overwrite, Leave
  <2>2. replica' \in Content /\ restored' \in BOOLEAN
    BY <1>0, <1>3 DEF Overwrite, TypeOK, Local, Content
  <2>. QED BY <1>3, <2>1, <2>2 DEF Overwrite, TypeOK
<1>4. CASE OverwriteFails(c)
  <2>1. at' \in [Procs -> Local] BY <1>0, <1>4, IdleType, SpoilType DEF OverwriteFails
  <2>2. replica' \in Content BY <1>4 DEF OverwriteFails, Content
  <2>. QED BY <1>4, <2>1, <2>2 DEF OverwriteFails, TypeOK
<1>. QED BY <1>1, <1>2, <1>3, <1>4 DEF RestoreStep

\* The loop's own steps.
Turn == SyncBegin \/ CheckSource \/ CheckFails

LEMMA TurnType == ASSUME TypeOK, Turn PROVE TypeOK'
<1> USE DEF vars, catalog, disk, history
<1>0. Syncer \in Procs BY DEF Procs
<1>1. CASE SyncBegin
  <2>1. [Idle EXCEPT !.pc = "check", !.live = TRUE] \in Local BY IdleType DEF Local
  <2>. QED BY <1>0, <1>1, <2>1, BecomeType DEF SyncBegin, TypeOK
<1>2. CASE CheckSource \/ CheckFails
  <2>1. at' \in [Procs -> Local]
    BY <1>0, <1>2, StepType, IdleType, BecomeType
    DEF CheckSource, CheckFails, Goto, Report, Leave, Status
  <2>. QED BY <1>2, <2>1 DEF CheckSource, CheckFails, TypeOK
<1>. QED BY <1>1, <1>2 DEF Turn

\* Steps that change only the catalog row, the clock or the scan.
RowOnly == \/ \E c \in Clients : StopReplication(c)
           \/ ScanRead \/ ScanSame \/ ScanUpsert \/ CliScan \/ Tick

LEMMA RowType == ASSUME TypeOK, RowOnly PROVE TypeOK'
  BY ZenonT(30) DEF TypeOK, RowOnly, StopReplication, ScanRead, ScanSame, ScanUpsert, CliScan, Tick,
         Status, catalog, disk, history

-----------------------------------------------------------------------------
(* The invariant                                                           *)

Rest == Numbered /\ Locked /\ Bounded /\ Undisturbed /\ Carried /\ Covered /\ Backed

\* Versions compare like numbers, with a missing and a torn file below all.
LEMMA ContentOrder ==
  /\ Version \subseteq Nat \ {0} /\ Content \subseteq Int
  /\ Absent = 0 /\ Torn = -1
  /\ \A v \in Version : Torn <= v /\ Absent <= v /\ v <= v
  /\ \A u \in Content, v, w \in Version : u <= v /\ v <= w => u <= w
  BY ReplicationAssumption DEF Version, Content, Absent, Torn

\* Most steps take one process from one local state to another, outside the
\* critical section, and leave the replica alone.  They may copy what they
\* hold to a snapshot, or store a replication state they have earned.
LEMMA LocalStep ==
  ASSUME Inv, TypeOK', NEW p \in Procs, NEW r, Become(p, r),
         UNCHANGED <<src, replica, history>>,
         \A s \in Snap : snapFile'[s] \in {snapFile[s], at[p].ver},
         lock' = lock \/ lock = p,
         state' = "none" => state = "none",
         state' = "clean" => state = "clean" \/ Covers(at[p]),
         r.pc \notin {"commit", "install"},
         r.pc \in {"copy", "save", "insert", "truncate"} => r.snap \in Snap,
         r.ver \in {at[p].ver, replica, Absent},
         Covers(r) => Covers(at[p]),
         Promises(p, r) => state' # "none"
  PROVE  Rest'
<1> USE DEF Inv
<1>1. /\ at'[p] = r
      /\ \A q \in Procs \ {p} : at'[q] = at[q]
      /\ UNCHANGED <<src, replica, raced, restored>>
  BY DEF Become, TypeOK, history
<1>2. Numbered' BY <1>1 DEF Numbered
<1>3. Locked' BY <1>1 DEF Locked
<1>4. ASSUME NEW v, v \in Version, CopiesUpTo(v) PROVE CopiesUpTo(v)'
  BY <1>1, <1>4, ContentOrder DEF CopiesUpTo
<1>5. Bounded'
  <2>1. CopiesUpTo(src)' BY <1>1, <1>4 DEF Bounded, TypeOK, CopiesUpTo
  <2>2. ASSUME NEW q \in Procs, at'[q].pc \in {"commit", "install"}
        PROVE  CopiesUpTo(at[q].ver)' /\ at'[q].ver = at[q].ver
    BY <1>1, <1>4, <2>2 DEF Bounded, Locked, CopiesUpTo
  <2>. QED BY <2>1, <2>2 DEF Bounded, CopiesUpTo
<1>6. Undisturbed' BY <1>1 DEF Undisturbed
<1>7. Carried' BY <1>1 DEF Carried
<1>8. Covered' BY <1>1 DEF Covered
<1>9. Backed' BY <1>1 DEF Backed
<1>. QED BY <1>2, <1>3, <1>5, <1>6, <1>7, <1>8, <1>9 DEF Rest

\* Taking the lock: the source snapshot is the newest copy there is.
LEMMA AcquireStep ==
  ASSUME Inv, NEW p \in Procs, NEW r \in Local, Become(p, r), lock = Nobody, lock' = p,
         UNCHANGED <<src, state, disk, history>>,
         r.pc \in {"commit", "install"}, r.ver = src,
         r.pc = "commit" => r.linked /\ r.whole,
         Promises(p, r) => state # "none"
  PROVE  Rest'
<1> USE DEF Inv
<1>1. /\ at'[p] = r
      /\ \A q \in Procs \ {p} : at'[q] = at[q]
      /\ UNCHANGED <<src, state, replica, snapFile, raced, restored>>
      /\ src \in Version
  BY DEF Become, TypeOK, disk, history
<1>2. \A q \in Procs : at[q].pc \notin {"commit", "install"}
  BY ReplicationAssumption DEF Locked
<1>3. Numbered' BY <1>1 DEF Numbered
<1>4. Locked' BY <1>1, <1>2 DEF Locked
<1>5. CopiesUpTo(src)' BY <1>1, ContentOrder DEF Bounded, CopiesUpTo
<1>6. Bounded'
  <2>1. \A q \in Procs : at'[q].pc \in {"commit", "install"} => at'[q].ver = src'
    BY <1>1, <1>2
  <2>. QED BY <1>5, <2>1 DEF Bounded, CopiesUpTo
<1>7. Undisturbed' BY <1>1, <1>2 DEF Undisturbed
<1>8. Carried' BY <1>1, <1>2 DEF Carried
<1>9. Covered' BY <1>1 DEF Covered, Covers
<1>10. Backed' BY <1>1 DEF Backed
<1>. QED BY <1>3, <1>4, <1>6, <1>7, <1>8, <1>9, <1>10 DEF Rest

\* What no process holds or has copied does not matter to the invariant.
LEMMA QuietStep ==
  ASSUME Inv, UNCHANGED <<src, state, disk, lock, at, history>>
  PROVE  Rest'
  BY DEF Inv, Rest, Numbered, Locked, Bounded, CopiesUpTo, Undisturbed, Carried,
         Covered, Backed, Promises, Covers, disk, history

LEMMA RowInv == ASSUME Inv, RowOnly PROVE Inv'
<1>1. UNCHANGED <<src, state, disk, lock, at, history>>
  BY DEF RowOnly, StopReplication, ScanRead, ScanSame, ScanUpsert, CliScan, Tick, catalog
<1>. QED BY <1>1, QuietStep, RowType DEF Inv, Rest

\* A step that changes the file at replicaPath, in place or by another name.
LEMMA ReplicaStep ==
  ASSUME Inv, NEW p \in Procs, NEW r \in Local, at' = Spoil(p, r) \/ at' = Unlink(p, r),
         UNCHANGED <<src, state, snapFile, raced>>,
         lock' = lock \/ lock = p,
         r.pc \in {"idle", "version", "stamp", "overwrite"},
         replica' \in {at[p].ver, replica, Absent, Torn},
         r.ver = Absent \/ \E s \in Snap : r.ver = snapFile[s],
         Undisturbed', Covered'
  PROVE  Rest'
<1> USE DEF Inv
<1>1. at'[p] = r BY DEF Spoil, Unlink
<1>2. \A q \in Procs \ {p} :
        /\ at'[q].pc = at[q].pc /\ at'[q].live = at[q].live /\ at'[q].ver = at[q].ver
        /\ at'[q].snap = at[q].snap /\ at'[q].say = at[q].say
  <2>1. SUFFICES ASSUME NEW q \in Procs \ {p}
                 PROVE  /\ at'[q].pc = at[q].pc /\ at'[q].live = at[q].live
                        /\ at'[q].ver = at[q].ver /\ at'[q].snap = at[q].snap
                        /\ at'[q].say = at[q].say
    OBVIOUS
  <2>2. at[q] \in Local BY DEF TypeOK
  <2>3. at'[q] \in {at[q], [at[q] EXCEPT !.whole = FALSE], [at[q] EXCEPT !.linked = FALSE]}
    BY DEF Spoil, Unlink
  <2>. QED BY <2>2, <2>3 DEF Local
<1>3. Numbered' BY <1>1, <1>2 DEF Numbered
<1>4. Locked' BY <1>1, <1>2 DEF Locked
<1>5. ASSUME NEW v \in Version, CopiesUpTo(v)
      PROVE  /\ replica' <= v
             /\ \A s \in Snap : snapFile'[s] <= v
             /\ \A q \in Procs : at'[q].ver <= v
  BY <1>1, <1>2, <1>5, ContentOrder DEF CopiesUpTo
<1>6. Bounded'
  <2>1. CopiesUpTo(src)' BY <1>5 DEF Bounded, TypeOK, CopiesUpTo
  <2>2. ASSUME NEW q \in Procs, at'[q].pc \in {"commit", "install"}
        PROVE  CopiesUpTo(at[q].ver)'
    <3>1. PICK v \in Version : v = at[q].ver /\ v = at'[q].ver /\ CopiesUpTo(v)
      BY <1>1, <1>2, <2>2 DEF Bounded, Locked
    <3>. QED BY <1>5, <3>1 DEF CopiesUpTo
  <2>. QED BY <2>1, <2>2 DEF Bounded
<1>7. Carried' BY <1>1, <1>2 DEF Carried
<1>8. Backed' BY <1>1, <1>2 DEF Backed, Promises
<1>. QED BY <1>3, <1>4, <1>6, <1>7, <1>8 DEF Rest

-----------------------------------------------------------------------------
(* Around the replication                                                  *)

LEMMA WriteInv == ASSUME Inv, Write PROVE Inv'
<1> USE DEF Inv
<1>0. /\ src \in Version /\ src + 1 \in Version /\ src <= src + 1
      /\ src' = src + 1
      /\ UNCHANGED <<replica, snapFile, lock, restored>>
  BY ReplicationAssumption DEF Write, TypeOK, Version
<1>1. ASSUME NEW p \in Procs
      PROVE  /\ at'[p] \in Local
             /\ at'[p].pc = at[p].pc
             /\ at'[p].live = at[p].live
             /\ at'[p].ver = at[p].ver
             /\ at'[p].snap = at[p].snap
             /\ at'[p].whole = at[p].whole
             /\ at'[p].linked = at[p].linked
             /\ at'[p].say = at[p].say
             /\ at[p].pc = "record" => at'[p].mark
  <2>1. at[p] \in Local BY DEF TypeOK
  <2>2. CASE at[p].pc = "record"
    <3>1. at'[p] = [at[p] EXCEPT !.mark = TRUE] BY <2>2 DEF Write
    <3>. QED BY <2>1, <2>2, <3>1 DEF Local
  <2>3. CASE at[p].pc # "record"
    <3>1. at'[p] = at[p] BY <2>3 DEF Write
    <3>. QED BY <2>1, <2>3, <3>1
  <2>. QED BY <2>2, <2>3
<1>2. at' = [p \in Procs |-> at'[p]] BY DEF Write
<1>3. at' \in [Procs -> Local] BY <1>1, <1>2
<1>4. TypeOK'
  <2>1. /\ recent' \in BOOLEAN /\ raced' \in BOOLEAN /\ state' \in {"none", "clean", "dirty"}
        /\ UNCHANGED <<row, snapRows, scan>>
    BY DEF Write, TypeOK
  <2>. QED BY <1>0, <1>3, <2>1 DEF TypeOK
<1>5. Numbered' /\ Locked' BY <1>0, <1>1 DEF Numbered, Locked
<1>6. Bounded'
  <2>1. ASSUME NEW v \in Version, CopiesUpTo(v), NEW w \in Version, v <= w
        PROVE  CopiesUpTo(w)'
    <3>1. replica' <= w BY <1>0, <2>1, ContentOrder DEF CopiesUpTo, TypeOK
    <3>2. \A s \in Snap : snapFile'[s] <= w
      <4>1. \A s \in Snap : snapFile[s] \in Content /\ snapFile[s] <= v
        BY <2>1 DEF CopiesUpTo, TypeOK
      <4>. QED BY <1>0, <2>1, <4>1, ContentOrder
    <3>3. \A q \in Procs : at'[q].ver <= w
      <4>1. \A q \in Procs : at[q].ver \in Content /\ at[q].ver <= v
        BY <2>1 DEF CopiesUpTo, TypeOK, Local
      <4>. QED BY <1>1, <2>1, <4>1, ContentOrder
    <3>. QED BY <3>1, <3>2, <3>3 DEF CopiesUpTo
  <2>2. CopiesUpTo(src)'
    <3>1. PICK w \in Version : w = src' /\ src <= w BY <1>0
    <3>2. CopiesUpTo(w)' BY <1>0, <2>1, <3>1 DEF Bounded
    <3>. QED BY <3>1, <3>2 DEF CopiesUpTo
  <2>3. ASSUME NEW p \in Procs, at'[p].pc \in {"commit", "install"}
        PROVE  CopiesUpTo(at[p].ver)'
    <3>1. PICK w \in Version : w = at[p].ver BY <1>1, <2>3 DEF Locked
    <3>2. CopiesUpTo(w) BY <1>1, <2>3, <3>1 DEF Bounded
    <3>3. CopiesUpTo(w)' BY <2>1, <3>2, ContentOrder
    <3>4. at'[p].ver = w BY <1>1, <3>1
    <3>. QED BY <3>3, <3>4 DEF CopiesUpTo
  <2>. QED BY <2>2, <2>3 DEF Bounded
<1>7. Undisturbed' BY <1>0, <1>1 DEF Undisturbed
<1>8. ~ raced' => \A p \in Procs : ~ InFlight(p) BY DEF Write
<1>9. Carried' BY <1>1, <1>8 DEF Carried, InFlight
<1>10. Covered' BY <1>1, <1>8 DEF Write, Covered, Covers, InFlight
<1>11. state' = "none" => state = "none" BY DEF Write
<1>12. Backed' BY <1>1, <1>11 DEF Backed, Promises
<1>. QED BY <1>4, <1>5, <1>6, <1>7, <1>9, <1>10, <1>12

LEMMA CrashInv == ASSUME Inv, Crash PROVE Inv'
<1> USE DEF Inv
<1>1. /\ \A p \in Procs : at'[p] = Idle
      /\ UNCHANGED <<src, recent, row, state, snapRows, replica, snapFile, raced, restored>>
      /\ at' \in [Procs -> Local]
      /\ lock' = Nobody /\ scan' = "idle"
  BY IdleType DEF Crash, catalog, disk, history
<1>2. TypeOK' BY <1>1 DEF TypeOK
<1>3. Bounded'
  <2>1. CopiesUpTo(src)'
    BY <1>1, ContentOrder DEF Bounded, CopiesUpTo, Idle, TypeOK
  <2>. QED BY <1>1, <2>1 DEF Bounded, CopiesUpTo, Idle
<1>4. Numbered' /\ Locked' BY <1>1 DEF Numbered, Locked, Idle
<1>5. Undisturbed' /\ Carried' BY <1>1 DEF Undisturbed, Carried, Idle
<1>6. Covered' BY <1>1 DEF Covered, Covers, Idle
<1>7. Backed' BY <1>1 DEF Backed, Promises, Idle
<1>. QED BY <1>2, <1>3, <1>4, <1>5, <1>6, <1>7

LEMMA DeleteInv == ASSUME Inv, NEW c \in Clients, DeleteDiscovered(c) PROVE Inv'
<1> USE DEF Inv
<1>1. ASSUME NEW p \in Procs
      PROVE  /\ at'[p] \in Local /\ ~ at'[p].live
             /\ at'[p].pc = at[p].pc /\ at'[p].ver = at[p].ver
             /\ at'[p].snap = at[p].snap /\ at'[p].mark = at[p].mark
             /\ at'[p].whole = at[p].whole /\ at'[p].linked = at[p].linked
  <2>1. at[p] \in Local BY DEF TypeOK
  <2>2. at'[p] = [at[p] EXCEPT !.live = FALSE] BY DEF DeleteDiscovered
  <2>. QED BY <2>1, <2>2 DEF Local
<1>2. at' = [p \in Procs |-> at'[p]] BY DEF DeleteDiscovered
<1>3. /\ at' \in [Procs -> Local]
      /\ row' = "none" /\ state' = "none" /\ snapRows' = {}
      /\ UNCHANGED <<src, recent, replica, snapFile, lock, scan, raced, restored>>
  BY <1>1, <1>2 DEF DeleteDiscovered, disk, history
<1>4. TypeOK' BY <1>3 DEF TypeOK, Status
<1>5. Numbered' /\ Locked' BY <1>1, <1>3 DEF Numbered, Locked
<1>6. Bounded' BY <1>1, <1>3 DEF Bounded, CopiesUpTo
<1>7. Undisturbed' /\ Carried' BY <1>1, <1>3 DEF Undisturbed, Carried
<1>8. Covered' BY <1>1, <1>3 DEF Covered, Covers
<1>9. Backed' BY <1>1 DEF Backed, Promises
<1>. QED BY <1>4, <1>5, <1>6, <1>7, <1>8, <1>9

-----------------------------------------------------------------------------
(* handleStartReplication                                                  *)

\* Its steps up to the replica's first contents and the snapshot version.
LEMMA BeginStartInv ==
  ASSUME Inv, NEW c \in Clients,
         StartReplication(c) \/ Resume(c) \/ Vacuum(c) \/ StartFails(c) \/ NextSnapshotVersion(c)
  PROVE  Inv'
<1> USE DEF Inv, Promises, Covers, catalog, disk, history
<1>0. /\ c \in Procs /\ c # Syncer /\ at[c] \in Local
      /\ TypeOK'
  BY ReplicationAssumption, StartType DEF Procs, TypeOK, Start
<1>1. CASE StartReplication(c)
  <2>1. Become(c, [Idle EXCEPT !.pc = "resume", !.live = TRUE])
    BY <1>1 DEF StartReplication
  <2>. QED BY <1>0, <1>1, <2>1, LocalStep DEF StartReplication, Rest, Idle
<1>2. CASE Resume(c)
  <2>1. PICK s \in {"lock", "vacuum"} : Become(c, [at[c] EXCEPT !.pc = s])
    BY <1>2 DEF Resume, Goto
  <2>2. /\ [at[c] EXCEPT !.pc = s].pc = s
        /\ [at[c] EXCEPT !.pc = s].ver = at[c].ver
    BY <1>0 DEF Local
  <2>. QED BY <1>0, <1>2, <2>1, <2>2, LocalStep DEF Resume, Rest
<1>3. CASE Vacuum(c)
  <2>1. Become(c, [at[c] EXCEPT !.pc = "install", !.ver = src]) BY <1>3 DEF Vacuum
  <2>2. /\ [at[c] EXCEPT !.pc = "install", !.ver = src].pc = "install"
        /\ [at[c] EXCEPT !.pc = "install", !.ver = src].ver = src
        /\ [at[c] EXCEPT !.pc = "install", !.ver = src] \in Local
    BY <1>0 DEF Local, TypeOK, Content
  <2>. QED BY <1>0, <1>3, <2>1, <2>2, AcquireStep DEF Vacuum, Rest
<1>4. CASE StartFails(c)
  <2>1. Become(c, Idle) BY <1>4 DEF StartFails, Leave
  <2>. QED BY <1>0, <1>4, <2>1, LocalStep DEF StartFails, Locked, Rest, Idle
<1>5. CASE NextSnapshotVersion(c)
  <2>1. /\ at'[c].pc = "copy" /\ at'[c].ver = at[c].ver /\ at'[c].snap \in Snap
        /\ UNCHANGED <<src, state, replica, snapFile, lock, raced, restored>>
        /\ at[c].pc = "version"
    BY <1>5, ChosenVersion DEF NextSnapshotVersion
  <2>2. ASSUME NEW q \in Procs, q # c
        PROVE  /\ at'[q].pc = at[q].pc /\ at'[q].live = at[q].live
               /\ at'[q].ver = at[q].ver /\ at'[q].snap = at[q].snap
               /\ at'[q].mark = at[q].mark /\ at'[q].say = at[q].say
               /\ at'[q].whole = at[q].whole /\ at'[q].linked = at[q].linked
    <3>1. at'[q] \in {at[q], [at[q] EXCEPT !.alone = FALSE]} BY <1>5, <2>2, ChosenVersion
    <3>2. at[q] \in Local BY DEF TypeOK
    <3>. QED BY <3>1, <3>2 DEF Local
  <2>3. Numbered' /\ Locked' BY <2>1, <2>2 DEF Numbered, Locked
  <2>4. Bounded' BY <2>1, <2>2 DEF Bounded, CopiesUpTo
  <2>5. Undisturbed' BY <2>1, <2>2 DEF Undisturbed
  <2>6. Carried' BY <2>1, <2>2 DEF Carried
  <2>7. Covered' BY <2>1, <2>2 DEF Covered
  <2>8. Backed' BY <1>0, <2>1, <2>2 DEF Backed
  <2>. QED BY <1>0, <2>3, <2>4, <2>5, <2>6, <2>7, <2>8
<1>. QED BY <1>1, <1>2, <1>3, <1>4, <1>5

\* InitialSync's rename: the replica is what the lock holder has copied.
LEMMA InstallInv == ASSUME Inv, NEW c \in Clients, Install(c) PROVE Inv'
<1> USE DEF Inv
<1> DEFINE r == [at[c] EXCEPT !.pc = "version", !.ver = Absent]
<1>1. /\ c \in Procs /\ at[c] \in Local /\ TypeOK'
      /\ lock = c /\ at[c].ver \in Version
      /\ \A q \in Procs \ {c} : at[q].pc \notin {"commit", "install"}
  BY StartType DEF Procs, TypeOK, Start, Install, Locked
<1>2. r \in Local /\ r.pc = "version" /\ r.ver = Absent
  BY <1>1 DEF Local, Content
<1>3. /\ at' = Unlink(c, r)
      /\ replica' = at[c].ver /\ lock' = Nobody /\ restored' = FALSE
      /\ UNCHANGED <<src, state, snapFile, raced>>
  BY DEF Install, catalog
<1>4. \A q \in Procs : at'[q].pc # "commit"
  BY <1>1, <1>2, <1>3 DEF Unlink, UsesReplica
<1>5. Undisturbed' BY <1>1, <1>3, <1>4, ContentOrder DEF Undisturbed
<1>6. Covered' BY <1>1, <1>3 DEF Covered, Carried, Install
<1>. HIDE DEF r
<1>. QED BY <1>1, <1>2, <1>3, <1>5, <1>6, ReplicaStep DEF Rest

\* The snapshot and its rows.
LEMMA EndStartInv ==
  ASSUME Inv, NEW c \in Clients,
         \/ CopyReplica(c) \/ SaveSnapshot(c) \/ SnapshotFails(c)
         \/ InsertSnapshot(c) \/ InsertFails(c)
  PROVE  Inv'
<1> USE DEF Inv, Promises, Covers, catalog, disk, history
<1>0. /\ c \in Procs /\ c # Syncer /\ at[c] \in Local
      /\ TypeOK'
      /\ \A s \in Snap : snapFile[s] \in Content
  BY ReplicationAssumption, StartType DEF Procs, TypeOK, Start
<1>1. CASE CopyReplica(c) \/ SnapshotFails(c)
  <2> DEFINE r1 == [at[c] EXCEPT !.pc = "remove"]
             r2 == [at[c] EXCEPT !.pc = "save", !.ver = replica]
  <2>1. /\ r1.pc = "remove" /\ r1.ver = at[c].ver
        /\ r2.pc = "save" /\ r2.ver = replica /\ r2.snap = at[c].snap
    BY <1>0 DEF Local
  <2>2. \/ Become(c, r1)
        \/ Become(c, r2) /\ at[c].pc = "copy"
    BY <1>1 DEF CopyReplica, SnapshotFails, Goto
  <2>3. UNCHANGED <<src, state, replica, snapFile, lock, raced, restored>>
    BY <1>1 DEF CopyReplica, SnapshotFails
  <2>. HIDE DEF r1, r2
  <2>4. CASE Become(c, r1) BY <1>0, <2>1, <2>3, <2>4, LocalStep DEF Rest
  <2>5. CASE Become(c, r2) /\ at[c].pc = "copy"
    BY <1>0, <2>1, <2>3, <2>5, LocalStep DEF Rest, Numbered
  <2>. QED BY <2>2, <2>4, <2>5
<1>2. CASE SaveSnapshot(c)
  <2> DEFINE r == [at[c] EXCEPT !.pc = "insert", !.ver = Absent, !.alone = FALSE]
  <2>1. r.pc = "insert" /\ r.ver = Absent /\ r.snap = at[c].snap /\ Become(c, r)
    BY <1>0, <1>2 DEF Local, SaveSnapshot
  <2>2. \A s \in Snap : snapFile'[s] \in {snapFile[s], at[c].ver}
    BY <1>2 DEF SaveSnapshot, TypeOK
  <2>. HIDE DEF r
  <2>. QED BY <1>0, <1>2, <2>1, <2>2, LocalStep DEF SaveSnapshot, Numbered, Rest
<1>3. CASE InsertSnapshot(c)
  <2> DEFINE r == [at[c] EXCEPT !.pc = "stamp", !.snap = 0]
  <2>1. r.pc = "stamp" /\ r.ver = at[c].ver /\ Become(c, r)
    BY <1>0, <1>3 DEF Local, InsertSnapshot
  <2>. HIDE DEF r
  <2>. QED BY <1>0, <1>3, <2>1, LocalStep DEF InsertSnapshot, Rest
<1>4. CASE InsertFails(c)
  <2>1. Become(c, Idle) BY <1>4 DEF InsertFails, Leave
  <2>. QED BY <1>0, <1>4, <2>1, LocalStep DEF InsertFails, Rest, Idle
<1>. QED BY <1>1, <1>2, <1>3, <1>4

\* os.Remove of the replica, after a snapshot or a restore that failed.
LEMMA RemoveInv ==
  ASSUME Inv, NEW c \in Clients, RemoveReplica(c) \/ OverwriteFails(c) PROVE Inv'
<1> USE DEF Inv
<1>1. c \in Procs /\ TypeOK'
  BY StartType, RestoreType DEF Procs, Start, RestoreStep
<1>2. /\ at' = Unlink(c, Idle)
      /\ replica' = Absent
      /\ UNCHANGED <<src, state, snapFile, lock, raced, restored>>
  BY DEF RemoveReplica, OverwriteFails, catalog, history
<1>3. ASSUME NEW q \in Procs, at'[q].pc = "commit" PROVE ~ at'[q].linked
  <2>1. q # c /\ at[q] \in Local BY <1>2, <1>3 DEF Unlink, Idle, TypeOK
  <2>2. at'[q] \in {at[q], [at[q] EXCEPT !.linked = FALSE]} BY <1>2, <2>1 DEF Unlink
  <2>3. UsesReplica(q) BY <1>3, <2>1, <2>2 DEF UsesReplica, Local
  <2>4. at'[q] = [at[q] EXCEPT !.linked = FALSE] BY <1>2, <2>1, <2>3 DEF Unlink
  <2>. QED BY <2>1, <2>4 DEF Local
<1>4. Undisturbed' BY <1>2, <1>3, ContentOrder DEF Undisturbed
<1>5. Covered' BY <1>2 DEF Covered
<1>6. Idle.pc = "idle" /\ Idle.ver = Absent BY DEF Idle
<1>. QED BY <1>1, <1>2, <1>4, <1>5, <1>6, IdleType, ReplicaStep DEF Rest

-----------------------------------------------------------------------------
(* handleRestore                                                           *)

LEMMA RestoreInv ==
  ASSUME Inv, NEW c \in Clients, RestoreStep(c) PROVE Inv'
<1> USE DEF Inv
<1>0. /\ c \in Procs /\ c # Syncer /\ at[c] \in Local
      /\ TypeOK'
  BY ReplicationAssumption, RestoreType DEF Procs, TypeOK
<1>1. CASE Restore(c)
  <2>1. PICK v \in Snap : Become(c, [Idle EXCEPT !.pc = "truncate", !.snap = v])
    BY <1>1 DEF Restore, TypeOK
  <2> DEFINE r == [Idle EXCEPT !.pc = "truncate", !.snap = v]
  <2>2. r.pc = "truncate" /\ r.ver = Absent /\ r.snap = v BY DEF Idle
  <2>. HIDE DEF r
  <2>. QED BY <1>0, <1>1, <2>1, <2>2, LocalStep
              DEF Restore, Rest, Promises, Covers, catalog, disk, history, r
<1>2. CASE Truncate(c)
  <2> DEFINE r == [Idle EXCEPT !.pc = "overwrite", !.ver = snapFile[at[c].snap],
                               !.whole = TRUE, !.linked = TRUE]
  <2>1. at[c].snap \in Snap /\ snapFile[at[c].snap] \in Content
    BY <1>0, <1>2 DEF Numbered, Truncate, TypeOK
  <2>2. r \in Local /\ r.pc = "overwrite" /\ r.ver = snapFile[at[c].snap]
    BY <2>1, IdleType DEF Local, Idle
  <2>3. /\ at' = Spoil(c, r) /\ replica' = Torn /\ restored' = TRUE
        /\ UNCHANGED <<src, state, snapFile, lock, raced>>
    BY <1>2 DEF Truncate, catalog
  <2>4. Undisturbed' /\ Covered' BY <2>3 DEF Undisturbed, Covered
  <2>. HIDE DEF r
  <2>. QED BY <1>0, <2>1, <2>2, <2>3, <2>4, ReplicaStep DEF Rest
<1>3. CASE Overwrite(c) /\ at[c].linked
  <2>1. /\ at' = Spoil(c, Idle) /\ replica' \in {at[c].ver, Torn} /\ restored' = TRUE
        /\ UNCHANGED <<src, state, snapFile, lock, raced>>
    BY <1>3 DEF Overwrite, catalog
  <2>2. Undisturbed' /\ Covered' BY <2>1 DEF Undisturbed, Covered
  <2>3. Idle.pc = "idle" /\ Idle.ver = Absent BY DEF Idle
  <2>. QED BY <1>0, <2>1, <2>2, <2>3, IdleType, ReplicaStep DEF Rest
<1>4. CASE Overwrite(c) /\ ~ at[c].linked
  <2>1. Become(c, Idle) BY <1>4 DEF Overwrite, Leave
  <2>. QED BY <1>0, <1>4, <2>1, LocalStep
           DEF Overwrite, Rest, Idle, Promises, Covers, catalog, history
<1>5. CASE OverwriteFails(c) BY <1>5, RemoveInv
<1>. QED BY <1>1, <1>2, <1>3, <1>4, <1>5 DEF RestoreStep

-----------------------------------------------------------------------------
(* syncReplications and DifferentialSyncContext                            *)

\* Going to report a status.
LEMMA ReportFields ==
  ASSUME NEW p \in Procs, NEW s
  PROVE  LET r == [Idle EXCEPT !.pc = "status", !.live = at[p].live, !.say = s]
         IN  /\ r.pc = "status" /\ r.ver = Absent
             /\ r.live = at[p].live /\ r.say = s
  BY DEF Idle

LEMMA TurnInv == ASSUME Inv, Turn PROVE Inv'
<1> USE DEF Inv, Promises, Covers, catalog, disk, history
<1>0. Syncer \in Procs /\ at[Syncer] \in Local /\ TypeOK'
  BY TurnType DEF Procs, TypeOK
<1>1. CASE SyncBegin
  <2>1. Become(Syncer, [Idle EXCEPT !.pc = "check", !.live = TRUE]) BY <1>1 DEF SyncBegin
  <2>. QED BY <1>0, <1>1, <2>1, LocalStep DEF SyncBegin, Rest, Idle
<1>2. CASE CheckSource \/ CheckFails
  <2> DEFINE r(s) == [Idle EXCEPT !.pc = "status", !.live = at[Syncer].live, !.say = s]
             l    == [at[Syncer] EXCEPT !.pc = "lock"]
  <2>1. \/ Become(Syncer, r("error"))
        \/ Become(Syncer, r("replicating")) /\ state # "none"
        \/ Become(Syncer, Idle)
        \/ Become(Syncer, l) /\ state # "none"
    BY <1>2 DEF CheckSource, CheckFails, Report, Leave, Goto
  <2>2. UNCHANGED <<src, state, replica, snapFile, lock, raced, restored>>
    BY <1>2 DEF CheckSource, CheckFails
  <2>3. l.pc = "lock" /\ l.ver = at[Syncer].ver BY <1>0 DEF Local
  <2>4. \A s : /\ r(s).pc = "status" /\ r(s).ver = Absent
               /\ r(s).live = at[Syncer].live /\ r(s).say = s
    BY DEF Idle
  <2>. HIDE DEF r, l
  <2>5. CASE Become(Syncer, r("error")) BY <1>0, <2>2, <2>4, <2>5, LocalStep DEF Rest
  <2>6. CASE Become(Syncer, r("replicating")) /\ state # "none"
    BY <1>0, <2>2, <2>4, <2>6, LocalStep DEF Rest
  <2>7. CASE Become(Syncer, Idle) BY <1>0, <2>2, <2>7, LocalStep DEF Rest, Idle
  <2>8. CASE Become(Syncer, l) /\ state # "none"
    BY <1>0, <2>2, <2>3, <2>8, LocalStep DEF Rest
  <2>. QED BY <2>1, <2>5, <2>6, <2>7, <2>8
<1>. QED BY <1>1, <1>2 DEF Turn

\* The commit: what the replica holds then is the source snapshot, or nothing
\* is there, unless a restore came in between.
LEMMA CommitInv == ASSUME Inv, NEW p \in Procs, CommitSync(p) PROVE Inv'
<1> USE DEF Inv
<1> DEFINE r == [Idle EXCEPT !.pc = "stamp", !.live = at[p].live]
<1>1. /\ at[p] \in Local /\ TypeOK'
      /\ lock = p /\ at[p].ver \in Version
      /\ \A q \in Procs \ {p} : at[q].pc \notin {"commit", "install"}
  BY SyncType DEF TypeOK, Sync, CommitSync, Locked
<1>2. r \in Local /\ r.pc = "stamp" /\ r.ver = Absent
  BY <1>1, IdleType DEF Local, Idle
<1>3. /\ at' = Spoil(p, r) /\ lock' = Nobody
      /\ replica' \in Committed(p)
      /\ UNCHANGED <<src, state, snapFile, raced>>
      /\ restored' = (restored /\ Committed(p) # {at[p].ver})
  BY DEF CommitSync, catalog
<1>4. replica' \in {at[p].ver, replica, Torn} BY <1>3 DEF Committed
<1>5. ~ restored' => replica' \in {at[p].ver, Absent}
  <2>1. CASE Committed(p) = {at[p].ver} BY <1>3, <2>1
  <2>2. CASE ~ restored /\ Committed(p) # {at[p].ver}
    <3>1. replica = Absent /\ ~ at[p].linked
      BY <2>2 DEF Undisturbed, Committed, CommitSync
    <3>. QED BY <1>3, <3>1 DEF Committed
  <2>. QED BY <1>3, <2>1, <2>2
<1>6. \A q \in Procs : at'[q].pc # "commit"
  BY <1>1, <1>2, <1>3 DEF Spoil, UsesReplica
<1>7. Undisturbed' BY <1>1, <1>5, <1>6, ContentOrder DEF Undisturbed
<1>8. Covered' BY <1>1, <1>3, <1>5 DEF Covered, Carried, CommitSync
<1>. HIDE DEF r
<1>. QED BY <1>1, <1>2, <1>3, <1>4, <1>7, <1>8, ReplicaStep DEF Rest

LEMMA SyncInv == ASSUME Inv, NEW p \in Procs, Sync(p) PROVE Inv'
<1> USE DEF Inv, Promises, Covers, catalog, disk, history
<1>0. at[p] \in Local /\ TypeOK' BY SyncType DEF TypeOK
<1> DEFINE r(s) == [Idle EXCEPT !.pc = "status", !.live = at[p].live, !.say = s]
<1>r. \A s : r(s).pc = "status" /\ r(s).ver = Absent /\ r(s).live = at[p].live /\ r(s).say = s
  BY DEF Idle
<1>1. CASE BeginSync(p)
  <2> DEFINE b == [at[p] EXCEPT !.pc = "commit", !.ver = src, !.whole = TRUE, !.linked = TRUE]
  <2>1. /\ b.pc = "commit" /\ b.ver = src /\ b.whole /\ b.linked /\ b.live = at[p].live
        /\ b \in Local
    BY <1>0 DEF Local, TypeOK, Content
  <2>2. Become(p, b) BY <1>1 DEF BeginSync
  <2>. HIDE DEF b
  <2>3. Promises(p, b) => state # "none" BY <1>1, <2>1 DEF BeginSync, Backed
  <2>. QED BY <1>0, <1>1, <2>1, <2>2, <2>3, AcquireStep DEF BeginSync, Rest
<1>2. CASE BeginSyncFails(p) \/ CommitFails(p)
  <2>1. /\ Become(p, r(FailStatus(p)))
        /\ lock' = lock \/ lock = p
        /\ at[p].pc \in {"lock", "commit"}
        /\ UNCHANGED <<src, state, replica, snapFile, raced, restored>>
    BY <1>2 DEF BeginSyncFails, CommitFails, Report, Locked
  <2>2. FailStatus(p) = "replicating" => p = Syncer BY DEF FailStatus
  <2>. HIDE DEF r
  <2>3. Promises(p, r(FailStatus(p))) => state # "none" BY <1>r, <2>1, <2>2 DEF Backed
  <2>. QED BY <1>0, <1>r, <2>1, <2>3, LocalStep DEF Rest
<1>3. CASE CommitSync(p) BY <1>3, CommitInv
<1>4. CASE Stamp(p)
  <2> DEFINE b == [at[p] EXCEPT !.pc = "record", !.mark = recent]
  <2>1. b.pc = "record" /\ b.ver = at[p].ver /\ Become(p, b)
    BY <1>0, <1>4 DEF Local, Stamp
  <2>. HIDE DEF b
  <2>. QED BY <1>0, <1>4, <2>1, LocalStep DEF Stamp, Rest
<1>5. CASE Record(p)
  <2>1. /\ Become(p, r("replicating"))
        /\ state' # "none"
        /\ state' = "clean" => Covers(at[p])
        /\ UNCHANGED <<src, replica, snapFile, lock, raced, restored>>
    BY <1>0, <1>5 DEF Record, Report, Local
  <2>. HIDE DEF r
  <2>. QED BY <1>0, <1>r, <2>1, LocalStep DEF Rest
<1>6. CASE StoreFails(p) \/ UpdateStatus(p)
  <2>1. Become(p, Idle) BY <1>6 DEF StoreFails, UpdateStatus, Leave
  <2>2. UNCHANGED <<src, state, replica, snapFile, lock, raced, restored>>
    BY <1>6 DEF StoreFails, UpdateStatus
  <2>. QED BY <1>0, <2>1, <2>2, LocalStep DEF Rest, Idle
<1>. QED BY <1>1, <1>2, <1>3, <1>4, <1>5, <1>6 DEF Sync

-----------------------------------------------------------------------------
(* The theorems                                                            *)

LEMMA InitInv == Init => Inv
<1> SUFFICES ASSUME Init PROVE Inv OBVIOUS
<1>1. \A p \in Procs : at[p] = Idle BY DEF Init
<1>2. Idle.pc = "idle" /\ Idle.ver = Absent /\ ~ Idle.live BY DEF Idle
<1>3. src = 1 /\ 1 \in Version BY ReplicationAssumption DEF Version, Init
<1>4. Numbered /\ Locked /\ Carried /\ Backed
  BY <1>1, <1>2 DEF Numbered, Locked, Carried, Backed, Promises
<1>5. Bounded
  <2>1. CopiesUpTo(src) BY <1>1, <1>2, <1>3, ContentOrder DEF CopiesUpTo, Init
  <2>. QED BY <1>1, <1>2, <2>1 DEF Bounded
<1>6. Undisturbed /\ Covered
  BY <1>1, <1>2, ContentOrder DEF Undisturbed, Covered, Init
<1>. QED BY <1>4, <1>5, <1>6, InitType DEF Inv

LEMMA StartInv == ASSUME Inv, NEW c \in Clients, Start(c) PROVE Inv'
  BY BeginStartInv, InstallInv, EndStartInv, RemoveInv DEF Start

LEMMA StepInv == Inv /\ [Next]_vars => Inv'
<1> SUFFICES ASSUME Inv, [Next]_vars PROVE Inv' OBVIOUS
<1>1. ASSUME NEW c \in Clients, Start(c) PROVE Inv' BY <1>1, StartInv
<1>2. ASSUME NEW c \in Clients, RestoreStep(c) PROVE Inv' BY <1>2, RestoreInv
<1>3. ASSUME NEW c \in Clients, DeleteDiscovered(c) PROVE Inv' BY <1>3, DeleteInv
<1>4. ASSUME NEW p \in Procs, Sync(p) PROVE Inv' BY <1>4, SyncInv
<1>5. CASE Turn BY <1>5, TurnInv
<1>6. CASE RowOnly BY <1>6, RowInv
<1>7. CASE Write BY <1>7, WriteInv
<1>8. CASE Crash BY <1>8, CrashInv
<1>9. CASE UNCHANGED vars
  <2>1. Rest' BY <1>9, QuietStep DEF vars, disk, history
  <2>2. TypeOK' BY <1>9 DEF Inv, TypeOK, vars
  <2>. QED BY <2>1, <2>2 DEF Inv, Rest
<1>. QED
  BY <1>1, <1>2, <1>3, <1>4, <1>5, <1>6, <1>7, <1>8, <1>9 DEF Next, Turn, RowOnly

LEMMA Invariant == Spec => []Inv
  BY InitInv, StepInv, PTL DEF Spec

\* Every variable keeps its type: no request overlooks a status, a snapshot
\* version or a file content another one leaves behind.
THEOREM TypeCorrect == Spec => []TypeOK
<1>1. Inv => TypeOK BY DEF Inv
<1>. QED BY <1>1, Invariant, PTL

\* Whatever requests, scans, failures and restarts come in between: when the
\* loop trusts LastSync and skips the database, its replica holds the source's
\* contents or is gone, but for a write that raced with a sync and for a
\* restore.
THEOREM CleanIsCurrent == Spec => []CleanMeansCurrent
<1>1. Inv => CleanMeansCurrent BY DEF Inv, Covered, CleanMeansCurrent
<1>. QED BY <1>1, Invariant, PTL

\* Syncs under replicaLock, by the loop, by resumed starts and by initial
\* syncs, never take the replica back to an older source.
THEOREM Monotone == Spec => ReplicaMonotone
<1> DEFINE Forward == ({replica, replica'} \subseteq Version /\ ~ \E c \in Clients : Overwrite(c))
                        => replica' >= replica
<1>1. ASSUME Inv, Next, replica \in Version, replica' \in Version, replica' # replica,
             \A c \in Clients : ~ Overwrite(c)
      PROVE  replica' >= replica
  <2>1. Absent \notin Version /\ Torn \notin Version /\ Version \subseteq Int
    BY ReplicationAssumption DEF Absent, Torn, Version
  <2>2. ASSUME NEW c \in Clients, Start(c)
        PROVE  c \in Procs /\ at[c].pc = "install" /\ replica' = at[c].ver
    BY <1>1, <2>1, <2>2
    DEF Start, StartReplication, Resume, Vacuum, StartFails, Install, NextSnapshotVersion,
        CopyReplica, SaveSnapshot, SnapshotFails, RemoveReplica, InsertSnapshot,
        InsertFails, disk, Procs
  <2>3. ASSUME NEW c \in Clients, RestoreStep(c) PROVE FALSE
    BY <1>1, <2>1, <2>3 DEF RestoreStep, Restore, Truncate, OverwriteFails, disk
  <2>4. ASSUME NEW p \in Procs, Sync(p)
        PROVE  at[p].pc = "commit" /\ replica' = at[p].ver
    BY <1>1, <2>1, <2>4
    DEF Sync, BeginSync, BeginSyncFails, CommitSync, Committed, CommitFails, Stamp,
        Record, StoreFails, UpdateStatus, disk
  <2>5. \/ \E c \in Clients : Start(c) \/ RestoreStep(c)
        \/ \E p \in Procs : Sync(p)
    BY <1>1 DEF Next, StopReplication, DeleteDiscovered, SyncBegin, CheckSource, CheckFails,
                ScanRead, ScanSame, ScanUpsert, CliScan, Write, Tick, Crash, disk
  <2>6. PICK p \in Procs : at[p].pc \in {"commit", "install"} /\ replica' = at[p].ver
    BY <2>2, <2>3, <2>4, <2>5
  <2>7. replica <= at[p].ver BY <1>1, <2>6 DEF Inv, Bounded, CopiesUpTo
  <2>. QED BY <1>1, <2>1, <2>6, <2>7
<1>2. Inv /\ [Next]_vars => [Forward]_vars
  <2> SUFFICES ASSUME Inv, Next, replica \in Version, replica' \in Version,
                      \A c \in Clients : ~ Overwrite(c)
               PROVE  replica' >= replica
    OBVIOUS
  <2>1. replica \in Int BY ReplicationAssumption DEF Version
  <2>. QED BY <1>1, <2>1
<1>. QED BY <1>2, Invariant, PTL DEF Spec, ReplicaMonotone

\* No start, stop, sync or deletion, in whatever order they meet, marks a
\* database replicating that has no replication state.
THEOREM HasState == Spec => ReplicatingHasState
<1> DEFINE Kept == row' = "replicating" /\ state' = "none"
                     => (row = "replicating" /\ state = "none") \/ ScanUpsert
<1>1. ASSUME Inv, Next, row' = "replicating", state' = "none", ~ ScanUpsert
      PROVE  row = "replicating" /\ state = "none"
  <2>1. ASSUME NEW p \in Procs, Sync(p)
        PROVE  row = "replicating" /\ state = "none"
    <3>1. CASE UpdateStatus(p)
      <4>1. state = "none" BY <1>1, <3>1 DEF UpdateStatus
      <4>2. ~ at[p].live \/ at[p].say # "replicating"
        BY <3>1, <4>1, <1>1 DEF UpdateStatus, Inv, Backed, Promises
      <4>. QED BY <1>1, <3>1, <4>1, <4>2 DEF UpdateStatus
    <3>2. CASE ~ UpdateStatus(p)
      BY <1>1, <2>1, <3>2
      DEF Sync, BeginSync, BeginSyncFails, CommitSync, CommitFails, Stamp, Record,
          StoreFails, catalog
    <3>. QED BY <3>1, <3>2
  <2>2. ASSUME NEW c \in Clients, Start(c)
        PROVE  row = "replicating" /\ state = "none"
    BY <1>1, <2>2
    DEF Start, StartReplication, Resume, Vacuum, StartFails, Install, NextSnapshotVersion,
        CopyReplica, SaveSnapshot, SnapshotFails, RemoveReplica, InsertSnapshot,
        InsertFails, catalog
  <2>3. ASSUME NEW c \in Clients, RestoreStep(c)
        PROVE  row = "replicating" /\ state = "none"
    BY <1>1, <2>3 DEF RestoreStep, Restore, Truncate, Overwrite, OverwriteFails, catalog
  <2>4. CASE \/ Turn \/ RowOnly \/ Write \/ Crash
             \/ \E c \in Clients : DeleteDiscovered(c)
    BY <1>1, <2>4
    DEF Turn, SyncBegin, CheckSource, CheckFails, RowOnly, StopReplication, ScanRead,
        ScanSame, CliScan, Tick, Write, Crash, DeleteDiscovered, catalog
  <2>. QED BY <1>1, <2>1, <2>2, <2>3, <2>4 DEF Next, Turn, RowOnly
<1>2. Inv /\ [Next]_vars => [Kept]_vars BY <1>1
<1>. QED BY <1>2, Invariant, PTL DEF Spec, ReplicatingHasState

-----------------------------------------------------------------------------
(* The snapshots                                                           *)

\* Who records a snapshot or restores one finds its file, and who copies the
\* replica has something to copy.
Filed ==
  /\ SnapshotsRestorable
  /\ \A p \in Procs :
       /\ at[p].pc \in {"insert", "truncate"} => snapFile[at[p].snap] # Absent
       /\ at[p].pc = "save" => at[p].ver # Absent

\* A start that is alone with its version: nobody has recorded that version,
\* and nobody else is on the way to.
Alone ==
  \A p \in Procs : at[p].pc \in {"copy", "save"} /\ at[p].alone =>
    /\ at[p].snap \notin snapRows
    /\ \A q \in Procs \ {p} : ~ Numbers(q, at[p].snap)

Snapshots == Inv /\ Filed /\ Alone

\* What most steps do to a process, as far as snapshots go: nothing, or they
\* take it to a step that has none.
Aside(p) ==
  \/ at'[p].pc \notin {"copy", "save", "insert", "truncate"}
  \/ /\ at'[p].pc = at[p].pc /\ at'[p].snap = at[p].snap
     /\ at'[p].ver = at[p].ver
     /\ at'[p].alone => at[p].alone

LEMMA AsideStep ==
  ASSUME Snapshots, snapRows' \subseteq snapRows, UNCHANGED snapFile,
         \A p \in Procs : Aside(p)
  PROVE  Filed' /\ Alone'
<1>1. Filed' BY DEF Snapshots, Filed, SnapshotsRestorable, Aside
<1>2. ASSUME NEW p \in Procs, at'[p].pc \in {"copy", "save"}, at'[p].alone
      PROVE  /\ at'[p].snap \notin snapRows'
             /\ \A q \in Procs \ {p} : ~ Numbers(q, at[p].snap)'
  <2>1. at[p].pc \in {"copy", "save"} /\ at[p].alone /\ at'[p].snap = at[p].snap
    BY <1>2 DEF Aside
  <2>2. at[p].snap \notin snapRows /\ \A q \in Procs \ {p} : ~ Numbers(q, at[p].snap)
    BY <2>1 DEF Snapshots, Alone
  <2>. QED BY <2>1, <2>2 DEF Aside, Numbers
<1>. QED BY <1>1, <1>2 DEF Alone, Numbers

\* The same when one process goes on by itself.
LEMMA BecomeAside ==
  ASSUME Snapshots, NEW p \in Procs, NEW r, Become(p, r), UNCHANGED <<snapRows, snapFile>>,
         r.pc \notin {"copy", "save", "insert", "truncate"}
  PROVE  Filed' /\ Alone'
<1>1. ASSUME NEW q \in Procs PROVE Aside(q)
  BY DEF Snapshots, Inv, TypeOK, Become, Aside
<1>. QED BY <1>1, AsideStep

\* And when it tells the others what became of the replica they have open.
LEMMA ReplicaAside ==
  ASSUME Snapshots, NEW p \in Procs, NEW r, at' = Spoil(p, r) \/ at' = Unlink(p, r),
         UNCHANGED <<snapRows, snapFile>>,
         r.pc \notin {"copy", "save", "insert", "truncate"}
  PROVE  Filed' /\ Alone'
<1>1. ASSUME NEW q \in Procs PROVE Aside(q)
  <2>1. CASE q = p BY <2>1 DEF Aside, Spoil, Unlink
  <2>2. CASE q # p
    <3>1. at[q] \in Local BY DEF Snapshots, Inv, TypeOK
    <3>2. at'[q] \in {at[q], [at[q] EXCEPT !.whole = FALSE], [at[q] EXCEPT !.linked = FALSE]}
      BY <2>2 DEF Spoil, Unlink
    <3>. QED BY <3>1, <3>2 DEF Local, Aside
  <2>. QED BY <2>1, <2>2
<1>. QED BY <1>1, AsideStep

LEMMA SyncSnapshots == ASSUME Snapshots, NEW p \in Procs, Sync(p) PROVE Filed' /\ Alone'
<1> USE DEF catalog, disk, history
<1>0. at[p] \in Local BY DEF Snapshots, Inv, TypeOK
<1>1. CASE CommitSync(p)
  <2> DEFINE r == [Idle EXCEPT !.pc = "stamp", !.live = at[p].live]
  <2>1. at' = Spoil(p, r) /\ r.pc = "stamp" /\ UNCHANGED <<snapRows, snapFile>>
    BY <1>1 DEF CommitSync, Idle
  <2>. HIDE DEF r
  <2>. QED BY <2>1, ReplicaAside
<1>2. CASE ~ CommitSync(p)
  <2>1. UNCHANGED <<snapRows, snapFile>>
    BY <1>2 DEF Sync, BeginSync, BeginSyncFails, CommitFails, Stamp, Record, StoreFails,
                UpdateStatus
  <2>2. \E r : Become(p, r) /\ r.pc \in {"commit", "record", "status", "idle"}
    <3>1. CASE BeginSync(p)
      <4>1. PICK r : r = [at[p] EXCEPT !.pc = "commit", !.ver = src, !.whole = TRUE, !.linked = TRUE]
        OBVIOUS
      <4>2. Become(p, r) /\ r.pc = "commit" BY <1>0, <3>1, <4>1 DEF BeginSync, Local
      <4>. QED BY <4>2
    <3>2. CASE Stamp(p)
      <4>1. PICK r : r = [at[p] EXCEPT !.pc = "record", !.mark = recent] OBVIOUS
      <4>2. Become(p, r) /\ r.pc = "record" BY <1>0, <3>2, <4>1 DEF Stamp, Local
      <4>. QED BY <4>2
    <3>3. CASE BeginSyncFails(p) \/ CommitFails(p) \/ Record(p)
      <4>1. PICK s : Report(p, s) BY <3>3 DEF BeginSyncFails, CommitFails, Record
      <4>2. PICK r : r = [Idle EXCEPT !.pc = "status", !.live = at[p].live, !.say = s] OBVIOUS
      <4>3. Become(p, r) /\ r.pc = "status" BY <4>1, <4>2 DEF Report, Idle
      <4>. QED BY <4>3
    <3>4. CASE StoreFails(p) \/ UpdateStatus(p)
      <4>1. Become(p, Idle) /\ Idle.pc = "idle"
        BY <3>4 DEF StoreFails, UpdateStatus, Leave, Idle
      <4>. QED BY <4>1
    <3>. QED BY <1>2, <3>1, <3>2, <3>3, <3>4 DEF Sync
  <2>. QED BY <2>1, <2>2, BecomeAside
<1>. QED BY <1>1, <1>2

LEMMA TurnSnapshots == ASSUME Snapshots, Turn PROVE Filed' /\ Alone'
<1> USE DEF catalog, disk, history
<1>0. Syncer \in Procs /\ at[Syncer] \in Local BY DEF Procs, Snapshots, Inv, TypeOK
<1>1. UNCHANGED <<snapRows, snapFile>> BY DEF Turn, SyncBegin, CheckSource, CheckFails
<1>2. \E r : Become(Syncer, r) /\ r.pc \in {"check", "status", "idle", "lock"}
  <2>1. CASE SyncBegin
    <3>1. PICK r : r = [Idle EXCEPT !.pc = "check", !.live = TRUE] OBVIOUS
    <3>2. Become(Syncer, r) /\ r.pc = "check" BY <2>1, <3>1 DEF SyncBegin, Idle
    <3>. QED BY <3>2
  <2>2. CASE \E s : Report(Syncer, s)
    <3>1. PICK s : Report(Syncer, s) BY <2>2
    <3>2. PICK r : r = [Idle EXCEPT !.pc = "status", !.live = at[Syncer].live, !.say = s] OBVIOUS
    <3>3. Become(Syncer, r) /\ r.pc = "status" BY <3>1, <3>2 DEF Report, Idle
    <3>. QED BY <3>3
  <2>3. CASE Leave(Syncer)
    <3>1. Become(Syncer, Idle) /\ Idle.pc = "idle" BY <2>3 DEF Leave, Idle
    <3>. QED BY <3>1
  <2>4. CASE Goto(Syncer, "lock")
    <3>1. PICK r : r = [at[Syncer] EXCEPT !.pc = "lock"] OBVIOUS
    <3>2. Become(Syncer, r) /\ r.pc = "lock" BY <1>0, <2>4, <3>1 DEF Goto, Local
    <3>. QED BY <3>2
  <2>. QED BY <2>1, <2>2, <2>3, <2>4 DEF Turn, CheckSource, CheckFails
<1>. QED BY <1>0, <1>1, <1>2, BecomeAside

\* The steps of a start around its snapshot.
LEMMA StartSnapshots == ASSUME Snapshots, NEW c \in Clients, Start(c) PROVE Filed' /\ Alone'
<1> USE DEF catalog, disk, history
<1>0. /\ c \in Procs /\ at[c] \in Local /\ snapFile \in [Snap -> Content]
      /\ Numbered /\ Filed /\ Alone
  BY DEF Procs, Snapshots, Inv, TypeOK
<1>1. CASE \/ StartReplication(c) \/ Resume(c) \/ Vacuum(c) \/ StartFails(c)
           \/ SnapshotFails(c) \/ InsertFails(c)
  <2>1. UNCHANGED <<snapRows, snapFile>>
    BY <1>1 DEF StartReplication, Resume, Vacuum, StartFails, SnapshotFails, InsertFails
  <2>2. \E r : Become(c, r) /\ r.pc \in {"resume", "lock", "vacuum", "install", "remove", "idle"}
    <3>1. CASE StartReplication(c)
      <4>1. PICK r : r = [Idle EXCEPT !.pc = "resume", !.live = TRUE] OBVIOUS
      <4>2. Become(c, r) /\ r.pc = "resume" BY <3>1, <4>1 DEF StartReplication, Idle
      <4>. QED BY <4>2
    <3>2. CASE Resume(c) \/ SnapshotFails(c)
      <4>1. PICK s \in {"lock", "vacuum", "remove"} : Goto(c, s)
        BY <3>2 DEF Resume, SnapshotFails
      <4>2. PICK r : r = [at[c] EXCEPT !.pc = s] OBVIOUS
      <4>3. Become(c, r) /\ r.pc = s BY <1>0, <4>1, <4>2 DEF Goto, Local
      <4>. QED BY <4>3
    <3>3. CASE Vacuum(c)
      <4>1. PICK r : r = [at[c] EXCEPT !.pc = "install", !.ver = src] OBVIOUS
      <4>2. Become(c, r) /\ r.pc = "install" BY <1>0, <3>3, <4>1 DEF Vacuum, Local
      <4>. QED BY <4>2
    <3>4. CASE StartFails(c) \/ InsertFails(c)
      <4>1. Become(c, Idle) /\ Idle.pc = "idle" BY <3>4 DEF StartFails, InsertFails, Leave, Idle
      <4>. QED BY <4>1
    <3>. QED BY <1>1, <3>1, <3>2, <3>3, <3>4
  <2>. QED BY <1>0, <2>1, <2>2, BecomeAside
<1>2. CASE Install(c)
  <2> DEFINE r == [at[c] EXCEPT !.pc = "version", !.ver = Absent]
  <2>1. at' = Unlink(c, r) /\ r.pc = "version" /\ UNCHANGED <<snapRows, snapFile>>
    BY <1>0, <1>2 DEF Install, Local
  <2>. HIDE DEF r
  <2>. QED BY <1>0, <2>1, ReplicaAside
<1>3. CASE RemoveReplica(c)
  <2>1. at' = Unlink(c, Idle) /\ Idle.pc = "idle" /\ UNCHANGED <<snapRows, snapFile>>
    BY <1>3 DEF RemoveReplica, Idle
  <2>. QED BY <1>0, <2>1, ReplicaAside
<1>4. CASE NextSnapshotVersion(c)
  <2>1. /\ at'[c].pc = "copy"
        /\ at'[c].alone => /\ at'[c].snap \notin snapRows
                           /\ \A p \in Procs : ~ Numbers(p, at'[c].snap)
        /\ UNCHANGED <<snapRows, snapFile>>
    BY <1>4, ChosenVersion DEF NextSnapshotVersion, Snapshots, Inv
  <2>2. ASSUME NEW q \in Procs, q # c
        PROVE  /\ at'[q].pc = at[q].pc /\ at'[q].snap = at[q].snap
               /\ at'[q].ver = at[q].ver
               /\ at'[q].alone => at[q].alone /\ ~ Numbers(q, at'[c].snap)
    <3>1. \/ at'[q] = at[q] /\ ~ Numbers(q, at'[c].snap)
          \/ at'[q] = [at[q] EXCEPT !.alone = FALSE]
      BY <1>4, <2>2, ChosenVersion DEF Snapshots, Inv
    <3>2. at[q] \in Local BY DEF Snapshots, Inv, TypeOK
    <3>. QED BY <3>1, <3>2 DEF Local
  <2>3. Filed' BY <1>0, <2>1, <2>2 DEF Filed, SnapshotsRestorable
  <2>4. ASSUME NEW p \in Procs, at'[p].pc \in {"copy", "save"}, at'[p].alone
        PROVE  /\ at'[p].snap \notin snapRows'
               /\ \A q \in Procs \ {p} : ~ (at'[q].pc \in {"copy", "save", "insert"}
                                            /\ at'[q].snap = at'[p].snap)
    <3>1. CASE p = c BY <2>1, <2>2, <2>4, <3>1 DEF Numbers
    <3>2. CASE p # c
      <4>1. /\ at[p].snap \notin snapRows /\ at'[p].snap = at[p].snap
            /\ \A q \in Procs \ {p} : ~ Numbers(q, at[p].snap)
            /\ at'[c].snap # at[p].snap
        BY <1>0, <2>2, <2>4, <3>2 DEF Alone, Numbers
      <4>. QED BY <2>1, <2>2, <4>1 DEF Numbers
    <3>. QED BY <3>1, <3>2
  <2>. QED BY <2>3, <2>4 DEF Alone, Numbers
<1>5. CASE CopyReplica(c)
  <2>1. CASE replica = Absent
    <3>1. PICK r : r = [at[c] EXCEPT !.pc = "remove"] OBVIOUS
    <3>2. Become(c, r) /\ r.pc = "remove" /\ UNCHANGED <<snapRows, snapFile>>
      BY <1>0, <1>5, <2>1, <3>1 DEF CopyReplica, Local
    <3>. QED BY <1>0, <3>2, BecomeAside
  <2>2. CASE replica # Absent
    <3>1. /\ at[c].pc = "copy" /\ at'[c].pc = "save" /\ at'[c].ver = replica
          /\ at'[c].snap = at[c].snap /\ at'[c].alone = at[c].alone
          /\ \A q \in Procs \ {c} : at'[q] = at[q]
          /\ UNCHANGED <<snapRows, snapFile>>
      BY <1>0, <1>5, <2>2 DEF CopyReplica, Become, Local, Snapshots, Inv, TypeOK
    <3>2. Filed' BY <1>0, <2>2, <3>1 DEF Filed, SnapshotsRestorable
    <3>3. Alone' BY <1>0, <3>1 DEF Alone, Numbers
    <3>. QED BY <3>2, <3>3
  <2>. QED BY <2>1, <2>2
<1>6. CASE SaveSnapshot(c)
  <2>1. /\ at[c].pc = "save" /\ at'[c].pc = "insert" /\ at'[c].snap = at[c].snap
        /\ \A q \in Procs \ {c} : at'[q] = at[q]
        /\ snapFile' = [snapFile EXCEPT ![at[c].snap] = at[c].ver]
        /\ UNCHANGED snapRows
    BY <1>0, <1>6 DEF SaveSnapshot, Become, Local, Snapshots, Inv, TypeOK
  <2>2. at[c].ver # Absent BY <1>0, <2>1 DEF Filed
  <2>3. \A v \in Snap : /\ snapFile[v] # Absent => snapFile'[v] # Absent
                        /\ v = at[c].snap => snapFile'[v] # Absent
    BY <1>0, <2>1, <2>2
  <2>4. Filed'
    <3>1. snapRows \subseteq Snap /\ \A p \in Procs :
            at[p].pc \in {"insert", "truncate", "save"} => at[p].snap \in Snap
      BY <1>0 DEF Snapshots, Inv, TypeOK, Numbered
    <3>2. SnapshotsRestorable' BY <1>0, <2>1, <2>3, <3>1 DEF Filed, SnapshotsRestorable
    <3>. QED BY <1>0, <2>1, <2>3, <3>1, <3>2 DEF Filed
  <2>5. Alone' BY <1>0, <2>1 DEF Alone, Numbers
  <2>. QED BY <2>4, <2>5
<1>7. CASE InsertSnapshot(c)
  <2>1. /\ at[c].pc = "insert" /\ at'[c].pc = "stamp"
        /\ \A q \in Procs \ {c} : at'[q] = at[q]
        /\ snapRows' = snapRows \cup {at[c].snap}
        /\ UNCHANGED snapFile
    BY <1>0, <1>7 DEF InsertSnapshot, Become, Local, Snapshots, Inv, TypeOK
  <2>2. Filed' BY <1>0, <2>1 DEF Filed, SnapshotsRestorable
  <2>3. Alone' BY <1>0, <2>1 DEF Alone, Numbers
  <2>. QED BY <2>2, <2>3
<1>. QED BY <1>1, <1>2, <1>3, <1>4, <1>5, <1>6, <1>7 DEF Start

LEMMA RestoreSnapshots ==
  ASSUME Snapshots, NEW c \in Clients, RestoreStep(c) PROVE Filed' /\ Alone'
<1> USE DEF catalog, disk, history
<1>0. c \in Procs /\ Filed /\ Alone BY DEF Procs, Snapshots
<1>1. CASE Restore(c)
  <2>1. PICK v \in snapRows : Become(c, [Idle EXCEPT !.pc = "truncate", !.snap = v])
    BY <1>1 DEF Restore
  <2>2. /\ at'[c].pc = "truncate" /\ at'[c].snap = v
        /\ \A q \in Procs \ {c} : at'[q] = at[q]
        /\ UNCHANGED <<snapRows, snapFile>>
    BY <1>0, <1>1, <2>1 DEF Restore, Become, Idle, Snapshots, Inv, TypeOK
  <2>3. Filed' BY <1>0, <2>2 DEF Filed, SnapshotsRestorable
  <2>4. Alone' BY <1>0, <2>2 DEF Alone, Numbers
  <2>. QED BY <2>3, <2>4
<1>2. CASE Truncate(c)
  <2>1. PICK r : r = [Idle EXCEPT !.pc = "overwrite", !.ver = snapFile[at[c].snap],
                                  !.whole = TRUE, !.linked = TRUE]
    OBVIOUS
  <2>2. at' = Spoil(c, r) /\ r.pc = "overwrite" /\ UNCHANGED <<snapRows, snapFile>>
    BY <1>2, <2>1 DEF Truncate, Idle
  <2>. QED BY <1>0, <2>2, ReplicaAside
<1>3. CASE Overwrite(c) \/ OverwriteFails(c)
  <2>1. /\ at' = Spoil(c, Idle) \/ at' = Unlink(c, Idle) \/ Become(c, Idle)
        /\ Idle.pc = "idle" /\ UNCHANGED <<snapRows, snapFile>>
    BY <1>3 DEF Overwrite, OverwriteFails, Leave, Idle
  <2>. QED BY <1>0, <2>1, ReplicaAside, BecomeAside
<1>. QED BY <1>1, <1>2, <1>3 DEF RestoreStep

LEMMA StepSnapshots == Snapshots /\ [Next]_vars => Snapshots'
<1> SUFFICES ASSUME Snapshots, [Next]_vars PROVE Filed' /\ Alone'
  BY StepInv DEF Snapshots
<1>1. ASSUME NEW c \in Clients, Start(c) PROVE Filed' /\ Alone' BY <1>1, StartSnapshots
<1>2. ASSUME NEW c \in Clients, RestoreStep(c) PROVE Filed' /\ Alone' BY <1>2, RestoreSnapshots
<1>3. ASSUME NEW p \in Procs, Sync(p) PROVE Filed' /\ Alone' BY <1>3, SyncSnapshots
<1>4. CASE Turn BY <1>4, TurnSnapshots
<1>5. ASSUME NEW c \in Clients, DeleteDiscovered(c) PROVE Filed' /\ Alone'
  <2>1. snapRows' = {} /\ UNCHANGED snapFile BY <1>5 DEF DeleteDiscovered, disk
  <2>2. ASSUME NEW p \in Procs PROVE Aside(p)
    <3>1. at[p] \in Local /\ at'[p] = [at[p] EXCEPT !.live = FALSE]
      BY <1>5 DEF DeleteDiscovered, Snapshots, Inv, TypeOK
    <3>. QED BY <3>1 DEF Local, Aside
  <2>. QED BY <2>1, <2>2, AsideStep
<1>6. CASE RowOnly \/ UNCHANGED vars
  <2>1. UNCHANGED <<snapRows, snapFile, at>>
    BY <1>6 DEF RowOnly, StopReplication, ScanRead, ScanSame, ScanUpsert, CliScan, Tick,
                catalog, disk, vars
  <2>. QED BY <2>1, AsideStep DEF Aside
<1>7. CASE Write
  <2>1. ASSUME NEW p \in Procs PROVE Aside(p)
    <3>1. at[p] \in Local /\ at'[p] \in {at[p], [at[p] EXCEPT !.mark = TRUE]}
      BY <1>7 DEF Write, Snapshots, Inv, TypeOK
    <3>. QED BY <3>1 DEF Local, Aside
  <2>. QED BY <1>7, <2>1, AsideStep DEF Write
<1>8. CASE Crash
  <2>1. UNCHANGED <<snapRows, snapFile>> /\ \A p \in Procs : Aside(p)
    BY <1>8 DEF Crash, catalog, disk, Aside, Idle
  <2>. QED BY <2>1, AsideStep
<1>. QED
  BY <1>1, <1>2, <1>3, <1>4, <1>5, <1>6, <1>7, <1>8 DEF Next, Turn, RowOnly

LEMMA SnapshotsInvariant == Spec => []Snapshots
<1>1. Init => Snapshots
  BY InitInv DEF Init, Idle, Snapshots, Filed, SnapshotsRestorable, Alone
<1>. QED BY <1>1, StepSnapshots, PTL DEF Spec

\* Whichever snapshot the catalog lists, RestoreSnapshot finds its file: after
\* failed copies, deletions, crashes and starts that share a version.
THEOREM Restorable == Spec => []SnapshotsRestorable
<1>1. Snapshots => SnapshotsRestorable BY DEF Snapshots, Filed
<1>. QED BY <1>1, SnapshotsInvariant, PTL

\* NextSnapshotVersion keeps every start that is alone with its version away
\* from the snapshots recorded before: a recorded snapshot never changes but by
\* a start that shares its version or outlived the deletion of its row.
THEOREM SnapshotsKept == Spec => SnapshotsStay
<1> DEFINE Kept == \A v \in snapRows \cap snapRows' :
             snapFile'[v] # snapFile[v] => \E c \in Clients : SaveSnapshot(c) /\ ~ at[c].alone
<1>1. ASSUME Snapshots, Next, NEW v \in snapRows, snapFile'[v] # snapFile[v]
      PROVE  \E c \in Clients : SaveSnapshot(c) /\ ~ at[c].alone
  <2>1. PICK c \in Clients : SaveSnapshot(c)
    <3>1. snapFile' # snapFile BY <1>1
    <3>2. ASSUME NEW c \in Clients, Start(c) PROVE SaveSnapshot(c)
      BY <3>1, <3>2
      DEF Start, StartReplication, Resume, Vacuum, StartFails, Install, NextSnapshotVersion,
          CopyReplica, SnapshotFails, RemoveReplica, InsertSnapshot, InsertFails, disk
    <3>3. ASSUME NEW c \in Clients, RestoreStep(c) PROVE FALSE
      BY <3>1, <3>3 DEF RestoreStep, Restore, Truncate, Overwrite, OverwriteFails, disk
    <3>4. ASSUME NEW p \in Procs, Sync(p) PROVE FALSE
      BY <3>1, <3>4
      DEF Sync, BeginSync, BeginSyncFails, CommitSync, CommitFails, Stamp, Record,
          StoreFails, UpdateStatus, disk
    <3>5. \E c \in Clients : Start(c)
      BY <1>1, <3>1, <3>3, <3>4
      DEF Next, StopReplication, DeleteDiscovered, SyncBegin, CheckSource, CheckFails,
          ScanRead, ScanSame, ScanUpsert, CliScan, Write, Tick, Crash, disk
    <3>. QED BY <3>2, <3>5
  <2>2. v = at[c].snap /\ at[c].pc = "save" /\ c \in Procs
    <3>1. snapFile \in [Snap -> Content] /\ v \in Snap
      BY <1>1 DEF Snapshots, Inv, TypeOK
    <3>. QED BY <1>1, <2>1, <3>1 DEF SaveSnapshot, Procs
  <2>3. ~ at[c].alone BY <1>1, <2>2 DEF Snapshots, Alone
  <2>. QED BY <2>1, <2>3
<1>2. Snapshots /\ [Next]_vars => [Kept]_vars BY <1>1
<1>. QED BY <1>2, SnapshotsInvariant, PTL DEF Spec, SnapshotsStay

=============================================================================
