# Verification of sql-not-so-lite

TLA+ models of the `sqnsl` daemon, the TLC runs that check them on small
instances and the TLAPS proofs that hold for every instance. Paths such as
`store/manager.go` are relative to `internal/`.

| file | what it is |
|---|---|
| `StoreManager.tla` | the database manager and the idle tracker |
| `ManagedFiles.tla` | what the manager promises, without handles, locks or idle closing |
| `Replication.tla` | one discovered database, its replica, its snapshots, its catalog rows and everybody who touches them |
| `DiffSync.tla` | the differential sync, table by table |
| `AtomicReplica.tla` | what a differential sync promises: the replica changes as a whole |
| `Databases.tla` | tables, spellings, indexes: what `DiffSync` and `AtomicReplica` speak of |
| `Registry.tla` | managed and discovered databases: files, catalog rows, and the requests that create and drop them |
| `Exposures.tla` | scoped CRUD APIs, their tokens and the requests that make, change, revoke and use them; extends `Registry` |
| `ColumnEdits.tla` | one table, the schema editor that rebuilds it, and the record requests and programs that use it meanwhile |
| `Scans.tla` | discovery scans against files and entries that come and go |
| `Lifecycle.tla` | the daemon from Run to its exit; extends `Scans` |
| `WalFile.tla`, `SchemaTracker.tla`, `ScanRules.tla`, `RecordRules.tla` | rules of the program that are functions of their input |
| `CatalogNames.tla` | the names that databases get in the catalog |
| `Rules.tla` | the rules with their inputs, and what they are for |
| `StoreManagerProofs.tla`, `ReplicationProofs.tla`, `DiffSyncProofs.tla`, `ExposuresProofs.tla`, `ColumnEditsProofs.tla`, `LifecycleProofs.tla`, `RecordRulesProofs.tla`, `RulesProofs.tla` | the theorems |
| `MC*.tla`, `MC*.cfg` | the TLC instances |
| `PROJECT.json` | which definition models which lines, the runs, hazards, findings and theorems |

Operators whose comment begins with "Mistake:" are wrong versions of the
definition below them. They are in no specification; each is a plausible bug
that makes one property fail.

## The system

| part | state | operations | hard behaviour |
|---|---|---|---|
| database manager (`store/manager.go`) | map from name to open handle, `LastUsed`, files in the data directory | Create, Get, Drop, CloseIdle, CloseAll | Get is two critical sections; handles are used after Get returned; a handle or a file can go away in between |
| idle tracker (`idle/tracker.go`) | `isDormant` | loop, check | runs against every request |
| database service (`service/database.go`) | none of its own | Execute, Query, AddColumn, EditColumn, InsertRow | table rebuild in one transaction |
| record CRUD (`service/records.go`) | none | list, insert, update, delete | filters, limits, integer width |
| discovery catalog (`catalog/`) | SQLite tables: discovered databases, replication state, snapshots, schema versions, transitions, exposures | one locked statement per call | callers read, work, and write back |
| replicator (`replicator/`) | replica file, snapshot files, `replicaLocks` | initial sync, differential sync, snapshot, restore, WAL parsing | lock covers syncs only; restore writes in place; sidecar files |
| daemon (`daemon/daemon.go`) | scanner and replicator goroutines | replication turn, scan, shutdown | order of shutdown; restart at any point |
| scanner (`scanner/`) | none | walk, classify | I/O |
| HTTP and gRPC servers (`server/`) | `scanMu`, scan context | managed databases, discovery, replication, restore, exposures | one action over manager, file system and catalog, not atomic |
| scoped CRUD APIs (`server/exposures.go`) | `api_exposures` rows | create, narrow, rotate, delete, data requests | requests outlive a revocation |
| schema tracker, config, auth, CLI | none, or files read once | | text functions; the CLI is a second process on the same files |
| web interface, generated code, scripts, packaging | | | not part of the daemon's logic |

Requests reach the manager through the service. The manager and the catalog do
not know each other: the handlers update one, then the other. The replication
loop, the handlers, the scans and the CLI meet in the catalog's rows and in the
replica file, and only syncs share a lock.

What must hold, per part:

- manager: one handle per file, on the file that is there; nothing leaks; idle handles get closed;
- replication: `LastSync` may be trusted, a recorded snapshot is there and keeps its contents, the replica never goes back, it catches up in the end, a stop stops, only one writer at a time;
- catalog: a row marked replicating has a replication state; no row without a file stays behind;
- differential sync: after a commit the replica equals the source snapshot, after a failure it is untouched;
- managed databases: a file and its row come and go together;
- exposures: a request stays on the database its API was for, an API is for the file it was validated against, a token that was rotated or revoked stays so;
- table rebuild: rows, keys, indexes and triggers survive, or nothing changes, and the connection comes back as it was;
- record requests: one row is changed, and a record is found by what the API returned of it; pages neither repeat nor lose rows;
- scans: what the catalog says of a file is true when the scan is through; a database keeps its name and shares it with none;
- schema versions: a changed schema gets a version, and the difference explains the change;
- shutdown: nobody uses the catalog or a handle after it was closed, and shutdown ends.

## StoreManager

State and code: `databases` and `entry` are `Manager.databases` and the
`*DBEntry` values it points to; `disk` is the data directory, where every file
ever created under a name gets a new identity, so that a statement on a removed
file can be told from one on its successor. `client` is a request: the step of
Get it is at and the entry it holds. `Manager.mu` makes Create, Drop, CloseIdle,
CloseAll and Get's slow path one action each; Get's fast path is two
(`GetLookup`, `GetStamp`), and the use of the entry (`BeginStatement`,
`StatementRefused`, `EndStatement`) comes later still. Time is the age of an
entry up to the first value past the timeout, the only thing CloseIdle asks of
`LastUsed`. `Entries` are reused when nothing refers to them, like memory.

| run | checks | bounds |
|---|---|---|
| `MCStoreManager` | types; `OneHandlePerFile`; `HandleIsCurrent`; `ImplementsManagedFiles` (refinement) | 2 names, 2 requests, 4 entries (one per name and request, so an entry is always free), limit 1, timeout 0, 2 files per name (a drop and a new creation); symmetric in names, requests and entries; 349 255 states |
| `MCStoreManagerLive` | `QuietGoesDormant` | 1 name, 2 requests, timeout 1, Close may fail; no symmetry; 83 059 states |

Fairness (`FairSpec`): the tracker's loop goes on and the clock runs. Nothing is
assumed of requests.

Between the two sections of Get's fast path the idle tracker can close the
entry, and the request gets "database is closed" for a database that exists.
`ImplementsManagedFiles` shows that this is the worst that happens: no statement
ever runs on the wrong file.

## Replication

One discovered database. `src` is the version of the source's contents; the
replica and the snapshot files hold such versions, or are absent, or torn (a
mixture that no version explains). `row` is the status of its row in
`discovered_databases`, `state` the row in `replication_state`, `snapRows` those in
`snapshots`. `at` gives per process the step it is at and its local variables. Processes are
the requests (`Clients`, each with the requests it may send in `Ops`) and the
goroutine of `runPeriodicReplicator` (`Syncer`). Each catalog call is one step,
because it holds `Catalog.mu` for one statement; between two calls anybody may run. One action
is more than that: `InsertSnapshot` is the replica's schema, its version and the snapshot's row, of which
only the last changes anything here.

- A start: `StartReplication`, `Resume`, then either the sync below or `Vacuum`,
  `Install` (the initial sync), `NextSnapshotVersion`, `CopyReplica`,
  `SaveSnapshot`, `InsertSnapshot`, then `Stamp`, `Record`, `UpdateStatus`. Each error
  return is an action: `StartFails`, `SnapshotFails` with `RemoveReplica`,
  `InsertFails`, `StoreFails`.
- A turn of the loop: `SyncBegin`, `CheckSource` or `CheckFails`, then the sync:
  `BeginSync`, `CommitSync` or `CommitFails`, `Stamp`, `Record`, `UpdateStatus`.
- Restore: `Restore`, `Truncate`, `Overwrite` or `OverwriteFails`. No lock.
- Stop, delete (which cascades), GUI scan (`ScanRead`, then `ScanSame` or
  `ScanUpsert`), CLI scan, writes by the application, restart of the daemon.

A file that is renamed over or unlinked stays with those who have it open
(`linked`); a file written in place is spoilt for those who have it open
(`whole`). A transaction on a spoilt file may fail, may commit, may leave it torn.

Time: the loop skips a database when the source's modification time is not after
`LastSync`, which the catalog rounds down to a second. So `LastSync` is only ever
"clean" (skip) or "dirty" (sync), every write makes it dirty, and it is recorded
dirty when the source was written in the present second (`recent`). `raced` and
`restored` are history variables, and `alone`, local to a start, is another: its
snapshot version was free when it chose it, and no other start has chosen it since. No
action's guard reads them.

| run | checks | bounds |
|---|---|---|
| `MCReplication` | types; `CleanMeansCurrent`; `SnapshotsRestorable`; `ReplicaMonotone`; `ReplicatingHasState`; `SnapshotsStay` | a client that starts and restores, one that stops and deletes, the loop, both scans, failures, restarts, 2 versions, 2 snapshots; 1 556 113 states |
| `MCReplicationLive` | `QuietCatchesUp` | two clients that start and stop, the loop, failures, 2 versions, 1 snapshot; 142 851 states |
| `MCReplicationRace` | `EveryChangeReplicated` fails | one client and the loop, nothing fails |
| `MCReplicationPause` | `PauseHolds` fails | one client and the loop, nothing fails |

Two versions suffice to tell current from stale; the second snapshot lets two
starts of one database meet, and lets a start follow a deletion. With one
snapshot a start may wait for a version at the bound, which is why
`MCReplicationLive` alone does not check deadlock. The proofs have neither bound.

Fairness (`FairSpec`): the loop runs again and again, whoever holds `replicaLock`
releases it by success or failure, and failures are transient, so that a step of
the loop that is possible again and again succeeds at last. Strong fairness on
`BeginSync` includes the loop's turn at the mutex, which Go grants to a waiter that
starves. No fairness is assumed of requests outside the lock, of scans, or of the
application. The liveness run has no restarts, because a daemon that is killed
again and again catches up with nothing, and no scans, whose status
writes its premise excludes anyway.

The findings:

- `EveryChangeReplicated`: `LastSync` is the time after the sync, not the time of
  the source snapshot it read. A write in between that falls in an earlier second
  than `LastSync` is never seen, until the next write.
- `PauseHolds`: a turn of the loop stores "replicating" at its end without looking
  at the status again, and so undoes a stop.

`SnapshotsStay` has two exceptions, and the code meets both: nothing is locked between
choosing a snapshot version and recording it, so two starts can choose the same one. The second
renames its copy over the first one's file before the catalog refuses its row, and the
recorded snapshot has other contents than when it was recorded. `MCReplication` has one start at
a time, which may be repeated after a failure, a deletion or a restart, and there nothing is ever
written over; that starts which meet write over a snapshot only if they share its version is proved
(`SnapshotsKept`), for any number of starts.

`CleanMeansCurrent` and `QuietCatchesUp` are what remains true: but for such a
write and for a restore, a skipped database is current, and a replicating one
gets there. A turn of the loop that fails to read the replication state stores the status "error",
and the database is in the list no more: `QuietCatchesUp` is about rows that go on saying "replicating".

## DiffSync

What is one step in `Replication` (`CommitSync`) is here the two loops of
`DifferentialSyncContext` inside its two transactions. `snap` is the source
transaction's snapshot, `work` what the replica transaction sees, `replica` what
everybody else sees; `todo`, `extra` and `changed` are the rest of `sourceTables`,
`replicaSet` and `changed`. `Begin` opens both transactions and lists the tables, `Keep` or
`Replace` handle the next table by name, `Remove` a table only the replica has,
then `Commit`. `Fail` is any error or cancellation at any of these points, `Refuse`
the one error that is in the data: a name is taken, or a view has the name of the table.
`Edit` is the application, which may write between any two steps. `Commit` ends with the loop's
`LastSync`, which is the time then: what was written since the snapshot is taken for synced
(`dirty'` is FALSE), and `missed`, a history variable, says that there was such a write.

`Databases` has what a database holds under each name: a table (its definition with its rows, and
its indexes and triggers), a view or a virtual table. A sync lists and copies tables only, but names
matter: SQLite folds their case while Go's maps do not; tables, views, virtual tables and indexes
share one name space per database, and triggers have another. Left out are shadow tables, and
tables whose names begin with "sqlite", which `listUserTables` passes over (the `_` of its LIKE is any
character). A trigger spells its table's name as the table does; `tableObjects` would not find it otherwise.

| run | checks | bounds |
|---|---|---|
| `MCDiffSync` | types; `ReportsDifferences`; `RefusalsAreMoves`; `ImplementsAtomicReplica` (refinement); `QuietFollows` | a name in two spellings and another name, sorting between them, each a table, a view or a virtual table; 1 index, whose name is the other table's; 1 trigger; 1 content; 3 edits (a rename is 2), 1 failure, any initial database; 497 546 states |
| `MCDiffSyncRename` | `ReplicaFollows` fails | two names, 1 index, 2 edits, no failure; 13 407 states |

One content is enough: tables also differ in their indexes and triggers, and the code compares
all of it alike.

Fairness (`FairSpec`): a changed source is synced (the loop retries failed
databases, their status stays "replicating"), and a sync that has begun goes on.
Failures are bounded by `MaxFailures`, which makes them transient, edits by `MaxEdits`.

`ReplicaFollows` is a finding: rename a table that has an index, and the new table
cannot get its index while the old one is still in the replica, because removed
tables are dropped last. Every sync of that database fails from then on, and a
start resumes with the same sync. The same happens to a table, index or trigger that takes the name of
anything else that the replica has, a table after an index or a view for instance. `RefusalsAreMoves` shows that these
are all: a sync is refused only for a name of the source that is something else's in the replica
(`Moved`), never for the order of the tables or for what the sync wrote itself. For `Replication` this is a failure that is not transient:
`QuietCatchesUp` there holds for sources without such a move.

`QuietFollows` and `ReplicaFollows` leave out sources whose last write was `missed`: `Replication` shows
in `EveryChangeReplicated` that it is not looked at again.

The refinement shows a second weakness without a run of its own: `Synced`, the
reference definition of the result, lacks the tables whose names only changed
their case. The old spelling, still in `replicaSet`, is dropped after the new one
was copied, SQLite takes both for the same, and the table is missing from the replica
until the source changes again. `CommitSync` in `Replication` takes a successful
sync for a complete one and so holds for sources that do not do this.

## Registry and Exposures

`Registry`: `file` gives per path the file that is there, as an identity that no
other file ever has, `row` per id the `source_path` of its row in
`discovered_databases`, `ids` the last id AUTOINCREMENT gave. `at` holds per request
its next step and local variables. A creation is `CreateDatabase` (the manager's), `Stat`,
`Upsert`, or `RegisterFails` and `Rollback`; a drop is `FindDatabase`, `DropDatabase`,
`Unregister`; each error return is an action. The GUI deletes rows, scans insert them,
applications make and remove files of their own. Nothing is locked from one
step to the next, so any number of requests meet anywhere.

`Exposures`: `api` is `api_exposures`, `issued` the last token. `checked`, `dead` and
`strayed`, as `spoilt` in `Registry`, are history; no guard reads them. A request
reads an API (`ExposeManaged`, `ExposeDiscovered`, `ChangeApi`, `Request`), looks for the
database's row by path or id (`FindRow`, `Resolve`), opens the file (`Open`), and then stores
the API (`InsertApi`, `UpdateApi`) or serves records (`Finish`). `DeleteApi` and `RotateToken` are one
statement each. Whenever a row goes its APIs go with it (`Cascade`).

| run | checks | bounds |
|---|---|---|
| `MCExposures` | types; `CatalogMatchesFiles`; `ServesItsDatabase`; `ApiServesItsFile`; `RevokedForever` | 2 requests (symmetric), a managed name and a path of another application, 3 files, 2 rows, 1 alias, 1 scope with 2 accesses, 2 tokens; 1.87 million states |

Two requests suffice for one to change what the other has read; three files let
a name have a file, lose it and have another while an application replaces its
own; two rows and tokens let an id or a token be followed by the next one. More would
only lengthen histories: the proofs have none of these bounds.

No fairness: these are safety properties, and requests may always fail or be given up.

Two properties leave something out, by name. Names that are `spoilt` had a
step that nothing makes up for: a registration later than a drop, a clean-up later than a
creation, a roll-back or clean-up that fails. On those a file and a row may remain
apart until somebody removes either. Aliases that `strayed` were changed by a
PUT that had read an earlier API of that name.

## ColumnEdits

One table: `table` is what was last committed, `writer` who has SQLite's write lock. An
EditColumn request (`edit`) holds the handle's only connection (`holder`) from `Acquire` to
`RestoreForeignKeys`: it reads the columns (`LoadColumns`), looks for constraints (`Validate`) and
NULLs (`CountNulls`), turns foreign keys off, and then rebuilds the table in a transaction: `Rename`,
`Reload`, `Rebuild`, `Recreate`, `Commit`. `EditFails` may happen at every step; the deferred calls
then run last first, `RollbackEdit` and `RestoreForeignKeys`. A record request (`rec`) has a
connection of its own: `LoadRecords`, `Mutate`, `CommitRecord` or `RecordFails`. `AddColumn`, `CreateTable` and
`SetForeignKeys` are statements on the shared connection, `OtherProgram` those of whoever else
has the file open.

SQLite is external: a transaction works on the snapshot its first statement took
(`work`), one connection writes at a time, a commit makes the snapshots of others
`Stale`, which can no longer be written, and a statement that waits too long fails.

| run | checks | bounds |
|---|---|---|
| `MCColumnEdits` | types (no NULL in a NOT NULL column); `EditIsExact`; `RecordChangesOneRow`; `ForeignKeysKept`; `ConnectionReturned` | 1 editor, 1 record request, 2 names of columns, 1 value and NULL, 1 index or trigger, 2 rows, 1 schema change by others; about 815 000 states |

The handle has one connection, so a second editor would wait; one value and NULL
suffice to see a value lost or moved; two rows tell an order and a key from another.
Fairness (`FairSpec`): an edit that has the connection goes on, by success or
failure, since its statements wait five seconds at most for a lock.

## Scans and Lifecycle

`Scans` is `HTTPServer.Scan`: `scanMu`, which a second scan does not wait for
(`Enter`), the two contexts (`Observe`, `Cancel`), the walk path by path, the upserts file by
file, and the second look at every catalog file below the roots (`Check`). An invalid root, a walk
that fails or a list that cannot be read end it with an error; a file that cannot be read, an upsert, a Stat
or an UpdateAvailability that fails is logged and passed over. `disk` and
`entry` change under it (`ChangeFile`, `RemoveEntry`). `steady` and `kept` are history: the files that
stayed as they were, and those whose entries the scan did not have to leave as they were; `ScansTellTheTruth`
is about those in both. What the periodic scan and a request
share is all here; which files a walk reaches is in `ScanRules`.

`Lifecycle` adds the goroutines of `daemon.Run` (`scanner`, `loop`, `tracker`), both
servers, which start in goroutines of their own and may be late, calls and
requests, and `Shutdown` as the steps of `phase`: cancel the scan and wait, cancel the loop and
wait, the tracker, `GracefulStop`, cancel the server's scans and take `scanMu`, the HTTP
server until the ten seconds are over (`Expire`), the catalog and the handles.

| run | checks | bounds |
|---|---|---|
| `MCLifecycle` | types (one holder of `scanMu`); `ClosedWhenUnused`; `NoScanAfterStop`; `ScansTellTheTruth`; `ShutdownEnds` | the scanner, which scans 2 files, a request that scans 1 of them, a gRPC call, the replication loop; 376 158 states; the process exits, so deadlock is not checked |

Two files tell those below a root from those elsewhere and leave a scan
something to do when one of them goes.

Fairness (`FairSpec`): goroutines and scans go on, calls are answered, time
passes, and `AwaitScan` is strongly fair, because Go hands a mutex to a waiter that starves
though others keep trying it. Nothing is assumed of HTTP requests, of files, or of
when the shutdown begins: `ShutdownEnds` needs no request to end.

`ClosedWhenUnused` leaves out requests that outlast the ten seconds, and a server that
started to listen only after Shutdown had passed it: both use a closed catalog.

## Rules

The rules are operators, and `Rules` compares them with what they are for, input by
input: a state has one of `Inputs`. `InputsAssumption` says what an input may be,
of any size (`IsLog`, `IsChange`, `IsScan`, `IsTable`, `IsWindowRequest`, `IsWrite`), and is what the proofs start from;
`MCRules` enumerates small ones, and TLC checks that they satisfy it. The rules for names do not stand
alone: a name depends on the rows there are, so `catalog` goes through any number of scans
(`Discover`), registrations (`Register`) and deletions (`Delete`). A registration is two calls of the catalog
in the code and one step here: a name that was taken in between fails the second, since names are UNIQUE. 173 909 states.

| property | of | inputs of the run |
|---|---|---|
| `ReadsTheGeneration` | `ParseWAL`, `MapPagesToTables` | logs of at most 2 old and 2 new frames, torn at every place, every start |
| `NamesTellDatabasesApart` | catalog names | every catalog that 4 paths can lead to, whose names and hashes collide |
| `VersionsHoldTheSchema`, `DiffExplainsTheChange` | schema tracker | pairs of schemas with at most one of each: a table in 11 forms (words, layout, white space and a semicolon in a literal, IF NOT EXISTS, virtual); an index, a view or a second table; a trigger of one or three statements, in two orders, or named like the table |
| `ScanListsWhatIsThere` | walk, exclusions, priorities, roots, data directories | 11 files; every choice of 6 roots, 3 excluded directories, 3 patterns; 2 lists of priorities, 2 patterns of data directories |
| `PagesPartitionTheRows` | `ListRecords`, `QueryDatabase`, discovered tables | tables of 3 rows with a key of one or two columns, without a key, with a column called rowid, with WITHOUT ROWID in their texts or not; views and virtual tables; windows of at most 5 rows |
| `RecordsAreFound` | values and filters of records | 11 types of columns, every kind of JSON value, a time in two forms |

A schema's texts are cut at every semicolon, as the code cuts them, so the text of an object is a
sequence of pieces; a piece has its words and the kind of gap before each. `Meaning` is what a text says: all of it but
the amount of white space in its layout. `Plain` texts are those from which normalizing takes nothing else; of others
the properties say only that a schema that says the same gets no new version.

Text that the rules compare is a sequence of words, so that "database" can
begin like "data". For the scans a file is the sequence of the names that lead to it (`Location`), and the program
gets its text (`PathOf`): the property says in names what the code decides in text.
What a property leaves out is said in its comment and below.

## Known divergences

Three runs find a violation: `EveryChangeReplicated`, `PauseHolds` and `ReplicaFollows`, told of
above. These were met while modelling and have no run of their own; the
models contain all of them, and the properties above say what still holds.

- `store/manager.go:112`: Get looks an entry up, lets the lock go, and takes it again
  for `LastUsed`. The tracker can close the entry in between, and the caller gets a closed handle,
  though `docs/configuration.md:53` says only idle connections are closed and the tests
  expect Get to open a database again.
- `store/manager.go:214`: when Close fails Drop leaves a closed handle in the map, and so
  does every Get until the tracker removes it.
- `replicator/snapshot.go:87`: restore writes the replica without `replicaLock`, while
  `docs/usage.md:99` says "Replica writes are serialized within the process". The replica may end up torn.
- `replicator/sync.go:101`: a table, index or trigger cannot be copied while anything else in the replica has its name,
  a view or an index included; every sync fails from then on (see DiffSync).
- `replicator/sync.go:242`: a table whose name only changed its case is copied and then
  dropped (see DiffSync).
- `server/grpc.go:113`, `server/http.go:208`: requests on one name that overlap can leave a file
  without a row or a row without a file, and a roll-back drops whatever file has the name by then (`spoilt`).
- `server/exposures.go:255`: a PUT validates tables against the database it read and updates
  by alias, which may be another database's by then (`strayed`).
- `service/database.go:330`: a constraint added between the check and the transaction is lost in the
  rebuild, while `docs/usage.md:25` says such schemas are rejected "rather than silently weakened".
- `service/database.go:436`: a rebuild numbers the rows of a table without a key anew, while
  `docs/crud.md:79` offers the row number as a key.
- `service/records.go:183`: filters refuse or miss values that a column is not declared for.
- `service/records.go:308`: a time in a column of type DATE, DATETIME or TIMESTAMP is returned in the form of
  RFC 3339 and compared in the form that is stored: one that was written as "2024-01-01 10:00:00" is not found by what was returned.
- `service/records.go:102`: a table whose text says WITHOUT ROWID in a comment or literal gets no row number as its key.
- `server/http.go:722`: when Stat or UpdateAvailability fails the entry stays as it was, available or missing, and the
  scan ends without an error.
- `daemon/daemon.go:300`: one failure to read the replication state takes the database off the loop's list, while
  a failed sync is tried again.
- `server/http.go:748`: nothing is within the root "/", so nothing below it is ever marked missing; a root that is
  a file is listed though its directory is excluded.
- `docs/configuration.md:34`: "*.tmp" is matched as a substring, asterisk included.
- `schema/tracker.go:61`: texts are cut at every semicolon and sorted piece by piece, white space is collapsed in literals
  too, and the first IF NOT EXISTS is taken out wherever it stands: triggers with their statements in another order, or tables
  that exchange literals with semicolons, have one hash, and the changed schema gets no version.
- `schema/tracker.go:95`: `DiffSchemas` passes over the order of a trigger's statements, takes a trigger and a table of one
  name for the same object, and goes by the whole text of a virtual table, so that its layout is a change.
- `server/grpc.go:67`: `GracefulStop` waits for its calls without a limit, on the ten
  seconds of the HTTP server, which is then cut off at once.

## Proofs

All theorems hold for any constants that satisfy `StoreAssumption`,
`ReplicationAssumption`, `DatabaseAssumption`, `SyncAssumption`, `RegistryAssumption`,
`ExposuresAssumption`, `EditsAssumption`, `ScansAssumption`, `LifecycleAssumption`, `NamesAssumption`,
`LimitsAssumption`, `NumeralsAssumption` and `InputsAssumption`: the sentinels are not
members of the sets they stand out from, names of managed databases are not
other paths, calls are not requests, the bounds are numbers, file names are sequences,
0 and 1 have a text, and inputs are what the program can be given (see Rules). tlapm
checks every leaf with SMT, Zenon and, for the temporal steps, LS4.

`StoreManagerProofs`: `TypeCorrect`, `NoHandleLeaks` (`OneHandlePerFile`),
`HandlesAreCurrent` (`HandleIsCurrent`) and `ManagerImplementsFiles`
(`ImplementsManagedFiles`). The types are inductive. The rest needs that an entry in the map
carries its name, that a free entry is closed, and that an entry a request
holds is not reused under it; the refinement maps every step to a creation, a
drop, the begin or end of a statement, or a stutter, with `serving` computed from
the requests' entries.

`ReplicationProofs`: `TypeCorrect`, `CleanIsCurrent` (`CleanMeansCurrent`), `Monotone`
(`ReplicaMonotone`), `HasState` (`ReplicatingHasState`), from one invariant `Inv`, and `Restorable`
(`SnapshotsRestorable`), `SnapshotsKept` (`SnapshotsStay`), from `Snapshots`, which adds two parts to it. None
of the properties is inductive alone:

- `Locked`: who is between source snapshot and write holds the lock;
- `Bounded`: nothing is newer than what the lock holder is about to write, hence `Monotone`;
- `Undisturbed`: without a restore no open replica is spoilt or torn, and an unlinked one was removed;
- `Carried`: without a race, syncs on their way carry the newest version;
- `Covered`: who took a `LastSync`, or is about to, left the replica current, hence `CleanIsCurrent`;
- `Backed`: who is about to write "replicating" to an existing row has seen its replication state, hence `HasState`;
- `Numbered`: who handles a snapshot has a version;
- `Filed`: who is about to record a snapshot, or to restore one, finds its file, and who copies the replica holds a copy, hence `Restorable`;
- `Alone`: a version that one start has for itself is not recorded, and nobody else is about to record it, hence `SnapshotsKept`.

`DiffSyncProofs`: `TypeCorrect`, `ReportIsExact` (`ReportsDifferences`), `RefusalsExplained`
(`RefusalsAreMoves`) and `SyncIsAtomic` (`ImplementsAtomicReplica`). The invariant says what a sync
has done so far: `Lists` (what the loops have before them), `Written` (`work` is the
snapshot for the tables done, nothing for those dropped under any spelling, the
old replica elsewhere), `Reported` (`changed` is where they differed). `NextTable`
derives from it that the comparison, which reads the replica transaction, sees the old
replica; `WorkIsSynced` that at the end `work` is `Synced`. The databases stay `WellFormed` (no name twice),
`work` included, and what stands in the way of a table is then something the replica had before the sync, hence `RefusalsExplained`.

`ExposuresProofs`: `TypeCorrect`, `RequestsStayOnTheirDatabase` (`ServesItsDatabase`),
`TokensStayRevoked` (`RevokedForever`), `RowsAndFilesAgree` (`CatalogMatchesFiles`), `ApisAreForTheirFiles`
(`ApiServesItsFile`). Four invariants:

- `Base`: types, an id that was not given out has no row (`Rows`), and per request which variables
  its step has set (`Good`) and that the row its id names is the one it was read from,
  or gone (`Points`). Ids are never given twice, hence `ServesItsDatabase`;
- `Tokens`: no token opens two APIs, and none that is dead or still to come opens one;
- `Matched`: behind every difference between a managed file and its row there is a request that will make up for it;
- `Checked`: an API, and a request that is about to store one, has the file that is at
  its path, or the row is gone or about to go (`Held`).

The step lemmas split Next into `Databases`, the two removals of rows, and the
steps of requests for APIs (`Kinds`); each part is shown once to leave alone what it does not touch.

`LifecycleProofs`: `TypeCorrect`, `ScansAreStopped` (`NoScanAfterStop`), `CatalogOutlivesItsUsers`
(`ClosedWhenUnused`), `ScansAreTruthful` (`ScansTellTheTruth`), from `DaemonInv`: `ScanInv`, which is what a scan
has found, stored and has left to do of the files that stayed and whose entries it was not made to leave alone (`Truthful`), and `Control`, what each
phase of the shutdown has established for all later ones. `OneScan` (the lock admits one scan) lets `OwnStep`,
`LeaveStep` and `EnterStep` prove a scan's steps one record at a time.

In `ReplicationProofs` most steps move one process outside the lock; `LocalStep`, `AcquireStep`,
`ReplicaStep` and `QuietStep` prove them once, and each action only shows that it is such a step.
For the snapshots these are `BecomeAside` and `ReplicaAside`: only four steps of a start and the
choice of a snapshot to restore touch them. A start that chooses its version takes `alone` from
others, so it is no `LocalStep` (`ChosenVersion`).

`ColumnEditsProofs`: `TypeCorrect`, `ForeignKeysRestored` (`ForeignKeysKept`), `EditsAreExact`
(`EditIsExact`), `RecordsChangeOneRow` (`RecordChangesOneRow`), for any number of editors, writers,
columns, rows, indexes and triggers. That an edit is exact says nothing of what it read before its
transaction, so `Inv` says what a request under way knows of the table now:

- `Holding`, `Mode`: who has the connection, and whether its mode is in the connection or in the edit's variable;
- `Checked`: the request fits the columns that were read, whatever has become of them since;
- `Snapshot`: an edit's table is stale, or the committed table under the new name
  (`Base`), or what the rebuild makes of that (`New`), and who has renamed or rebuilt is the writer;
- `Statement`: a record request has a stale table, or the committed one with one row
  that its filter matches, or what one statement makes of it.

Whoever commits makes all other snapshots stale and whoever writes is alone, so the
invariant survives the commits of others (`CommitInv`, `CommitRecordInv` and the steps of the connection and of
other programs), and at a commit the new table is a function of the one it replaces. The lemmas on
`Renamed`, `Numbered` and `Rebuilt` say that rows are kept one to one, which is then read off.
TLC checked `Inv` before it was proved, on the run's constants and with two editors and two writers (5.3
million states).

`RulesProofs`, with the lemmas on records in `RecordRulesProofs`: `GenerationIsRead` (`ReadsTheGeneration`),
`NamesStayApart` (`NamesTellDatabasesApart`), `VersionsAreSchemas` (`VersionsHoldTheSchema`), `DiffIsTheChange`
(`DiffExplainsTheChange`), `ScansAreComplete` (`ScanListsWhatIsThere`), `PagesArePartitions` (`PagesPartitionTheRows`),
`RecordsComeBack` (`RecordsAreFound`), for logs, schemas, directories, tables and limits of any size. `RulesInv` is inductive: the input is one of
`Inputs`, the catalog is finite and its names are apart. Where a lemma needs an induction, it takes the least number
that is a counterexample (`LeastNumber`): the library's induction theorems have an operator as a parameter.

- Logs: behind the frames of a generation there are none with its salt (`LogFrames`), so
  the frames that are read are an interval (`GenerationInterval`).
- Names: the candidates differ in length or in their last part, and there is one more than there are rows, so
  by the pigeonhole principle one is free (`FirstFreeIsFree`); a known path keeps its name without a search.
- Schemas: normalizing takes from a piece no more than its layout (`SenseNormalized`), and from a plain one no less
  (`PlainNormalized`), so that schemas of one meaning have every piece equally often (`SamePlaces`, `SameHash`), and plain
  schemas of different meanings do not, since the first piece of a plain object tells it (`HashTells`). The difference reports
  exactly the first pieces that come, go or change (`Reported`), a case analysis on names.
- Scans: a path has its names, each behind a separator and without one (`TextLayout`). By induction on the names, a
  text that goes on from a directory with the beginning of a name begins a path exactly when the names do
  (`TextBegins`). From it follow that a path leads to one file (`PathTells`), what `isUnder` and the walk compare
  (`UnderPath`, `BelowPath`), and what a data directory matches (`DataDirectory`). A walk that
  passes an exclusion is stopped by the lower of the excluded directory and the root
  (`WalkStops`); a directory on the way to a file is excluded, or has a pattern, only if the file is or has (`WalkReaches`).
- Pages: the key columns, or the hidden row number, come last in the terms of `ORDER BY`, so
  the terms tell any two rows apart (`KeysTellRows`) and order them (`TermsOrder`). A row's place is the number of
  rows before it: there is one sequence in which every row has its place
  (`OrderingExists`, `OrderingIsUnique`), and each page is cut from it.
- Values: `Returned` and `FilterValue` undo each other on what a column is declared for, and on times in the form of RFC 3339 (`ComesBack`).

Only model-checked:

- the liveness properties `QuietGoesDormant`, `QuietCatchesUp`, `QuietFollows`, `ConnectionReturned` and `ShutdownEnds`:
  the prover does not reason about fairness and ENABLED;
- the three violations, which are counterexamples and not theorems.

## Not modelled

- SQL: rows and definitions are values, a statement succeeds or fails.
- The `-wal` and `-shm` files: a database and its sidecar files are one. A crash
  between replacing one and removing the others is out of the model.
- Pruning snapshots (`PruneSnapshots`, `PruneSnapshotFiles`): nothing calls it.
- `sqnsl replicate` and `sqnsl restore` in a second process, without the daemon's lock.
- Error messages, summaries of differences, favourites, statistics, and schema transitions, which the daemon never writes.
- Several databases at once in `Replication`: they share only the catalog's mutex. Replica paths derived from names.
- A source that changes its modification time without a change of contents (it only causes another sync).
- Of records: the operator like and comparisons by order, projections, the limits on the number of filters and fields.
- Reading SQLite headers, the journal mode and Git configuration: I/O without state.
- Web interface, configuration, authentication, generated code, scripts, packaging.

## What is left

1. `SnapshotFiles`: rename and in-place copy with the sidecar files and crashes. It needs a
   model of what SQLite makes of a write-ahead log that belongs to another file.
2. The CLI's `replicate` and `restore` as further processes of `Replication`.
3. `Exposures` and `ColumnEdits` composed: what a narrowed API may still do to an open file.
