------------------------------ MODULE Registry ------------------------------
(***************************************************************************)
(* Databases and their rows in discovered_databases: the managed databases *)
(* that HTTP and gRPC requests create and drop (internal/server/http.go,   *)
(* internal/server/grpc.go), the files found by scans, and the rows        *)
(* (internal/catalog/catalog.go) that name them.                           *)
(*                                                                         *)
(* A creation spans the manager and the catalog: the file, then the row,   *)
(* and the file is dropped again when there is no row.  A drop removes the *)
(* file, then the row.  Nothing is locked from one step to the next, so    *)
(* two requests on one name meet between any two of them.                  *)
(*                                                                         *)
(* A file is its identity: a number that tells it from every other file    *)
(* that was ever at its path.  Names of rows are in CatalogNames.          *)
(***************************************************************************)
EXTENDS Naturals

CONSTANTS
  Clients,  \* requests being served
  Names,    \* paths of managed databases
  Others,   \* paths of files that belong to other applications
  None,     \* no path
  MaxFiles, \* bound: files ever created
  MaxRows   \* bound: rows ever inserted

Paths == Names \cup Others
Id    == 1 .. MaxRows
File  == 1 .. MaxFiles
NoFile == 0
NoId   == 0

ASSUME RegistryAssumption ==
  /\ None \notin Paths
  /\ Names \cap Others = {}
  /\ MaxFiles \in Nat
  /\ MaxRows \in Nat

VARIABLES
  file,    \* per path the file that is there, or NoFile
  made,    \* the last file created
  row,     \* per id the source_path of its row, or None
  ids,     \* the last id given to a row: AUTOINCREMENT never goes back
  at,      \* per request: its next step and its local variables
  spoilt   \* history: names whose file and row were left apart by a step that
           \* nothing makes up for; no guard reads it

registryVars == <<file, made, row, ids, at, spoilt>>

Step  == {"idle", "register", "upsert", "rollback", "drop", "unregister",
          "row", "reread", "resolve", "open", "use"}
Op    == {"none", "create", "drop", "expose", "put", "data"}
Local == [pc: Step, op: Op, path: Paths \cup {None},
          id: Id \cup {NoId}, file: File \cup {NoFile}]

Idle == [pc |-> "idle", op |-> "none", path |-> None, id |-> NoId, file |-> NoFile]

\* The ids of the rows registered under a path: at most one, source_path is UNIQUE.
RowOf(p) == {i \in Id : row[i] = p}

RegistryInit ==
  /\ file \in [Paths -> {NoFile}]
  /\ made = 0
  /\ row = [i \in Id |-> None]
  /\ ids = 0
  /\ at = [c \in Clients |-> Idle]
  /\ spoilt = {}

Return(c) == at' = [at EXCEPT ![c] = Idle]

Go(c, pc) == at' = [at EXCEPT ![c].pc = pc]

Spoil(p) == spoilt' = spoilt \cup ({p} \cap Names)

\* A file appears at a path where there may have been another one.
NewFile(p) ==
  /\ made < MaxFiles
  /\ made' = made + 1
  /\ file' = [file EXCEPT ![p] = made']

\* Mistake: an id is taken again once its row is gone (no AUTOINCREMENT).
InsertRowReusingIds(p) ==
  /\ \E i \in Id : row[i] = None /\ row' = [row EXCEPT ![i] = p]
  /\ UNCHANGED ids

\* A new row of discovered_databases.
InsertRow(p) ==
  /\ ids < MaxRows
  /\ ids' = ids + 1
  /\ row' = [row EXCEPT ![ids'] = p]

-----------------------------------------------------------------------------
\* Creation.  Manager.Create refuses a name whose file exists.
CreateDatabase(c, n) ==
  /\ at[c] = Idle
  /\ file[n] = NoFile
  /\ NewFile(n)
  /\ at' = [at EXCEPT ![c] = [Idle EXCEPT !.pc = "register", !.op = "create",
                                          !.path = n, !.file = made']]
  /\ UNCHANGED <<row, ids, spoilt>>

\* Manager.Create opens the file and then fails: it stays, without a row.
CreateFails(c, n) ==
  /\ at[c] = Idle
  /\ file[n] = NoFile
  /\ NewFile(n)
  /\ Spoil(n)
  /\ UNCHANGED <<row, ids, at>>

\* registerDatabase looks at the file ...
Stat(c) ==
  /\ at[c].pc = "register"
  /\ file[at[c].path] # NoFile
  /\ at' = [at EXCEPT ![c].pc = "upsert", ![c].file = file[at[c].path]]
  /\ UNCHANGED <<file, made, row, ids, spoilt>>

\* ... and upserts its row.  The path decides between a new row and the one
\* that is there.  Without its file the row is one that nobody removes.
Upsert(c) ==
  LET p == at[c].path
  IN  /\ at[c].pc = "upsert"
      /\ IF RowOf(p) # {} THEN UNCHANGED <<row, ids>> ELSE InsertRow(p)
      /\ IF file[p] = NoFile THEN Spoil(p) ELSE UNCHANGED spoilt
      /\ IF at[c].op = "create" THEN Return(c) ELSE Go(c, "reread")
      /\ UNCHANGED <<file, made>>

\* Mistake: a creation that cannot be registered leaves its file.
RegisterFailsForGood(c) ==
  /\ at[c].pc \in {"register", "upsert"}
  /\ Return(c)
  /\ UNCHANGED <<file, made, row, ids, spoilt>>

\* The file is gone or the catalog fails.  A creation is rolled back, whoever
\* else only wanted the row gives up.
RegisterFails(c) ==
  /\ at[c].pc \in {"register", "upsert"}
  /\ IF at[c].op = "create" THEN Go(c, "rollback") ELSE Return(c)
  /\ UNCHANGED <<file, made, row, ids, spoilt>>

\* DropDatabase by name: whatever file has the name by now.
Rollback(c) ==
  LET p == at[c].path
  IN  /\ at[c].pc = "rollback"
      /\ file' = [file EXCEPT ![p] = NoFile]
      /\ IF RowOf(p) # {} THEN Spoil(p) ELSE UNCHANGED spoilt
      /\ Return(c)
      /\ UNCHANGED <<made, row, ids>>

RollbackFails(c) ==
  /\ at[c].pc = "rollback"
  /\ Spoil(at[c].path)
  /\ Return(c)
  /\ UNCHANGED <<file, made, row, ids>>

-----------------------------------------------------------------------------
\* Drop: GetDatabaseInfo fails without a file.
FindDatabase(c, n) ==
  /\ at[c] = Idle
  /\ file[n] # NoFile
  /\ at' = [at EXCEPT ![c] = [Idle EXCEPT !.pc = "drop", !.op = "drop", !.path = n]]
  /\ UNCHANGED <<file, made, row, ids, spoilt>>

\* Manager.Drop removes the file of that name, if there still is one.
DropDatabase(c) ==
  /\ at[c].pc = "drop"
  /\ file' = [file EXCEPT ![at[c].path] = NoFile]
  /\ Go(c, "unregister")
  /\ UNCHANGED <<made, row, ids, spoilt>>

\* It fails when the handle cannot be closed.
DropFails(c) ==
  /\ at[c].pc = "drop"
  /\ Return(c)
  /\ UNCHANGED <<file, made, row, ids, spoilt>>

\* DeleteDiscoveredByPath.  By now the path may have a new file, which so
\* loses its row.
Unregister(c) ==
  LET p == at[c].path
  IN  /\ at[c].pc = "unregister"
      /\ row' = [i \in Id |-> IF row[i] = p THEN None ELSE row[i]]
      /\ IF file[p] # NoFile THEN Spoil(p) ELSE UNCHANGED spoilt
      /\ Return(c)
      /\ UNCHANGED <<file, made, ids>>

\* "database dropped but catalog cleanup failed"
UnregisterFails(c) ==
  /\ at[c].pc = "unregister"
  /\ Spoil(at[c].path)
  /\ Return(c)
  /\ UNCHANGED <<file, made, row, ids>>

-----------------------------------------------------------------------------
\* The GUI removes a catalog entry, whatever file it is for.
DeleteDiscovered(i) ==
  /\ row[i] # None
  /\ row' = [row EXCEPT ![i] = None]
  /\ Spoil(row[i])
  /\ UNCHANGED <<file, made, ids, at>>

\* A scan upserts a file it found.  It does not go into the data directory.
ScanUpsert(p) ==
  /\ RowOf(p) = {}
  /\ file[p] # NoFile
  /\ InsertRow(p)
  /\ UNCHANGED <<file, made, at, spoilt>>

\* The application that owns a file creates, replaces or removes it.
ApplicationFile(p) ==
  /\ \/ NewFile(p)
     \/ /\ file[p] # NoFile
        /\ file' = [file EXCEPT ![p] = NoFile]
        /\ UNCHANGED made
  /\ UNCHANGED <<row, ids, at, spoilt>>

-----------------------------------------------------------------------------
RegistryTypeOK ==
  /\ file \in [Paths -> File \cup {NoFile}]
  /\ made \in File \cup {0}
  /\ row \in [Id -> Paths \cup {None}]
  /\ ids \in Id \cup {0}
  /\ at \in [Clients -> Local]
  /\ spoilt \subseteq Names

\* A request is between the first and the last step of a creation or a drop.
Changing(n) ==
  \E c \in Clients : /\ at[c].path = n
                     /\ at[c].pc \in {"register", "upsert", "rollback", "unregister"}

\* When nobody is creating or dropping a managed database it has a row exactly
\* when it has a file: registerDatabase, its rollback and the clean-up of a
\* drop keep the data directory and the catalog together in whatever order
\* requests run, failures of a registration included.  Left out are names that
\* met one of the steps that mark them spoilt: a registration that was late
\* for a drop, a clean-up that was late for a creation, a failure that nothing
\* rolls back, and an entry deleted by hand.
CatalogMatchesFiles ==
  \A n \in Names \ spoilt : Changing(n) \/ (file[n] # NoFile <=> RowOf(n) # {})
=============================================================================
