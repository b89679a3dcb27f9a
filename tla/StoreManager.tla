---------------------------- MODULE StoreManager ----------------------------
(***************************************************************************)
(* The database manager of internal/store/manager.go: one SQLite file per  *)
(* managed database, opened on demand, shared by every request, closed by  *)
(* the idle tracker (internal/idle/tracker.go) and reopened by the next    *)
(* request.                                                                *)
(*                                                                         *)
(* Manager.mu serialises Create, Drop, CloseIdle, CloseAll and the slow    *)
(* path of Get, so each of those is one action.  The fast path of Get is   *)
(* two critical sections (look the entry up under mu.RLock, then refresh   *)
(* LastUsed under entry.mu) with nothing held in between, and a request    *)
(* goes on using the entry long after Get returned it: those are steps of  *)
(* their own, and any other goroutine may run between them.                *)
(*                                                                         *)
(* Time is kept as the age of an entry, the time since its LastUsed, up to *)
(* the first value past the idle timeout: LastUsed.Before(now - timeout)   *)
(* is age > Timeout, and nothing else in the code reads LastUsed.          *)
(***************************************************************************)
EXTENDS Naturals, FiniteSets

CONSTANTS
  Names,          \* database names that pass validateName
  Clients,        \* goroutines serving requests
  Entries,        \* identities of *DBEntry values
  Nil,            \* a nil *DBEntry, an empty name
  MaxDBs,         \* Manager.maxDBs
  Timeout,        \* idle.connection_timeout, in ticks
  MaxFiles,       \* bound: how many files may ever exist under one name
  CloseMayFail    \* whether sql.DB.Close may return an error to Drop

ASSUME StoreAssumption ==
  /\ Nil \notin Entries \cup Names
  /\ Nil \notin Names \X (0 .. MaxFiles)
  /\ MaxDBs \in Nat
  /\ Timeout \in Nat
  /\ MaxFiles \in Nat \ {0}
  /\ CloseMayFail \in BOOLEAN

VARIABLES
  disk,       \* the data directory: per name the file's identity, 0 for none
  files,      \* per name the files created so far; identities are never reused
  databases,  \* Manager.databases: per name its entry or Nil
  entry,      \* the *DBEntry values: name, file they opened, open or closed, age
  client,     \* per request: step, database name, entry held
  tracker,    \* the step of Tracker.check the idle loop is at
  dormant,    \* Tracker.isDormant
  stopped     \* the daemon has run CloseAll

vars == <<disk, files, databases, entry, client, tracker, dormant, stopped>>

File == 0 .. MaxFiles
Age  == 0 .. (Timeout + 1)
Handle == [name: Names \cup {Nil}, file: File, open: BOOLEAN, age: Age]
\* What a request has of a database at its steps: nothing, only the name, or
\* the name and an entry.
Request ==
       [pc: {"idle"}, name: {Nil}, ent: {Nil}]
  \cup [pc: {"slow"}, name: Names, ent: {Nil}]
  \cup [pc: {"stamp", "holding", "running"}, name: Names, ent: Entries]

TypeOK ==
  /\ disk \in [Names -> File]
  /\ files \in [Names -> File]
  /\ databases \in [Names -> Entries \cup {Nil}]
  /\ entry \in [Entries -> Handle]
  /\ client \in [Clients -> Request]
  /\ tracker \in {"wait", "count"}
  /\ dormant \in BOOLEAN
  /\ stopped \in BOOLEAN

(***************************************************************************)
(* NewManager: an empty map over a data directory that may already hold    *)
(* database files from an earlier run.                                     *)
(***************************************************************************)
Init ==
  /\ files \in [Names -> {0, 1}]
  /\ disk = files
  /\ databases = [n \in Names |-> Nil]
  /\ entry = [e \in Entries |-> [name |-> Nil, file |-> 0, open |-> FALSE, age |-> 0]]
  /\ client = [c \in Clients |-> [pc |-> "idle", name |-> Nil, ent |-> Nil]]
  /\ tracker = "wait"
  /\ dormant = FALSE
  /\ stopped = FALSE

Active == {n \in Names : databases[n] # Nil}

\* No request and no map slot refers to e: its memory is free for a new entry.
Unreferenced(e) ==
  /\ \A n \in Names : databases[n] # e
  /\ \A c \in Clients : client[c].ent # e

\* &DBEntry{DB: sql.Open(dbPath), ..., LastUsed: time.Now()}
NewHandle(n, f) == [name |-> n, file |-> f, open |-> TRUE, age |-> 0]

\* db.Close() on every entry of S.  The age of an entry the map no longer
\* holds is never read again and is kept at 0.
Close(S) == [e \in Entries |->
  IF e \in S THEN [entry[e] EXCEPT !.open = FALSE, !.age = 0] ELSE entry[e]]
Held(N) == {databases[n] : n \in N} \ {Nil}

Return(c, e) == [client EXCEPT ![c].pc = "holding", ![c].ent = e]
Finish(c)    == [client EXCEPT ![c] = [pc |-> "idle", name |-> Nil, ent |-> Nil]]

-----------------------------------------------------------------------------
(* Manager.Create                                                          *)

\* Mistake: looks only at the map, not for a file of a closed database.
CreateAllowedByMap(n) ==
  /\ databases[n] = Nil
  /\ Cardinality(Active) < MaxDBs
  /\ files[n] < MaxFiles

CreateAllowed(n) ==
  /\ databases[n] = Nil
  /\ Cardinality(Active) < MaxDBs
  /\ disk[n] = 0
  /\ files[n] < MaxFiles

Create(c, n) ==
  /\ client[c].pc = "idle"
  /\ CreateAllowed(n)
  /\ \E e \in Entries :
       /\ Unreferenced(e)
       /\ entry' = [entry EXCEPT ![e] = NewHandle(n, files[n] + 1)]
       /\ databases' = [databases EXCEPT ![n] = e]
  /\ files' = [files EXCEPT ![n] = @ + 1]
  /\ disk' = [disk EXCEPT ![n] = files[n] + 1]
  /\ UNCHANGED <<client, tracker, dormant, stopped>>

\* Ping failed after SQLite had created the file: the handle is closed, the
\* file stays behind.  (Failing before that changes nothing.)
CreateFails(c, n) ==
  /\ client[c].pc = "idle"
  /\ CreateAllowed(n)
  /\ files' = [files EXCEPT ![n] = @ + 1]
  /\ disk' = [disk EXCEPT ![n] = files[n] + 1]
  /\ UNCHANGED <<databases, entry, client, tracker, dormant, stopped>>

-----------------------------------------------------------------------------
(* Manager.Get                                                             *)

\* Mistake: the second result of the map lookup is not looked at.
GetLookupUnchecked(c, n) ==
  /\ client[c].pc = "idle"
  /\ client' = [client EXCEPT ![c] = [pc |-> "stamp", name |-> n, ent |-> databases[n]]]
  /\ UNCHANGED <<disk, files, databases, entry, tracker, dormant, stopped>>

\* The lookup under mu.RLock.
GetLookup(c, n) ==
  /\ client[c].pc = "idle"
  /\ client' = [client EXCEPT ![c] =
       IF databases[n] # Nil
         THEN [pc |-> "stamp", name |-> n, ent |-> databases[n]]
         ELSE [pc |-> "slow", name |-> n, ent |-> Nil]]
  /\ UNCHANGED <<disk, files, databases, entry, tracker, dormant, stopped>>

\* LastUsed = time.Now() under entry.mu; mu is no longer held.
GetStamp(c) ==
  /\ client[c].pc = "stamp"
  /\ entry' = [entry EXCEPT ![client[c].ent].age = 0]
  /\ client' = Return(c, client[c].ent)
  /\ UNCHANGED <<disk, files, databases, tracker, dormant, stopped>>

\* Under mu.Lock: somebody else opened it meanwhile.
GetSlowHit(c) ==
  LET n == client[c].name  e == databases[n] IN
  /\ client[c].pc = "slow"
  /\ e # Nil
  /\ entry' = [entry EXCEPT ![e].age = 0]
  /\ client' = Return(c, e)
  /\ UNCHANGED <<disk, files, databases, tracker, dormant, stopped>>

GetSlowMissing(c) ==
  LET n == client[c].name IN
  /\ client[c].pc = "slow"
  /\ databases[n] = Nil
  /\ disk[n] = 0
  /\ client' = Finish(c)
  /\ UNCHANGED <<disk, files, databases, entry, tracker, dormant, stopped>>

\* Mistake: no second look at the map once mu is held.
GetSlowOpenUnchecked(c) ==
  LET n == client[c].name IN
  /\ client[c].pc = "slow"
  /\ disk[n] # 0
  /\ \E e \in Entries :
       /\ Unreferenced(e)
       /\ entry' = [entry EXCEPT ![e] = NewHandle(n, disk[n])]
       /\ databases' = [databases EXCEPT ![n] = e]
       /\ client' = Return(c, e)
  /\ UNCHANGED <<disk, files, tracker, dormant, stopped>>

\* The slow path opens a handle without looking at maxDBs.
GetSlowOpen(c) ==
  LET n == client[c].name IN
  /\ client[c].pc = "slow"
  /\ databases[n] = Nil
  /\ disk[n] # 0
  /\ \E e \in Entries :
       /\ Unreferenced(e)
       /\ entry' = [entry EXCEPT ![e] = NewHandle(n, disk[n])]
       /\ databases' = [databases EXCEPT ![n] = e]
       /\ client' = Return(c, e)
  /\ UNCHANGED <<disk, files, tracker, dormant, stopped>>

-----------------------------------------------------------------------------
(* A request uses the entry it holds: any number of statements, each of    *)
(* which fails with "sql: database is closed" once the handle was closed.  *)
(* A statement already running when the handle is closed runs to its end.  *)

BeginStatement(c) ==
  /\ client[c].pc = "holding"
  /\ entry[client[c].ent].open
  /\ client' = [client EXCEPT ![c].pc = "running"]
  /\ UNCHANGED <<disk, files, databases, entry, tracker, dormant, stopped>>

StatementRefused(c) ==
  /\ client[c].pc = "holding"
  /\ ~ entry[client[c].ent].open
  /\ client' = Finish(c)
  /\ UNCHANGED <<disk, files, databases, entry, tracker, dormant, stopped>>

\* The request goes on with its next statement, or is over.
EndStatement(c) ==
  /\ client[c].pc = "running"
  /\ client' \in {Return(c, client[c].ent), Finish(c)}
  /\ UNCHANGED <<disk, files, databases, entry, tracker, dormant, stopped>>

-----------------------------------------------------------------------------
(* Manager.Drop                                                            *)

\* Mistake: removes the file under an open handle that stays in the map.
DropFileOnly(c, n) ==
  /\ client[c].pc = "idle"
  /\ disk' = [disk EXCEPT ![n] = 0]
  /\ UNCHANGED <<files, databases, entry, client, tracker, dormant, stopped>>

Drop(c, n) ==
  /\ client[c].pc = "idle"
  /\ entry' = Close(Held({n}))
  /\ databases' = [databases EXCEPT ![n] = Nil]
  /\ disk' = [disk EXCEPT ![n] = 0]
  /\ UNCHANGED <<files, client, tracker, dormant, stopped>>

\* sql.DB.Close returned an error: Drop returns it and leaves the closed
\* entry in the map and the file on disk.  Closing a handle that is closed
\* already returns nil, so this happens once per handle.
DropCloseFails(c, n) ==
  /\ CloseMayFail
  /\ client[c].pc = "idle"
  /\ databases[n] # Nil
  /\ entry[databases[n]].open
  /\ entry' = [entry EXCEPT ![databases[n]].open = FALSE]
  /\ UNCHANGED <<disk, files, databases, client, tracker, dormant, stopped>>

-----------------------------------------------------------------------------
(* The idle tracker and shutdown                                           *)

\* Mistake: closes the idle handles but forgets delete(m.databases, name).
CloseIdleKeepsEntry ==
  LET idle == {n \in Active : entry[databases[n]].age > Timeout} IN
  /\ tracker = "wait"
  /\ ~ stopped
  /\ entry' = Close(Held(idle))
  /\ tracker' = "count"
  /\ UNCHANGED <<disk, files, databases, client, dormant, stopped>>

\* First half of Tracker.check.
CloseIdle ==
  LET idle == {n \in Active : entry[databases[n]].age > Timeout} IN
  /\ tracker = "wait"
  /\ ~ stopped
  /\ entry' = Close(Held(idle))
  /\ databases' = [n \in Names |-> IF n \in idle THEN Nil ELSE databases[n]]
  /\ tracker' = "count"
  /\ UNCHANGED <<disk, files, client, dormant, stopped>>

\* Second half, with mu released in between.
SetDormant ==
  /\ tracker = "count"
  /\ dormant' = (Active = {})
  /\ tracker' = "wait"
  /\ UNCHANGED <<disk, files, databases, entry, client, stopped>>

\* Daemon.Shutdown stops the tracker, then closes every handle.  A request
\* that outlives the servers' stop may still be running.
CloseAll ==
  /\ ~ stopped
  /\ tracker = "wait"
  /\ entry' = Close(Held(Names))
  /\ databases' = [n \in Names |-> Nil]
  /\ stopped' = TRUE
  /\ UNCHANGED <<disk, files, client, tracker, dormant>>

\* Time passes for the entries the manager still looks at.
Tick ==
  /\ entry' = [e \in Entries |->
       IF e \in Held(Names) /\ entry[e].age <= Timeout
         THEN [entry[e] EXCEPT !.age = @ + 1] ELSE entry[e]]
  /\ entry' # entry
  /\ UNCHANGED <<disk, files, databases, client, tracker, dormant, stopped>>

-----------------------------------------------------------------------------
ClientStep(c) ==
  \/ \E n \in Names : Create(c, n) \/ CreateFails(c, n)
  \/ \E n \in Names : Drop(c, n) \/ DropCloseFails(c, n)
  \/ \E n \in Names : GetLookup(c, n)
  \/ GetStamp(c)
  \/ GetSlowHit(c)
  \/ GetSlowMissing(c)
  \/ GetSlowOpen(c)
  \/ BeginStatement(c)
  \/ StatementRefused(c)
  \/ EndStatement(c)

Next ==
  \/ \E c \in Clients : ClientStep(c)
  \/ CloseIdle
  \/ SetDormant
  \/ CloseAll
  \/ Tick

Spec == Init /\ [][Next]_vars

\* The idle loop keeps ticking while the clock runs; nothing is assumed of
\* the requests.
FairSpec ==
  /\ Spec
  /\ WF_vars(CloseIdle) /\ WF_vars(SetDormant) /\ WF_vars(Tick)

-----------------------------------------------------------------------------
(* Properties                                                              *)

\* At most one handle is open per database file: the double check of Get's
\* slow path and the exclusive section of Create leave no handle that the
\* map has lost and that CloseIdle, Drop and CloseAll would never close.
OneHandlePerFile ==
  \A e \in Entries : entry[e].open =>
    entry[e].name \in Names /\ databases[entry[e].name] = e

\* An open handle was opened on the file that is in the data directory now,
\* however often the database was dropped and created again meanwhile.
HandleIsCurrent ==
  \A e \in Entries : entry[e].open =>
    disk[entry[e].name] = entry[e].file /\ entry[e].file # 0

\* What a running statement runs on.
serving ==
  [c \in Clients |->
     IF client[c].pc = "running"
       THEN <<entry[client[c].ent].name, entry[client[c].ent].file>> ELSE Nil]

\* The manager implements ManagedFiles: creation, deletion and the file a
\* statement starts on look atomic, whatever handles come and go.
Files == INSTANCE ManagedFiles
ImplementsManagedFiles == Files!Spec

\* The idle loop does its work: once requests stay away, every handle gets
\* closed, also one that a failed Drop left closed in the map, and the
\* tracker reports the daemon dormant (unless the daemon shut down first).
QuietGoesDormant ==
  <>[](\A c \in Clients : client[c].pc = "idle")
    => <>[](stopped \/ (dormant /\ \A e \in Entries : ~ entry[e].open))
=============================================================================
