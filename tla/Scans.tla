------------------------------- MODULE Scans -------------------------------
(***************************************************************************)
(* Discovery scans (HTTPServer.Scan in internal/server/http.go): the       *)
(* periodic one of the daemon and those that requests ask for.  One runs   *)
(* at a time.  It walks its roots, upserts the files it found, and then    *)
(* looks again at every file of the catalog below its roots.  Files come   *)
(* and go meanwhile, the administrator removes catalog entries, and the    *)
(* scan ends early when its context or the server's is cancelled.          *)
(*                                                                         *)
(* Which files are databases, and below which root, is in ScanRules; what  *)
(* a scan does to the status of a replicated database is in Replication.   *)
(***************************************************************************)
EXTENDS Naturals, FiniteSets

CONSTANTS
  Scanner,  \* the daemon's periodic scanner
  Requests, \* requests of the HTTP server
  Files,    \* paths of databases
  Roots,    \* the files below the roots a scan may be given
  Free      \* nobody holds scanMu

Scanning == {Scanner} \cup Requests

ASSUME ScansAssumption == /\ Free \notin Scanning
                          /\ Scanner \notin Requests
                          /\ Roots \subseteq SUBSET Files

VARIABLES
  disk,    \* the files that are there
  entry,   \* per file its catalog entry: none, or available or missing
  scanMu,  \* who scans
  stopped, \* scanCtx of the server is cancelled
  scan     \* per process its step and local variables

scanVars == <<disk, entry, scanMu, stopped, scan>>

\* todo: what the current loop has left; cancelled: its context; steady and
\* kept are history: files of its roots that have not come or gone since it
\* started, and those whose entries it has not had to leave as they were:
\* because they were removed, or because finding, storing or marking failed.
NoScan == [pc |-> "none", root |-> {}, todo |-> {}, found |-> {}, cancelled |-> FALSE,
           steady |-> {}, kept |-> {}]

ScansInit ==
  /\ disk = {}
  /\ entry = [f \in Files |-> "none"]
  /\ scanMu = Free
  /\ stopped = FALSE
  /\ scan = [p \in Scanning |-> NoScan]

Working == {p \in Scanning : scan[p].pc \in {"walk", "upsert", "check"}}

-----------------------------------------------------------------------------
\* TryLock.  Whoever finds a scan in progress does without.
Enter(p, root) ==
  /\ scan[p] = NoScan
  /\ scanMu = Free
  /\ scanMu' = p
  /\ scan' = [scan EXCEPT ![p] = [NoScan EXCEPT !.pc = "enter", !.root = root,
                                                !.steady = root, !.kept = root]]
  /\ UNCHANGED <<disk, entry, stopped>>

Leave(p) ==
  /\ scanMu' = Free
  /\ scan' = [scan EXCEPT ![p] = NoScan]
  /\ UNCHANGED <<disk, entry, stopped>>

\* The next step, or the same one with less to do.
Continue(p, pc, todo, next, then) ==
  [scan[p] EXCEPT !.pc = IF todo = {} THEN next ELSE pc, !.todo = IF todo = {} THEN then ELSE todo]

Start(p) ==
  /\ scan' = [scan EXCEPT ![p] = Continue(p, "walk", scan[p].root, "upsert", {})]
  /\ UNCHANGED <<disk, entry, scanMu, stopped>>

\* Mistake: only the caller's context is looked at.
ObserveCaller(p) ==
  /\ scan[p].pc = "enter"
  /\ IF scan[p].cancelled THEN Leave(p) ELSE Start(p)

\* Mistake: the lock is kept by a scan that does not start.
ObserveLocked(p) ==
  /\ scan[p].pc = "enter"
  /\ IF stopped \/ scan[p].cancelled
     THEN /\ scan' = [scan EXCEPT ![p] = NoScan]
          /\ UNCHANGED <<disk, entry, scanMu, stopped>>
     ELSE Start(p)

\* Both contexts are looked at before the walk.
Observe(p) ==
  /\ scan[p].pc = "enter"
  /\ IF stopped \/ scan[p].cancelled THEN Leave(p) ELSE Start(p)

\* context.AfterFunc, or the caller's context.
Cancel(p) ==
  /\ scan[p].pc # "none" /\ ~scan[p].cancelled
  /\ scan' = [scan EXCEPT ![p].cancelled = TRUE]
  /\ UNCHANGED <<disk, entry, scanMu, stopped>>

\* ScanContext looks at the context for each path that it comes to.  It passes
\* over what it cannot read; a root that is not valid, or cannot be read
\* itself, ends the scan.
Walk(p) ==
  /\ scan[p].pc = "walk"
  /\ \/ Leave(p)
     \/ /\ ~scan[p].cancelled
        /\ \E f \in scan[p].todo, read \in BOOLEAN :
             LET found == scan[p].found \cup (IF read THEN {f} \cap disk ELSE {})
                 kept  == scan[p].kept \ (IF read THEN {} ELSE {f} \cap disk)
             IN  scan' = [scan EXCEPT ![p] =
                    [Continue(p, "walk", scan[p].todo \ {f}, "upsert", found)
                       EXCEPT !.found = found, !.kept = kept]]
        /\ UNCHANGED <<disk, entry, scanMu, stopped>>

\* Mistake: only what the walk found is looked at again.
ListedFound(p) == scan[p].found

\* The catalog's files below the roots.
Listed(p) == {f \in scan[p].root : entry[f] # "none"}

\* Each file found is upserted; one that cannot be is passed over.  The last
\* one leads on to the list of the catalog, which does not look at the context
\* any more and ends the scan when it fails.
Upsert(p) ==
  /\ scan[p].pc = "upsert"
  /\ \/ /\ scan[p].todo # {} /\ scan[p].cancelled
        /\ Leave(p)
     \/ /\ ~scan[p].cancelled
        /\ \E f \in scan[p].todo :
             \/ /\ entry' = [entry EXCEPT ![f] = "available"]
                /\ scan' = [scan EXCEPT ![p].todo = @ \ {f}, ![p].kept = @ \cup {f}]
             \/ /\ scan' = [scan EXCEPT ![p].todo = @ \ {f}, ![p].kept = @ \ {f}]
                /\ UNCHANGED entry
        /\ UNCHANGED <<disk, scanMu, stopped>>
     \/ /\ scan[p].todo = {}
        /\ \/ Leave(p)
           \/ /\ scan' = [scan EXCEPT ![p].pc = "check", ![p].todo = Listed(p), ![p].found = {}]
              /\ UNCHANGED <<disk, entry, scanMu, stopped>>

\* Stat and UpdateAvailability, which finds no row when the entry is gone.
\* When either fails, the entry stays as it was and the scan goes on.
Check(p) ==
  /\ scan[p].pc = "check"
  /\ IF scan[p].todo = {} THEN Leave(p)
     ELSE \E f \in scan[p].todo :
            /\ \/ /\ entry' = [entry EXCEPT ![f] = IF entry[f] = "none" THEN "none"
                                 ELSE IF f \in disk THEN "available" ELSE "missing"]
                  /\ scan' = [scan EXCEPT ![p].todo = @ \ {f},
                        ![p].kept = IF entry[f] = "none" THEN @ ELSE @ \cup {f}]
               \/ /\ scan' = [scan EXCEPT ![p].todo = @ \ {f}, ![p].kept = @ \ ({f} \ disk)]
                  /\ UNCHANGED entry
            /\ UNCHANGED <<disk, scanMu, stopped>>

ScanStep(p) == Observe(p) \/ Walk(p) \/ Upsert(p) \/ Check(p)

-----------------------------------------------------------------------------
\* A file is created or removed.
ChangeFile(f) ==
  /\ disk' = IF f \in disk THEN disk \ {f} ELSE disk \cup {f}
  /\ scan' = [p \in Scanning |-> [scan[p] EXCEPT !.steady = @ \ {f}]]
  /\ UNCHANGED <<entry, scanMu, stopped>>

\* DELETE /api/discovered/{id}
RemoveEntry(f) ==
  /\ entry[f] # "none"
  /\ entry' = [entry EXCEPT ![f] = "none"]
  /\ scan' = [p \in Scanning |-> [scan[p] EXCEPT !.kept = @ \ {f}]]
  /\ UNCHANGED <<disk, scanMu, stopped>>

-----------------------------------------------------------------------------
ScansTypeOK ==
  /\ disk \subseteq Files
  /\ entry \in [Files -> {"none", "available", "missing"}]
  /\ stopped \in BOOLEAN
  /\ scan \in [Scanning -> [pc: {"none", "enter", "walk", "upsert", "check"}, root: SUBSET Files,
                            todo: SUBSET Files, found: SUBSET Files, cancelled: BOOLEAN,
                            steady: SUBSET Files, kept: SUBSET Files]]
  /\ \A p \in Scanning : scanMu = p <=> scan[p].pc # "none"

\* When a scan has gone through, the catalog says of every file below its
\* roots what is true of it, whatever else happened: a file that stayed is
\* listed and available, one that stayed away is not available.  Left out are
\* files that came or went during the scan, entries that were removed, files
\* that could not be read, stored or looked for again: those are logged, and
\* the scan ends without an error.
ScansTellTheTruth ==
  [][\A p \in Scanning :
       scan[p].pc = "check" /\ scan'[p].pc = "none" =>
         \A f \in scan[p].steady \cap scan[p].kept :
           f \in disk <=> entry[f] = "available"]_scanVars
=============================================================================
