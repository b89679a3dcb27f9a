------------------------------ MODULE DiffSync ------------------------------
(***************************************************************************)
(* The differential sync (DifferentialSyncContext in                       *)
(* internal/replicator/sync.go), table by table, while the application     *)
(* goes on changing the source.  Replication.tla has the sync as one step  *)
(* on whole contents; here are the two transactions it consists of.        *)
(*                                                                         *)
(* The source transaction reads the snapshot taken by its first statement. *)
(* What the replica transaction writes is seen by itself only, until it    *)
(* commits.  replicaLock keeps other syncs away.                           *)
(***************************************************************************)
EXTENDS Databases

CONSTANTS
  MaxEdits,    \* bound: transactions of the application
  MaxFailures  \* bound: syncs that fail or are cancelled

ASSUME SyncAssumption == MaxEdits \in Nat /\ MaxFailures \in Nat

VARIABLES
  src,      \* the source database
  dirty,    \* it was written since LastSync
  missed,   \* it was written during the last recorded sync, before LastSync
  replica,  \* the replica, as committed
  running,  \* a sync is between BeginTx and Commit or Rollback
  snap,     \* the source as srcTx reads it
  work,     \* the replica as dstTx reads it
  todo,     \* tables the loop over sourceTables has before it
  extra,    \* replicaSet
  changed,  \* the tables it has written or dropped
  edits,    \* counts against MaxEdits
  failures  \* counts against MaxFailures

tx   == <<running, snap, work, todo, extra, changed>>
vars == <<src, dirty, missed, replica, tx, edits, failures>>

TypeOK ==
  /\ src \in Database
  /\ dirty \in BOOLEAN
  /\ missed \in BOOLEAN
  /\ replica \in Database
  /\ running \in BOOLEAN
  /\ snap \in Database
  /\ work \in Database
  /\ todo \subseteq Tables
  /\ extra \subseteq Tables
  /\ changed \subseteq Tables
  /\ edits \in 0 .. MaxEdits
  /\ failures \in 0 .. MaxFailures

\* After an initial sync, which copies the whole file.
Init ==
  /\ src \in Database /\ WellFormed(src)
  /\ replica = src
  /\ dirty = FALSE /\ missed = FALSE
  /\ running = FALSE /\ snap = Empty /\ work = Empty
  /\ todo = {} /\ extra = {} /\ changed = {}
  /\ edits = 0 /\ failures = 0

-----------------------------------------------------------------------------
(* The application.  A rename is a table that goes and one that comes.     *)

Edit(t, new) ==
  /\ edits < MaxEdits
  /\ new # src[t]
  /\ src' = [src EXCEPT ![t] = new]
  /\ WellFormed(src')
  /\ dirty' = TRUE
  /\ edits' = edits + 1
  /\ UNCHANGED <<missed, replica, tx, failures>>

-----------------------------------------------------------------------------
(* The sync.                                                               *)

\* Both transactions begin, and both list their tables.
Begin ==
  /\ ~ running
  /\ running' = TRUE
  /\ snap' = src
  /\ work' = replica
  /\ todo' = Has(src)
  /\ extra' = Has(replica)
  /\ changed' = {}
  /\ UNCHANGED <<src, dirty, missed, replica, edits, failures>>

\* sourceTables are in the order of their names.
IsNext(t) == t \in todo /\ \A u \in todo : Rank[t] <= Rank[u]

\* tableDiffers compares definition, indexes and triggers, and rows.
NeedsSync(t) == t \notin extra \/ work[t] # snap[t]

Pass(t) ==
  /\ todo' = todo \ {t}
  /\ extra' = extra \ {t}
  /\ UNCHANGED <<src, dirty, missed, replica, running, snap, edits, failures>>

Keep(t) ==
  /\ running /\ IsNext(t) /\ ~ NeedsSync(t)
  /\ Pass(t)
  /\ UNCHANGED <<work, changed>>

\* The table is dropped first, which fails for a view; creating it and its
\* indexes and triggers fails if a name is taken.
Taken(t) ==
  \E u \in Present(Without(work, t)) : Collide(NamesOf(work, u), NamesOf(snap, t))

\* Mistake: the indexes and triggers are not recreated.
ReplaceTableOnly(t) ==
  /\ running /\ IsNext(t) /\ NeedsSync(t)
  /\ work' = [Without(work, t) EXCEPT ![t] = [kind |-> "table", body |-> snap[t].body]]
  /\ changed' = changed \cup {t}
  /\ Pass(t)

\* Mistake: every table is written in a transaction of its own.
ReplaceAndCommit(t) ==
  /\ running /\ IsNext(t) /\ NeedsSync(t)
  /\ ~ Taken(t)
  /\ work' = [Without(work, t) EXCEPT ![t] = snap[t]]
  /\ replica' = work'
  /\ changed' = changed \cup {t}
  /\ todo' = todo \ {t}
  /\ extra' = extra \ {t}
  /\ UNCHANGED <<src, dirty, missed, running, snap, edits, failures>>

\* DROP TABLE IF EXISTS, CREATE TABLE, the rows, the indexes and triggers.
Replace(t) ==
  /\ running /\ IsNext(t) /\ NeedsSync(t)
  /\ ~ Taken(t)
  /\ work' = [Without(work, t) EXCEPT ![t] = snap[t]]
  /\ changed' = changed \cup {t}
  /\ Pass(t)

\* The local variables of DifferentialSyncContext go.
EndSync ==
  /\ running' = FALSE /\ snap' = Empty /\ work' = Empty
  /\ todo' = {} /\ extra' = {} /\ changed' = {}

\* Mistake: LastSync is recorded although the sync failed.
RollbackAsSynced ==
  /\ EndSync
  /\ dirty' = FALSE
  /\ UNCHANGED <<src, missed, replica, edits>>

Rollback ==
  /\ EndSync
  /\ UNCHANGED <<src, dirty, missed, replica, edits>>

Refuse(t) ==
  /\ running /\ IsNext(t) /\ NeedsSync(t)
  /\ Taken(t)
  /\ Rollback
  /\ UNCHANGED failures

\* Mistake: dropped tables are not reported.
RemoveUnreported(t) ==
  /\ running /\ todo = {} /\ t \in extra
  /\ \E u \in Has(work) : Same(t, u)
  /\ work' = Without(work, t)
  /\ extra' = extra \ {t}
  /\ UNCHANGED <<src, dirty, missed, replica, running, snap, todo, changed, edits, failures>>

\* Tables only the replica has go last, in any order.  DROP TABLE fails if
\* there is no such table.
Remove(t) ==
  /\ running /\ todo = {} /\ t \in extra
  /\ \E u \in Has(work) : Same(t, u)
  /\ work' = Without(work, t)
  /\ extra' = extra \ {t}
  /\ changed' = changed \cup {t}
  /\ UNCHANGED <<src, dirty, missed, replica, running, snap, todo, edits, failures>>

\* The sync ends and LastSync is taken then, so that what was written since
\* the snapshot is before it and never looked at again: a write between the
\* end and LastSync is one before the end.  Recording LastSync may fail.
Commit ==
  /\ running /\ todo = {} /\ extra = {}
  /\ replica' = work
  /\ EndSync
  /\ \/ dirty' = FALSE /\ missed' = (src # snap) /\ UNCHANGED failures
     \/ /\ failures < MaxFailures
        /\ failures' = failures + 1
        /\ missed' = FALSE /\ UNCHANGED dirty
  /\ UNCHANGED <<src, edits>>

\* Any statement may fail, and the context may be cancelled at any time.
Fail ==
  /\ running
  /\ failures < MaxFailures
  /\ failures' = failures + 1
  /\ Rollback

Step ==
  \/ \E t \in Tables : Keep(t) \/ Replace(t) \/ Refuse(t) \/ Remove(t)
  \/ Commit

Next ==
  \/ \E t \in Tables, new \in Entry : Edit(t, new)
  \/ Begin
  \/ Step
  \/ Fail

Spec == Init /\ [][Next]_vars

\* The loop syncs a database that has changed, and a sync goes on.  A start
\* of replication may begin a sync at any time, but need not.
FairSpec == Spec /\ WF_vars(dirty /\ Begin) /\ WF_vars(Step)

-----------------------------------------------------------------------------
(* Properties.                                                             *)

\* Whatever fails and whatever the application does meanwhile, readers of the
\* replica see it change from one state of the source to another, never a
\* part of a sync (dstTx, sync.go), and tables get lost only where a name
\* changed its case: the removed spelling is dropped after the new one was
\* copied, and SQLite takes them for the same.
Atomic == INSTANCE AtomicReplica WITH held <- IF running THEN snap ELSE Absent
ImplementsAtomicReplica == Atomic!Spec

\* The tables a sync returns, which the loop logs and the REST API answers, are
\* exactly those in which the replica differed from the source: none is
\* rewritten in vain and none is passed over.
ReportsDifferences ==
  running /\ todo = {} /\ extra = {} => changed = Differences(replica, snap)

\* A sync fails for the names in the databases only when a name has moved: a
\* table of the source, or an index or trigger on it, has the name of
\* something else in the replica.  Neither the order of the tables nor what
\* the sync has already written makes two names collide.
RefusalsAreMoves ==
  running => \A t \in Tables : IsNext(t) /\ NeedsSync(t) /\ Taken(t) => Moved(snap, replica)

\* When the application rests and operations stop failing, the tables of the
\* replica get to where the source's are.  Left out are names that moved,
\* which block it; tables whose name changed its case, which are lost until
\* the next change; and a source whose last write came during the sync that
\* was recorded last, which is not looked at again (Replication.tla shows it).
QuietFollows ==
  <>[](\/ missed
       \/ Moved(src, replica)
       \/ \A t \in Has(src) \cup Has(replica) :
            \/ replica[t] = src[t]
            \/ replica[t] = Absent /\ \E u \in Tables \ {t} : Same(t, u))

\* docs/usage.md: a sync replaces changed tables and removes tables deleted
\* from the source.  So the replica of a source at rest that has only tables
\* becomes equal to it, unless its last write was missed.  False: the table
\* an index moved to is copied while the replica still has the index on the
\* old one.
ReplicaFollows == [](Present(src) = Has(src)) => <>[](missed \/ replica = src)
=============================================================================
