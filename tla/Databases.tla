----------------------------- MODULE Databases -----------------------------
(***************************************************************************)
(* The contents of a SQLite database as far as a differential sync         *)
(* (internal/replicator/sync.go) looks at them or runs into them.  It      *)
(* copies the tables listUserTables returns, each with its definition and  *)
(* rows and with the indexes and triggers on it.  It passes over views and *)
(* virtual tables, but their names are taken.  Left out are tables whose   *)
(* names begin like SQLite's own, over which it passes too (the _ in its   *)
(* LIKE 'sqlite_%' is any character), and shadow tables.                   *)
(*                                                                         *)
(* SQLite ignores case in names, Go's maps do not.  Names are as they are  *)
(* spelt; names that SQLite takes for one have the same Fold.  Tables,     *)
(* views, virtual tables and indexes have one name space per database, so  *)
(* that an index may have the Fold of a table; triggers have another.      *)
(* Triggers name their table as it is spelt, which tableObjects relies on. *)
(***************************************************************************)
EXTENDS Integers

CONSTANTS
  Tables,    \* names of tables, views and virtual tables
  Indexes,   \* names of indexes
  Triggers,  \* names of triggers
  Fold,      \* per name a representative of those that collide with it
  Rank,      \* per table name its place in ORDER BY name
  Bodies,    \* what a table can be: its rows, its text and those of its indexes and triggers
  Absent     \* no such table

Objects == Indexes \cup Triggers

\* Views have no indexes, virtual tables neither indexes nor triggers.
Table ==   [kind : {"table"},   body : Bodies, objects : SUBSET Objects]
View  ==   [kind : {"view"},    body : Bodies, objects : SUBSET Triggers]
Virtual == [kind : {"virtual"}, body : Bodies, objects : {{}}]

Entry    == Table \cup View \cup Virtual \cup {Absent}
Database == [Tables -> Entry]

ASSUME DatabaseAssumption ==
  /\ \A a \in Tables \cup Objects : Fold[a] \in Tables \cup Objects
  /\ Rank \in [Tables -> Nat]
  /\ \A t, u \in Tables : Rank[t] = Rank[u] => t = u
  /\ Absent \notin Table \cup View \cup Virtual
  /\ Absent \notin Database

Same(a, b) == Fold[a] = Fold[b]
Empty      == [t \in Tables |-> Absent]
Present(db) == {t \in Tables : db[t] # Absent}

\* listUserTables
Has(db) == {t \in Present(db) : db[t].kind = "table"}

\* The names that what is called t takes up.
NamesOf(db, t) == {t} \cup db[t].objects

Collide(A, B) == \E a \in A, b \in B : Same(a, b)

\* What SQLite lets a database be: no name twice.
WellFormed(db) ==
  \A t, u \in Present(db) :
    \A a \in NamesOf(db, t), b \in NamesOf(db, u) : Same(a, b) => a = b /\ t = u

\* Mistake: names compared as Go compares them.
WithoutSpelling(db, t) ==
  [u \in Tables |-> IF u = t /\ u \in Present(db) /\ db[u].kind # "view" THEN Absent ELSE db[u]]

\* DROP TABLE takes the table away however its name is spelt, and with it
\* its indexes and triggers.  It does not take views away.
Without(db, t) ==
  [u \in Tables |-> IF u \in Present(db) /\ Same(t, u) /\ db[u].kind # "view" THEN Absent ELSE db[u]]

\* The tables that differ.
Differences(db, other) == {t \in Has(db) \cup Has(other) : db[t] # other[t]}

\* A name of a table in db, its own or that of an index or trigger on it, is
\* in the other database the name of something else: on another table, as
\* after ALTER TABLE ... RENAME, or of another kind.
Moved(db, other) ==
  \E t \in Has(db), u \in Present(other) :
     /\ ~ Same(t, u) \/ other[u].kind = "view"
     /\ Collide(NamesOf(db, t), NamesOf(other, u))

(***************************************************************************)
(* Reference definition of what a sync makes of a replica: the source's    *)
(* tables, without those the replica had under another spelling, and the   *)
(* views and virtual tables that the replica had and no table replaces.    *)
(***************************************************************************)
Synced(replica, source) ==
  [t \in Tables |->
     IF t \in Has(source)
     THEN IF \E u \in Has(replica) \ Has(source) : Same(t, u) THEN Absent ELSE source[t]
     ELSE IF t \in Has(replica) \/ \E u \in Has(source) : Same(t, u) THEN Absent ELSE replica[t]]
=============================================================================
