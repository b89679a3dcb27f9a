---------------------------- MODULE ColumnEdits ----------------------------
(***************************************************************************)
(* One table of a database and the connections that work on it: the schema *)
(* editor of the web interface (EditColumn, AddColumn, CreateTable in      *)
(* internal/service/database.go), which shares the one connection of the   *)
(* manager's handle, data requests of scoped APIs (MutateRecord in         *)
(* internal/service/records.go), each with a connection of its own, and    *)
(* other programs that have the same file open.                            *)
(*                                                                         *)
(* EditColumn reads and validates the table outside its transaction and    *)
(* rebuilds it inside: rename, new table, copy, drop, rename, indexes and  *)
(* triggers again.  Whatever fails is undone by its deferred calls.        *)
(*                                                                         *)
(* SQLite is external: a transaction works on a snapshot of the table that *)
(* its first statement takes, one connection writes at a time, and a       *)
(* snapshot that is no longer the table cannot be written.  A statement    *)
(* that waits too long for the lock fails.                                 *)
(***************************************************************************)
EXTENDS Naturals, FiniteSetsExt, Functions

CONSTANTS
  Editors,  \* EditColumn requests
  Writers,  \* data requests
  Names,    \* names of columns, apart from the key
  First,    \* the column that the table has at first
  Values,   \* what fields hold
  Null,     \* SQL NULL
  Objects,  \* indexes and triggers
  None,     \* no request, no table, no connection
  Stale,    \* a snapshot that another connection has overwritten
  MaxRow,   \* bound: rowids
  MaxSchema \* bound: schema changes by other programs and by requests

ASSUME EditsAssumption ==
  /\ First \in Names
  /\ MaxRow \in Nat \ {0} /\ MaxSchema \in Nat
  /\ Stale # None
  /\ None \notin Editors \cup Writers /\ Editors \cap Writers = {}

Rowid == 1 .. MaxRow
Field == Values \cup {Null}

ObjsOver(d) == UNION {[o -> d] : o \in SUBSET Objects}
RowsOver(d) == UNION {[r -> [d -> Field]] : r \in SUBSET Rowid}

\* cols: which columns are NOT NULL; keyed: it has an INTEGER PRIMARY KEY,
\* which is the rowid; constraint: it has one that validateEditableTable
\* refuses; objs: its indexes and triggers with the column they name.
TableOver(d) ==
  [cols: [d -> BOOLEAN], keyed: BOOLEAN, constraint: BOOLEAN, objs: ObjsOver(d), rows: RowsOver(d)]

Table == UNION {TableOver(d) : d \in (SUBSET Names) \ {{}}}

\* A default matters for the rows when the column becomes NOT NULL.
EditRequest ==
  {req \in [column: Names, name: Names, nullable: BOOLEAN, default: Field] :
     req.nullable => req.default = Null}
Filter == [column: Names, value: Field]

VARIABLES
  table,   \* the table as it was last committed, or None
  writer,  \* the connection that writes, or None
  edit,    \* per EditColumn its step and local variables
  holder,  \* who has the handle's connection: its pool has one
  fk,      \* PRAGMA foreign_keys of that connection
  asked,   \* the mode a statement of a user last asked for
  rec,     \* per MutateRecord its step and local variables
  changes  \* schema changes so far

vars == <<table, writer, edit, holder, fk, asked, rec, changes>>

NoEdit == [pc |-> "idle", req |-> None, cols |-> None, objs |-> None, fk |-> FALSE, work |-> None]
NoRec  == [pc |-> "idle", method |-> None, filter |-> None, work |-> None]

Init ==
  /\ \/ table = None
     \/ \E v \in Values, keyed \in BOOLEAN :
          table = [cols |-> [x \in {First} |-> FALSE], keyed |-> keyed, constraint |-> FALSE,
                   objs |-> [o \in Objects |-> First], rows |-> [r \in {1} |-> [x \in {First} |-> v]]]
  /\ writer = None
  /\ edit = [c \in Editors |-> NoEdit]
  /\ holder = None
  /\ fk = FALSE
  /\ asked = FALSE
  /\ rec = [c \in Writers |-> NoRec]
  /\ changes = 0

-----------------------------------------------------------------------------
\* What statements do to a table.

Renamed(t, old, new) ==
  LET d     == (DOMAIN t.cols \ {old}) \cup {new}
      Of(x) == IF x = new THEN old ELSE x
  IN  [t EXCEPT !.cols = [x \in d |-> t.cols[Of(x)]],
                !.objs = [o \in DOMAIN t.objs |-> IF t.objs[o] = old THEN new ELSE t.objs[o]],
                !.rows = [r \in DOMAIN t.rows |-> [x \in d |-> t.rows[r][Of(x)]]]]

Added(t, x, notnull, v) ==
  LET d == DOMAIN t.cols \cup {x}
  IN  [t EXCEPT !.cols = [y \in d |-> IF y = x THEN notnull ELSE t.cols[y]],
                !.rows = [r \in DOMAIN t.rows |-> [y \in d |-> IF y = x THEN v ELSE t.rows[r][y]]]]

\* NOT NULL columns hold no NULL.
Sound(t) == \A r \in DOMAIN t.rows, x \in DOMAIN t.cols : t.cols[x] => t.rows[r][x] # Null

\* INSERT INTO ... SELECT: rows come in the order of their rowids, and get new
\* ones from 1 unless the key is copied.
Numbered(t) ==
  LET R      == DOMAIN t.rows
      Pos(r) == Cardinality({q \in R : q <= r})
  IN  IF t.keyed THEN t.rows
      ELSE [i \in 1 .. Cardinality(R) |-> t.rows[CHOOSE r \in R : Pos(r) = i]]

\* One column changed as requested.  The other columns keep their definitions
\* and NULLs of the changed one become the default.
Changed(t, x, req) ==
  IF x \notin DOMAIN t.cols THEN t
  ELSE [t EXCEPT
          !.cols[x] = ~req.nullable,
          !.rows = [r \in DOMAIN t.rows |->
                      IF ~req.nullable /\ req.default # Null /\ t.rows[r][x] = Null
                      THEN [t.rows[r] EXCEPT ![x] = req.default] ELSE t.rows[r]]]

Matched(t, f) == {r \in DOMAIN t.rows : t.rows[r][f.column] = f.value}

-----------------------------------------------------------------------------
\* A transaction that has read its snapshot takes the write lock.
Write(c, snapshot) ==
  /\ writer \in {c, None}
  /\ snapshot # Stale
  /\ writer' = c

\* A commit makes the snapshots of all others stale.
Outdated(locals) ==
  [c \in DOMAIN locals |->
     IF writer # c /\ locals[c].work # None THEN [locals[c] EXCEPT !.work = Stale] ELSE locals[c]]

Unlock(c) == writer' = IF writer = c THEN None ELSE writer

Advance(c, pc) == edit' = [edit EXCEPT ![c].pc = pc]

\* EditColumn has the connection.  The deferred conn.Close gives it back.
Acquire(c, req) ==
  /\ edit[c] = NoEdit
  /\ holder = None
  /\ holder' = c
  /\ edit' = [edit EXCEPT ![c] = [NoEdit EXCEPT !.pc = "read", !.req = req]]
  /\ UNCHANGED <<table, writer, fk, asked, rec, changes>>

\* The columns, and that the request fits them.
LoadColumns(c) ==
  LET req == edit[c].req
  IN  /\ edit[c].pc = "read"
      /\ table # None
      /\ req.column \in DOMAIN table.cols
      /\ req.name \notin DOMAIN table.cols \ {req.column}
      /\ edit' = [edit EXCEPT ![c].pc = "validate", ![c].cols = table.cols]
      /\ UNCHANGED <<table, writer, holder, fk, asked, rec, changes>>

\* validateEditableTable
Validate(c) ==
  /\ edit[c].pc = "validate"
  /\ table # None /\ ~table.constraint
  /\ Advance(c, "nulls")
  /\ UNCHANGED <<table, writer, holder, fk, asked, rec, changes>>

\* A column with NULLs needs a default to become NOT NULL.
CountNulls(c) ==
  LET req == edit[c].req
  IN  /\ edit[c].pc = "nulls"
      /\ ~req.nullable /\ ~edit[c].cols[req.column] =>
           /\ table # None /\ req.column \in DOMAIN table.cols
           /\ req.default # Null \/ Matched(table, [column |-> req.column, value |-> Null]) = {}
      /\ Advance(c, "mode")
      /\ UNCHANGED <<table, writer, holder, fk, asked, rec, changes>>

DisableForeignKeys(c) ==
  /\ edit[c].pc = "mode"
  /\ edit' = [edit EXCEPT ![c].pc = "rename", ![c].fk = fk]
  /\ fk' = FALSE
  /\ UNCHANGED <<table, writer, holder, asked, rec, changes>>

\* BEGIN, and the first statement of the transaction if the name changes.
Rename(c) ==
  LET req == edit[c].req
  IN  /\ edit[c].pc = "rename"
      /\ \/ /\ req.name = req.column
            /\ Advance(c, "reload")
            /\ UNCHANGED writer
         \/ /\ req.name # req.column
            /\ table # None
            /\ req.column \in DOMAIN table.cols /\ req.name \notin DOMAIN table.cols
            /\ Write(c, table)
            /\ edit' = [edit EXCEPT ![c].pc = "reload",
                                    ![c].work = Renamed(table, req.column, req.name)]
      /\ UNCHANGED <<table, holder, fk, asked, rec, changes>>

\* The columns, indexes and triggers, as the transaction sees them.
Reload(c) ==
  LET seen == IF writer = c THEN edit[c].work ELSE table
  IN  /\ edit[c].pc = "reload"
      /\ seen # None
      /\ edit' = [edit EXCEPT ![c].pc = "rebuild", ![c].work = seen, ![c].objs = seen.objs]
      /\ UNCHANGED <<table, writer, holder, fk, asked, rec, changes>>

\* CREATE TABLE, INSERT INTO ... SELECT, the two counts, DROP TABLE and
\* ALTER TABLE ... RENAME.  Only NOT NULL, the key and defaults go into the
\* new definition; indexes and triggers go with the old table.
Rebuilt(t, x, req) ==
  LET new == Changed(t, x, req)
  IN  [new EXCEPT !.rows = Numbered(new), !.constraint = FALSE, !.objs = [o \in {} |-> None]]

\* Mistake: the changed column is looked for under the name it had.
RebuildByOldName(c) ==
  LET new == Rebuilt(edit[c].work, edit[c].req.column, edit[c].req)
  IN  /\ edit[c].pc = "rebuild"
      /\ Write(c, edit[c].work)
      /\ Sound(new)
      /\ edit' = [edit EXCEPT ![c].pc = "objects", ![c].work = new]
      /\ UNCHANGED <<table, holder, fk, asked, rec, changes>>

Rebuild(c) ==
  LET new == Rebuilt(edit[c].work, edit[c].req.name, edit[c].req)
  IN  /\ edit[c].pc = "rebuild"
      /\ Write(c, edit[c].work)
      /\ Sound(new)
      /\ edit' = [edit EXCEPT ![c].pc = "objects", ![c].work = new]
      /\ UNCHANGED <<table, holder, fk, asked, rec, changes>>

Recreate(c) ==
  /\ edit[c].pc = "objects"
  /\ Range(edit[c].objs) \subseteq DOMAIN edit[c].work.cols
  /\ edit' = [edit EXCEPT ![c].pc = "commit", ![c].work.objs = edit[c].objs]
  /\ UNCHANGED <<table, writer, holder, fk, asked, rec, changes>>

\* What an edit still needs when it ends.
Ending(c, pc, work) == [NoEdit EXCEPT !.pc = pc, !.fk = edit[c].fk, !.work = work]

Commit(c) ==
  /\ edit[c].pc = "commit"
  /\ table' = edit[c].work
  /\ Unlock(c)
  /\ edit' = [Outdated(edit) EXCEPT ![c] = Ending(c, "restore", None)]
  /\ rec' = Outdated(rec)
  /\ UNCHANGED <<holder, fk, asked, changes>>

\* Mistake: the mode is restored before the transaction is rolled back.
EditFailsInOrder(c) ==
  /\ edit[c].pc \notin {"idle", "rollback", "restore"}
  /\ edit' = [edit EXCEPT ![c] = Ending(c, "restore", edit[c].work)]
  /\ UNCHANGED <<table, writer, holder, fk, asked, rec, changes>>

\* A check refuses the request, a statement fails or the context ends: the
\* deferred calls undo what was done, the last one first.
EditFails(c) ==
  /\ edit[c].pc \notin {"idle", "rollback", "restore"}
  /\ edit' = [edit EXCEPT ![c] = Ending(c, "rollback", edit[c].work)]
  /\ UNCHANGED <<table, writer, holder, fk, asked, rec, changes>>

\* Mistake: an edit that failed is tried again.
RetryEdit(c) ==
  /\ edit[c].pc = "rollback"
  /\ Unlock(c)
  /\ \E req \in EditRequest : edit' = [edit EXCEPT ![c] = [NoEdit EXCEPT !.pc = "read", !.req = req]]
  /\ UNCHANGED <<table, holder, fk, asked, rec, changes>>

RollbackEdit(c) ==
  /\ edit[c].pc = "rollback"
  /\ Unlock(c)
  /\ edit' = [edit EXCEPT ![c].pc = "restore", ![c].work = None]
  /\ UNCHANGED <<table, holder, fk, asked, rec, changes>>

\* PRAGMA foreign_keys = ON does nothing while there is a transaction.
RestoreForeignKeys(c) ==
  /\ edit[c].pc = "restore"
  /\ fk' = (fk \/ (edit[c].fk /\ edit[c].work = None))
  /\ holder' = None
  /\ edit' = [edit EXCEPT ![c] = NoEdit]
  /\ UNCHANGED <<table, writer, asked, rec, changes>>

-----------------------------------------------------------------------------
\* MutateRecord: a transaction that reads the table and, but for an insert,
\* the rows its filter matches ...
LoadRecords(c, method, f) ==
  /\ rec[c] = NoRec
  /\ table # None
  /\ IF method = "POST" THEN f = None
     ELSE /\ f # None
          /\ f.column \in DOMAIN table.cols
          /\ Cardinality(Matched(table, f)) = 1
  /\ rec' = [rec EXCEPT ![c] = [pc |-> "mutate", method |-> method, filter |-> f, work |-> table]]
  /\ UNCHANGED <<table, writer, edit, holder, fk, asked, changes>>

\* ... the tables that its statement may leave, with the rows it returns ...
Outcomes(t, method, f, fields) ==
  LET R == Matched(t, f)  \* not of a POST
  IN  IF method = "DELETE"
      THEN {[new |-> [t EXCEPT !.rows = [r \in DOMAIN t.rows \ R |-> t.rows[r]]], hit |-> R]}
      ELSE IF method = "PATCH"
      THEN {[new |-> [t EXCEPT !.rows = [r \in DOMAIN t.rows |->
                                           IF r \in R THEN [t.rows[r] EXCEPT ![f.column] = v]
                                           ELSE t.rows[r]]], hit |-> R] : v \in fields}
      ELSE {[new |-> [t EXCEPT !.rows = [r \in DOMAIN t.rows \cup {q} |->
                                           IF r = q THEN [x \in DOMAIN t.cols |-> v]
                                           ELSE t.rows[r]]], hit |-> {q}]
              : q \in Rowid \ DOMAIN t.rows, v \in fields}

\* Mistake: the statement runs outside the transaction.
MutateAlone(c) ==
  LET r == rec[c]
  IN  /\ r.pc = "mutate"
      /\ writer = None /\ table # None
      /\ r.filter # None => r.filter.column \in DOMAIN table.cols
      /\ \E o \in Outcomes(table, r.method, r.filter, Field) :
           /\ Sound(o.new)
           /\ table' = o.new
      /\ rec' = [Outdated(rec) EXCEPT ![c] = NoRec]
      /\ edit' = Outdated(edit)
      /\ UNCHANGED <<writer, holder, fk, asked, changes>>

\* ... the statement, which must have changed one row ...
Mutate(c) ==
  LET r == rec[c]
  IN  /\ r.pc = "mutate"
      /\ Write(c, r.work)
      /\ \E o \in Outcomes(r.work, r.method, r.filter, Field) :
           /\ Sound(o.new)
           /\ Cardinality(o.hit) = 1
           /\ rec' = [rec EXCEPT ![c].pc = "commit", ![c].work = o.new]
      /\ UNCHANGED <<table, edit, holder, fk, asked, changes>>

\* ... and the commit.
CommitRecord(c) ==
  /\ rec[c].pc = "commit"
  /\ table' = rec[c].work
  /\ Unlock(c)
  /\ rec' = [Outdated(rec) EXCEPT ![c] = NoRec]
  /\ edit' = Outdated(edit)
  /\ UNCHANGED <<holder, fk, asked, changes>>

RecordFails(c) ==
  /\ rec[c].pc # "idle"
  /\ Unlock(c)
  /\ rec' = [rec EXCEPT ![c] = NoRec]
  /\ UNCHANGED <<table, edit, holder, fk, asked, changes>>

-----------------------------------------------------------------------------
\* A statement commits by itself.
ChangeSchema(t) ==
  /\ writer = None
  /\ changes < MaxSchema
  /\ changes' = changes + 1
  /\ table' = t
  /\ edit' = Outdated(edit)
  /\ rec' = Outdated(rec)
  /\ UNCHANGED <<writer, holder, fk, asked>>

\* Mistake: NOT NULL without a default.
AddColumnUnchecked(x, notnull, v) ==
  /\ holder = None
  /\ table # None /\ x \notin DOMAIN table.cols
  /\ ChangeSchema(Added(table, x, notnull, v))

\* AddColumn on the shared connection: NOT NULL takes a default.
AddColumn(x, notnull, v) ==
  /\ holder = None
  /\ table # None /\ x \notin DOMAIN table.cols
  /\ notnull => v # Null
  /\ ChangeSchema(Added(table, x, notnull, v))

CreateTable(x, notnull, keyed) ==
  /\ holder = None
  /\ table = None
  /\ ChangeSchema([cols |-> [y \in {x} |-> notnull], keyed |-> keyed, constraint |-> FALSE,
                   objs |-> [o \in {} |-> None], rows |-> [r \in {} |-> None]])

\* Execute on the shared connection: PRAGMA foreign_keys.
SetForeignKeys(on) ==
  /\ holder = None
  /\ fk' = on
  /\ asked' = on
  /\ UNCHANGED <<table, writer, edit, holder, rec, changes>>

\* Another program: DROP TABLE, RENAME COLUMN, CREATE INDEX, or a table with a
\* constraint in place of the table.
OtherProgram ==
  \/ table # None /\ ChangeSchema(None)
  \/ /\ table # None
     /\ \/ ChangeSchema([table EXCEPT !.constraint = TRUE])
        \/ \E x \in DOMAIN table.cols, y \in Names \ DOMAIN table.cols :
             ChangeSchema(Renamed(table, x, y))
        \/ \E o \in Objects \ DOMAIN table.objs, x \in DOMAIN table.cols :
             ChangeSchema([table EXCEPT !.objs =
               [q \in DOMAIN table.objs \cup {o} |-> IF q = o THEN x ELSE table.objs[q]]])

-----------------------------------------------------------------------------
EditStep(c) ==
  \/ LoadColumns(c) \/ Validate(c) \/ CountNulls(c) \/ DisableForeignKeys(c)
  \/ Rename(c) \/ Reload(c) \/ Rebuild(c) \/ Recreate(c) \/ Commit(c)
  \/ EditFails(c) \/ RollbackEdit(c) \/ RestoreForeignKeys(c)

Next ==
  \/ \E c \in Editors : EditStep(c) \/ \E req \in EditRequest : Acquire(c, req)
  \/ \E c \in Writers : Mutate(c) \/ CommitRecord(c) \/ RecordFails(c)
  \/ \E c \in Writers, method \in {"POST", "PATCH", "DELETE"}, f \in Filter \cup {None} :
       LoadRecords(c, method, f)
  \/ \E x \in Names, notnull \in BOOLEAN : \E v \in Field : AddColumn(x, notnull, v)
  \/ \E x \in Names, notnull, keyed \in BOOLEAN : CreateTable(x, notnull, keyed)
  \/ \E on \in BOOLEAN : SetForeignKeys(on)
  \/ OtherProgram

Spec == Init /\ [][Next]_vars

\* A request goes on: its statements wait five seconds at most for a lock.
FairSpec == Spec /\ \A c \in Editors : WF_vars(EditStep(c))
-----------------------------------------------------------------------------
\* What the database holds is a table whose NOT NULL columns hold no NULL.
TypeOK ==
  /\ table = None \/ (table \in Table /\ Sound(table))
  /\ writer \in Editors \cup Writers \cup {None}
  /\ holder \in Editors \cup {None}
  /\ fk \in BOOLEAN /\ asked \in BOOLEAN
  /\ \A c \in Editors : edit[c].req \in EditRequest \cup {None}
  /\ \A c \in Writers : rec[c].filter \in Filter \cup {None}
  /\ changes \in 0 .. MaxSchema

\* The columns that an edit read are still the table's.
Seen(c) == edit[c].cols = table.cols

NameAfter(c, x) == IF Seen(c) /\ x = edit[c].req.column THEN edit[c].req.name ELSE x

\* Every row of the table is there after the edit, in its order and, with a key, under its key.
RowsKept(c) ==
  LET req == edit[c].req
      Kept(old, new) == \/ new = old
                        \/ old = Null /\ ~req.nullable /\ new = req.default
  IN  \E b \in Bijection(DOMAIN table.rows, DOMAIN table'.rows) :
        /\ \A r, q \in DOMAIN b : r < q => b[r] < b[q]
        /\ table.keyed => \A r \in DOMAIN b : b[r] = r
        /\ Seen(c) => \A r \in DOMAIN b, x \in DOMAIN table.cols :
             LET new == table'.rows[b[r]][NameAfter(c, x)]
             IN  IF x = req.column THEN Kept(table.rows[r][x], new) ELSE new = table.rows[r][x]

ColumnsKept(c) ==
  /\ DOMAIN table'.cols = {NameAfter(c, x) : x \in DOMAIN table.cols}
  /\ \A x \in DOMAIN table.cols :
       table'.cols[NameAfter(c, x)] = IF x = edit[c].req.column THEN ~edit[c].req.nullable ELSE table.cols[x]

ObjectsKept(c) ==
  /\ DOMAIN table'.objs = DOMAIN table.objs
  /\ Seen(c) => \A o \in DOMAIN table.objs : table'.objs[o] = NameAfter(c, table.objs[o])

\* An edit that commits leaves every row, in its order and, if the table has a
\* key, under its key, and every index and trigger, whatever other connections
\* committed between its checks and its transaction.  If the columns still are
\* those it read, the table then has them with the one change that was asked
\* for: the others keep their definitions and every field its value, but for
\* NULLs that the default replaces.
EditIsExact ==
  [][\A c \in Editors : edit[c].pc = "commit" /\ edit'[c].pc = "restore" =>
       RowsKept(c) /\ ObjectsKept(c) /\ (Seen(c) => ColumnsKept(c))]_vars

\* The rows that a step takes away, adds or changes.
Row(t, r) == IF r \in DOMAIN t.rows THEN {t.rows[r]} ELSE {}
RowsHit == {r \in Rowid : Row(table, r) # Row(table', r)}

\* A data request that succeeds has changed one row of the table as it was at
\* that moment, a PATCH or DELETE the only one that its filter matches, and
\* nothing else: no edit and no other request comes between the row that was
\* matched and the statement.
RecordChangesOneRow ==
  [][\A c \in Writers : rec[c] # NoRec /\ rec'[c] = NoRec /\ table' # table =>
       /\ table' = [table EXCEPT !.rows = table'.rows]
       /\ Cardinality(RowsHit) = 1
       /\ rec[c].method # "POST" => Matched(table, rec[c].filter) = RowsHit]_vars

\* However an edit ends, the next user of the connection finds foreign keys
\* enforced, or not, as a statement last asked for.
ForeignKeysKept == holder = None => fk = asked

\* An edit gives the handle's only connection back: whatever fails, later
\* requests on the database are served.
ConnectionReturned == \A c \in Editors : holder = c ~> holder # c
=============================================================================
