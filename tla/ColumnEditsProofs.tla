------------------------- MODULE ColumnEditsProofs -------------------------
(***************************************************************************)
(* What edits and data requests do to a table, for any requests, columns,  *)
(* rows, indexes and numbers of connections.                               *)
(*                                                                         *)
(* The invariant says what a request that is under way knows of the table: *)
(* its snapshot is stale, or it is a function of the table as it was last  *)
(* committed, because whoever commits makes every other snapshot stale and *)
(* whoever writes is alone.  So at the commit the new table is a function  *)
(* of the one it replaces, whatever was read before.                       *)
(***************************************************************************)
EXTENDS ColumnEdits, FiniteSetTheorems, TLAPS

-----------------------------------------------------------------------------
(* The invariant.                                                          *)

Steps == {"idle", "read", "validate", "nulls", "mode", "rename", "reload", "rebuild", "objects",
          "commit", "rollback", "restore"}
Methods == {"POST", "PATCH", "DELETE"}

Columns  == UNION {[d -> BOOLEAN] : d \in SUBSET Names}
Indexes  == UNION {[o -> Names] : o \in SUBSET Objects}
SoundTable == {t \in Table : Sound(t)}

EditState ==
  [pc: Steps, req: EditRequest \cup {None}, cols: Columns \cup {None},
   objs: Indexes \cup {None}, fk: BOOLEAN, work: Table \cup {None, Stale}]
RecState ==
  [pc: {"idle", "mutate", "commit"}, method: Methods \cup {None}, filter: Filter \cup {None},
   work: Table \cup {None, Stale}]

Types ==
  /\ table \in SoundTable \cup {None}
  /\ writer \in Editors \cup Writers \cup {None}
  /\ edit \in [Editors -> EditState]
  /\ holder \in Editors \cup {None}
  /\ fk \in BOOLEAN /\ asked \in BOOLEAN
  /\ rec \in [Writers -> RecState]
  /\ changes \in 0 .. MaxSchema

\* The one edit that is under way has the handle's connection.
Holding(c) ==
  /\ holder = c <=> edit[c].pc # "idle"
  /\ edit[c].pc = "idle" => edit[c] = NoEdit

\* The mode that was found is in the connection or in the edit's variable.
Mode(c) ==
  /\ holder = c => (fk \/ edit[c].fk <=> asked)
  /\ edit[c].pc \in {"read", "validate", "nulls", "mode"} => ~edit[c].fk

\* An edit's request fits the columns that it has read.
Checked(c) ==
  edit[c].pc \in Steps \ {"idle", "rollback", "restore"} =>
    LET req == edit[c].req
    IN  /\ req \in EditRequest
        /\ edit[c].pc # "read" => /\ req.column \in DOMAIN edit[c].cols
                                  /\ req.name \notin DOMAIN edit[c].cols \ {req.column}

\* The table that an edit rebuilds: the last one committed, under the new name.
Renames(c) == edit[c].req.name # edit[c].req.column
Base(c) ==
  IF Renames(c) THEN Renamed(table, edit[c].req.column, edit[c].req.name) ELSE table

HasBase(c) ==
  /\ table # None
  /\ Renames(c) => /\ edit[c].req.column \in DOMAIN table.cols
                   /\ edit[c].req.name \notin DOMAIN table.cols

New(c) == Rebuilt(Base(c), edit[c].req.name, edit[c].req)

Snapshot(c) ==
  /\ edit[c].pc \in {"idle", "read", "validate", "nulls", "mode", "rename", "restore"} =>
       edit[c].work = None /\ writer # c
  /\ edit[c].pc \in {"reload", "rebuild"} =>
       IF Renames(c) THEN writer = c /\ HasBase(c) ELSE writer # c
  /\ edit[c].pc = "reload" => edit[c].work = IF Renames(c) THEN Base(c) ELSE None
  /\ edit[c].pc = "rebuild" =>
       \/ edit[c].work = Stale /\ ~Renames(c)
       \/ HasBase(c) /\ edit[c].work = Base(c) /\ edit[c].objs = Base(c).objs
  /\ edit[c].pc \in {"objects", "commit"} =>
       writer = c /\ HasBase(c) /\ Sound(New(c)) /\ edit[c].objs = Base(c).objs
  /\ edit[c].pc = "objects" => edit[c].work = New(c)
  /\ edit[c].pc = "commit"  => edit[c].work = [New(c) EXCEPT !.objs = Base(c).objs]

\* A data request has the last committed table and one row that it matched,
\* or the table that its statement made of it.
Fitting(c) ==
  /\ table # None
  /\ IF rec[c].method = "POST" THEN rec[c].filter = None
     ELSE /\ rec[c].filter \in Filter
          /\ rec[c].filter.column \in DOMAIN table.cols
          /\ Cardinality(Matched(table, rec[c].filter)) = 1

Statement(c) ==
  /\ rec[c].pc = "idle" => rec[c] = NoRec
  /\ rec[c].pc # "idle" => rec[c].method \in Methods
  /\ rec[c].pc = "commit" <=> writer = c
  /\ rec[c].pc = "mutate" => rec[c].work = Stale \/ (Fitting(c) /\ rec[c].work = table)
  /\ rec[c].pc = "commit" =>
       /\ Fitting(c)
       /\ \E o \in Outcomes(table, rec[c].method, rec[c].filter, Field) :
            Sound(o.new) /\ Cardinality(o.hit) = 1 /\ rec[c].work = o.new

Inv ==
  /\ Types
  /\ ForeignKeysKept
  /\ \A c \in Editors : Holding(c) /\ Mode(c) /\ Checked(c) /\ Snapshot(c)
  /\ \A c \in Writers : Statement(c)

\* What a table holds, field by field.
LEMMA TableFields ==
  ASSUME NEW t \in Table
  PROVE  /\ t \in TableOver(DOMAIN t.cols)
         /\ DOMAIN t.cols \in SUBSET Names /\ DOMAIN t.cols # {}
         /\ t.cols \in [DOMAIN t.cols -> BOOLEAN]
         /\ t.keyed \in BOOLEAN /\ t.constraint \in BOOLEAN
         /\ DOMAIN t.objs \in SUBSET Objects
         /\ t.objs \in [DOMAIN t.objs -> DOMAIN t.cols]
         /\ DOMAIN t.rows \in SUBSET Rowid
         /\ t.rows \in [DOMAIN t.rows -> [DOMAIN t.cols -> Field]]
<1>1. PICK d \in (SUBSET Names) \ {{}} : t \in TableOver(d)
  BY DEF Table
<1>2. /\ t.cols \in [d -> BOOLEAN] /\ t.keyed \in BOOLEAN /\ t.constraint \in BOOLEAN
      /\ t.objs \in UNION {[o -> d] : o \in SUBSET Objects}
      /\ t.rows \in UNION {[r -> [d -> Field]] : r \in SUBSET Rowid}
  BY <1>1 DEF TableOver, ObjsOver, RowsOver
<1>3. PICK o \in SUBSET Objects : t.objs \in [o -> d]
  BY <1>2
<1>4. PICK r \in SUBSET Rowid : t.rows \in [r -> [d -> Field]]
  BY <1>2
<1>5. DOMAIN t.cols = d /\ DOMAIN t.objs = o /\ DOMAIN t.rows = r
  BY <1>2, <1>3, <1>4
<1>6. d \in SUBSET Names /\ d # {}
  OBVIOUS
<1> QED
  BY <1>1, <1>2, <1>3, <1>4, <1>5, <1>6

\* A table over some columns is a table.
LEMMA TableBuilt ==
  ASSUME NEW d \in SUBSET Names, d # {}, NEW t \in TableOver(d)
  PROVE  t \in Table /\ DOMAIN t.cols = d
<1>1. t \in Table
  BY DEF Table
<1> QED
  BY <1>1 DEF TableOver

\* What a table over some columns may hold.
LEMMA Over ==
  ASSUME NEW d
  PROVE  /\ \A o \in SUBSET Objects : [o -> d] \subseteq ObjsOver(d)
         /\ \A r \in SUBSET Rowid : [r -> [d -> Field]] \subseteq RowsOver(d)
<1>2. ASSUME NEW o \in SUBSET Objects PROVE [o -> d] \subseteq ObjsOver(d)
  <2>1. [o -> d] \in {[p -> d] : p \in SUBSET Objects}
    OBVIOUS
  <2> QED
    BY <2>1 DEF ObjsOver
<1>3. ASSUME NEW r \in SUBSET Rowid PROVE [r -> [d -> Field]] \subseteq RowsOver(d)
  <2>1. [r -> [d -> Field]] \in {[q -> [d -> Field]] : q \in SUBSET Rowid}
    OBVIOUS
  <2> QED
    BY <2>1 DEF RowsOver
<1> QED
  BY <1>2, <1>3

\* ALTER TABLE ... RENAME COLUMN gives a table with the same rows under the new name.
LEMMA RenamedTable ==
  ASSUME NEW t \in Table, NEW old \in DOMAIN t.cols, NEW new \in Names, new \notin DOMAIN t.cols
  PROVE  LET u     == Renamed(t, old, new)
             Of(x) == IF x = new THEN old ELSE x
         IN  /\ u \in Table /\ (Sound(t) => Sound(u))
             /\ DOMAIN u.cols = (DOMAIN t.cols \ {old}) \cup {new}
             /\ \A x \in DOMAIN u.cols : u.cols[x] = t.cols[Of(x)]
             /\ DOMAIN u.objs = DOMAIN t.objs
             /\ \A o \in DOMAIN t.objs : u.objs[o] = IF t.objs[o] = old THEN new ELSE t.objs[o]
             /\ DOMAIN u.rows = DOMAIN t.rows
             /\ \A r \in DOMAIN t.rows, x \in DOMAIN u.cols : u.rows[r][x] = t.rows[r][Of(x)]
             /\ u.keyed = t.keyed
<1> DEFINE d     == (DOMAIN t.cols \ {old}) \cup {new}
           Of(x) == IF x = new THEN old ELSE x
           cols  == [x \in d |-> t.cols[Of(x)]]
           objs  == [o \in DOMAIN t.objs |-> IF t.objs[o] = old THEN new ELSE t.objs[o]]
           rows  == [r \in DOMAIN t.rows |-> [x \in d |-> t.rows[r][Of(x)]]]
           u     == Renamed(t, old, new)
<1>1. u = [t EXCEPT !.cols = cols, !.objs = objs, !.rows = rows]
  BY DEF Renamed
<1>2. /\ d \in SUBSET Names /\ d # {} /\ \A x \in d : Of(x) \in DOMAIN t.cols
      /\ DOMAIN t.objs \in SUBSET Objects /\ DOMAIN t.rows \in SUBSET Rowid
  BY TableFields
<1>3. cols \in [d -> BOOLEAN]
  BY <1>2, TableFields
<1>4. objs \in ObjsOver(d)
  <2>1. objs \in [DOMAIN t.objs -> d]
    BY TableFields
  <2> HIDE DEF objs, d
  <2> QED
    BY <1>2, <2>1, Over
<1>5. rows \in RowsOver(d)
  <2>1. rows \in [DOMAIN t.rows -> [d -> Field]]
    BY <1>2, TableFields
  <2> HIDE DEF rows, d
  <2> QED
    BY <1>2, <2>1, Over
<1>6. /\ u \in TableOver(d)
      /\ u.cols = cols /\ u.objs = objs /\ u.rows = rows /\ u.keyed = t.keyed
  <2>1. t \in TableOver(DOMAIN t.cols)
    BY TableFields
  <2> HIDE DEF cols, objs, rows, d, u
  <2> QED
    BY <1>1, <1>3, <1>4, <1>5, <2>1 DEF TableOver
<1>7. u \in Table /\ DOMAIN u.cols = d
  <2> HIDE DEF d, u
  <2> QED
    BY <1>2, <1>6, TableBuilt
<1>8. Sound(t) => Sound(u)
  <2> SUFFICES ASSUME Sound(t), NEW r \in DOMAIN t.rows, NEW x \in d, cols[x]
               PROVE  rows[r][x] # Null
    BY <1>6, <1>7 DEF Sound
  <2>1. Of(x) \in DOMAIN t.cols /\ t.cols[Of(x)]
    BY <1>2
  <2>2. t.rows[r][Of(x)] # Null
    BY <2>1 DEF Sound
  <2> QED
    BY <2>2
<1> QED
  BY <1>6, <1>7, <1>8

\* The place of a row among the rows in the order of their rowids.
Place(R, r) == Cardinality({q \in R : q <= r})

LEMMA Places ==
  ASSUME NEW R \in SUBSET Rowid
  PROVE  /\ IsFiniteSet(R) /\ Cardinality(R) \in 0 .. MaxRow
         /\ [r \in R |-> Place(R, r)] \in Bijection(R, 1 .. Cardinality(R))
         /\ \A r, q \in R : r < q => Place(R, r) < Place(R, q)
<1> DEFINE n   == Cardinality(R)
           Upto(r) == {q \in R : q <= r}
           b   == [r \in R |-> Place(R, r)]
<1>0. MaxRow \in Nat /\ MaxRow >= 1
  BY EditsAssumption
<1>1. IsFiniteSet(Rowid) /\ Cardinality(Rowid) = MaxRow
  BY <1>0, FS_Interval, Z3 DEF Rowid
<1>2. IsFiniteSet(R) /\ n \in Nat /\ n <= MaxRow
  BY <1>0, <1>1, FS_Subset, FS_CardinalityType
<1>a. \A r \in R : r \in Int
  BY DEF Rowid
<1>3. ASSUME NEW r \in R
      PROVE  IsFiniteSet(Upto(r)) /\ Place(R, r) \in 1 .. n /\ Place(R, r) \in Int
  <2>1. Upto(r) \in SUBSET R /\ r \in Upto(r)
    BY DEF Rowid
  <2>2. IsFiniteSet(Upto(r)) /\ Place(R, r) \in Nat /\ Place(R, r) <= n
    BY <1>2, <2>1, FS_Subset, FS_CardinalityType DEF Place
  <2>3. Place(R, r) # 0
    BY <2>1, <2>2, FS_EmptySet DEF Place
  <2> QED
    BY <1>2, <2>2, <2>3
<1>4. ASSUME NEW r \in R, NEW q \in R, r < q
      PROVE  Place(R, r) < Place(R, q)
  <2>1. Upto(r) \in SUBSET Upto(q) /\ q \in Upto(q) /\ q \notin Upto(r)
    <3>1. \A p \in R : p <= r => p <= q
      BY <1>4, <1>a
    <3>2. q <= q /\ ~(q <= r)
      BY <1>4, <1>a
    <3> QED
      BY <3>1, <3>2
  <2>2. Place(R, r) <= Place(R, q) /\ Place(R, r) # Place(R, q)
    BY <1>3, <2>1, FS_Subset DEF Place
  <2>3. Place(R, r) \in Int /\ Place(R, q) \in Int
    BY <1>3
  <2> QED
    BY <2>2, <2>3
<1>5. b \in Injection(R, 1 .. n)
  <2>1. \A r, q \in R : Place(R, r) = Place(R, q) => r = q
    <3> SUFFICES ASSUME NEW r \in R, NEW q \in R, r # q
                 PROVE  Place(R, r) # Place(R, q)
      OBVIOUS
    <3>1. r < q \/ q < r
      BY <1>a
    <3>2. Place(R, r) < Place(R, q) \/ Place(R, q) < Place(R, r)
      BY <1>4, <3>1
    <3>3. Place(R, r) \in Int /\ Place(R, q) \in Int
      BY <1>3
    <3> QED
      BY <3>2, <3>3
  <2>2. b \in [R -> 1 .. n]
    BY <1>3
  <2> QED
    BY <2>1, <2>2 DEF Injection, IsInjective
<1>6. IsFiniteSet(1 .. n) /\ Cardinality(1 .. n) = n
  BY <1>2, FS_Interval
<1>7. b \in Surjection(R, 1 .. n)
  BY <1>5, <1>6, FS_Injection
<1> QED
  BY <1>2, <1>4, <1>5, <1>7 DEF Bijection

\* A table whose rows are numbered anew has them in their order; with a key
\* they are what they were.
NumberOf(t) ==
  IF t.keyed THEN [r \in DOMAIN t.rows |-> r] ELSE [r \in DOMAIN t.rows |-> Place(DOMAIN t.rows, r)]

LEMMA NumberedRows ==
  ASSUME NEW t, NEW R \in SUBSET Rowid, DOMAIN t.rows = R
  PROVE  /\ DOMAIN Numbered(t) \in SUBSET Rowid
         /\ \A d : t.rows \in [R -> d] => Numbered(t) \in [DOMAIN Numbered(t) -> d]
         /\ NumberOf(t) \in Bijection(R, DOMAIN Numbered(t))
         /\ \A r, q \in R : r < q => NumberOf(t)[r] < NumberOf(t)[q]
         /\ \A r \in R : Numbered(t)[NumberOf(t)[r]] = t.rows[r]
         /\ t.keyed => \A r \in R : NumberOf(t)[r] = r
<1>1. CASE t.keyed
  <2>1. Numbered(t) = t.rows /\ NumberOf(t) = [r \in R |-> r]
    BY <1>1 DEF Numbered, NumberOf
  <2>2. [r \in R |-> r] \in Bijection(R, R)
    BY DEF Bijection, Injection, Surjection, IsInjective
  <2> QED
    BY <2>1, <2>2
<1>2. CASE ~t.keyed
  <2> DEFINE n == Cardinality(R)
             At(i) == CHOOSE r \in R : Place(R, r) = i
             b == [r \in R |-> Place(R, r)]
  <2>1. Numbered(t) = [i \in 1 .. n |-> t.rows[At(i)]] /\ NumberOf(t) = b
    BY <1>2 DEF Numbered, NumberOf, Place
  <2>2. n \in 0 .. MaxRow /\ b \in Bijection(R, 1 .. n) /\ \A r, q \in R : r < q => b[r] < b[q]
    BY Places
  <2>3. \A r, q \in R : Place(R, r) = Place(R, q) => r = q
    BY <2>2 DEF Bijection, Injection, IsInjective
  <2>4. \A i \in 1 .. n : \E r \in R : Place(R, r) = i
    BY <2>2 DEF Bijection, Surjection
  <2>5. \A i \in 1 .. n : At(i) \in R /\ Place(R, At(i)) = i
    BY <2>4
  <2>6. \A r \in R : Place(R, r) \in 1 .. n
    BY <2>2 DEF Bijection, Injection
  <2>7. \A r \in R : At(Place(R, r)) = r
    BY <2>3, <2>5, <2>6
  <2>8. 1 .. n \in SUBSET Rowid
    BY <2>2, EditsAssumption DEF Rowid
  <2> HIDE DEF At, n
  <2>9. DOMAIN Numbered(t) = 1 .. n /\ \A d : t.rows \in [R -> d] => Numbered(t) \in [1 .. n -> d]
    BY <2>1, <2>5
  <2>10. \A r \in R : Numbered(t)[b[r]] = t.rows[r]
    BY <2>1, <2>6, <2>7
  <2> QED
    BY <1>2, <2>1, <2>2, <2>8, <2>9, <2>10
<1> QED
  BY <1>1, <1>2

\* The new definition of a column leaves every other column and field alone.
LEMMA ChangedTable ==
  ASSUME NEW t \in Table, NEW x, NEW req \in EditRequest
  PROVE  LET u == Changed(t, x, req)
         IN  /\ u \in TableOver(DOMAIN t.cols)
             /\ u.keyed = t.keyed
             /\ \A y \in DOMAIN t.cols : u.cols[y] = IF y = x THEN ~req.nullable ELSE t.cols[y]
             /\ u.rows \in [DOMAIN t.rows -> [DOMAIN t.cols -> Field]]
             /\ \A r \in DOMAIN t.rows, y \in DOMAIN t.cols :
                  \/ u.rows[r][y] = t.rows[r][y]
                  \/ y = x /\ t.rows[r][y] = Null /\ ~req.nullable /\ u.rows[r][y] = req.default
<1>0. /\ t \in TableOver(DOMAIN t.cols)
      /\ t.cols \in [DOMAIN t.cols -> BOOLEAN]
      /\ t.rows \in [DOMAIN t.rows -> [DOMAIN t.cols -> Field]]
      /\ DOMAIN t.rows \in SUBSET Rowid
  BY TableFields
<1>1. CASE x \notin DOMAIN t.cols
  <2>1. Changed(t, x, req) = t
    BY <1>1 DEF Changed
  <2> QED
    BY <1>0, <1>1, <2>1
<1>2. CASE x \in DOMAIN t.cols
  <2> DEFINE Gets(r) == ~req.nullable /\ req.default # Null /\ t.rows[r][x] = Null
             d    == DOMAIN t.cols
             cols == [t.cols EXCEPT ![x] = ~req.nullable]
             rows == [r \in DOMAIN t.rows |->
                        IF Gets(r) THEN [t.rows[r] EXCEPT ![x] = req.default] ELSE t.rows[r]]
             u    == Changed(t, x, req)
  <2>1. req.nullable \in BOOLEAN /\ req.default \in Field
    BY DEF EditRequest
  <2>2. u = [t EXCEPT !.cols = cols, !.rows = rows]
    <3>1. u = [t EXCEPT !.cols[x] = ~req.nullable, !.rows = rows]
      BY <1>2 DEF Changed
    <3> HIDE DEF rows
    <3> QED
      BY <1>0, <3>1
  <2>3. cols \in [d -> BOOLEAN]
    BY <1>0, <2>1
  <2>4. \A y \in d : cols[y] = IF y = x THEN ~req.nullable ELSE t.cols[y]
    BY <1>0
  <2>5. rows \in [DOMAIN t.rows -> [d -> Field]]
    BY <1>0, <2>1
  <2>6. \A r \in DOMAIN t.rows, y \in d :
          \/ rows[r][y] = t.rows[r][y]
          \/ y = x /\ t.rows[r][y] = Null /\ ~req.nullable /\ rows[r][y] = req.default
    BY <1>0
  <2>7. rows \in RowsOver(d)
    <3> HIDE DEF rows, d
    <3> QED
      BY <1>0, <2>5, Over
  <2>8. /\ u \in TableOver(d)
        /\ u.cols = cols /\ u.rows = rows /\ u.keyed = t.keyed
    <3>1. t \in TableOver(d)
      BY <1>0
    <3> HIDE DEF cols, rows, d, u
    <3> QED
      BY <2>2, <2>3, <2>7, <3>1 DEF TableOver
  <2> HIDE DEF cols, rows, u
  <2> QED
    BY <2>4, <2>5, <2>6, <2>8 DEF u
<1> QED
  BY <1>1, <1>2

\* What a rebuilt table has of the old one.
LEMMA RebuiltTable ==
  ASSUME NEW t \in Table, NEW x, NEW req \in EditRequest
  PROVE  LET u == Rebuilt(t, x, req)
             b == NumberOf(t)
         IN  /\ u \in Table
             /\ DOMAIN u.cols = DOMAIN t.cols
             /\ \A y \in DOMAIN t.cols : u.cols[y] = IF y = x THEN ~req.nullable ELSE t.cols[y]
             /\ b \in Bijection(DOMAIN t.rows, DOMAIN u.rows)
             /\ \A r, q \in DOMAIN t.rows : r < q => b[r] < b[q]
             /\ t.keyed => \A r \in DOMAIN t.rows : b[r] = r
             /\ \A r \in DOMAIN t.rows, y \in DOMAIN t.cols :
                  \/ u.rows[b[r]][y] = t.rows[r][y]
                  \/ y = x /\ t.rows[r][y] = Null /\ ~req.nullable /\ u.rows[b[r]][y] = req.default
<1> DEFINE c    == Changed(t, x, req)
           d    == DOMAIN t.cols
           R    == DOMAIN t.rows
           rows == Numbered(c)
           objs == [o \in {} |-> None]
           u    == Rebuilt(t, x, req)
           b    == NumberOf(t)
<1>1. c \in TableOver(d) /\ c.keyed = t.keyed
  BY ChangedTable
<1>2. \A y \in d : c.cols[y] = IF y = x THEN ~req.nullable ELSE t.cols[y]
  BY ChangedTable
<1>3. /\ c.rows \in [R -> [d -> Field]]
      /\ \A r \in R, y \in d :
           \/ c.rows[r][y] = t.rows[r][y]
           \/ y = x /\ t.rows[r][y] = Null /\ ~req.nullable /\ c.rows[r][y] = req.default
  BY ChangedTable
<1>4. d \in SUBSET Names /\ d # {} /\ R \in SUBSET Rowid
  BY TableFields
<1>5. u = [c EXCEPT !.rows = rows, !.constraint = FALSE, !.objs = objs]
  BY DEF Rebuilt
<1> HIDE DEF c
<1>a. DOMAIN c.rows = R
  BY <1>3
<1>6. NumberOf(c) = b
  BY <1>1, <1>a DEF NumberOf
<1> HIDE DEF d, R
<1>7. DOMAIN rows \in SUBSET Rowid /\ rows \in [DOMAIN rows -> [d -> Field]]
  <2>1. \A D : c.rows \in [R -> D] => rows \in [DOMAIN rows -> D]
    BY <1>4, <1>a, NumberedRows
  <2>2. DOMAIN rows \in SUBSET Rowid
    BY <1>4, <1>a, NumberedRows
  <2> QED
    BY <1>3, <2>1, <2>2
<1>8. b \in Bijection(R, DOMAIN rows) /\ \A r, q \in R : r < q => b[r] < b[q]
  <2>1. /\ NumberOf(c) \in Bijection(R, DOMAIN Numbered(c))
        /\ \A r, q \in R : r < q => NumberOf(c)[r] < NumberOf(c)[q]
    BY <1>4, <1>a, NumberedRows
  <2> QED
    BY <1>6, <2>1
<1>9. \A r \in R : rows[b[r]] = c.rows[r]
  <2>1. \A r \in R : Numbered(c)[NumberOf(c)[r]] = c.rows[r]
    BY <1>4, <1>a, NumberedRows
  <2> QED
    BY <1>6, <2>1
<1>10. t.keyed => \A r \in R : b[r] = r
  BY DEF NumberOf, R
<1>11. objs \in ObjsOver(d)
  <2>1. objs \in [{} -> d] /\ {} \in SUBSET Objects
    OBVIOUS
  <2> HIDE DEF objs
  <2> QED
    BY <2>1, Over
<1>12. rows \in RowsOver(d)
  <2> HIDE DEF rows
  <2> QED
    BY <1>7, Over
<1>13. u \in TableOver(d) /\ u.cols = c.cols /\ u.rows = rows
  <2> HIDE DEF rows, objs, u
  <2> QED
    BY <1>1, <1>5, <1>11, <1>12 DEF TableOver
<1> HIDE DEF rows, u, b
<1>14. u \in Table /\ DOMAIN u.cols = d
  BY <1>4, <1>13, TableBuilt
<1> QED
  BY <1>2, <1>3, <1>8, <1>9, <1>10, <1>13, <1>14 DEF u, b, d, R

\* The statement of a data request changes rows only.
LEMMA OutcomeTable ==
  ASSUME NEW t \in Table, NEW method \in Methods, NEW f \in Filter \cup {None},
         method # "POST" => f \in Filter /\ f.column \in DOMAIN t.cols,
         NEW o \in Outcomes(t, method, f, Field)
  PROVE  /\ o.new \in Table
         /\ o.new = [t EXCEPT !.rows = o.new.rows]
<1> DEFINE d == DOMAIN t.cols
<1>0. /\ t \in TableOver(d) /\ d \in SUBSET Names /\ d # {}
      /\ t.rows \in [DOMAIN t.rows -> [d -> Field]] /\ DOMAIN t.rows \in SUBSET Rowid
  BY TableFields
<1>1. ASSUME NEW rows, DOMAIN rows \in SUBSET Rowid, rows \in [DOMAIN rows -> [d -> Field]],
             o.new = [t EXCEPT !.rows = rows]
      PROVE  o.new \in Table /\ o.new = [t EXCEPT !.rows = o.new.rows]
  <2> HIDE DEF d
  <2>1. rows \in RowsOver(d)
    BY <1>1, Over
  <2>2. [t EXCEPT !.rows = rows] \in TableOver(d) /\ [t EXCEPT !.rows = rows].rows = rows
    BY <1>0, <2>1 DEF TableOver
  <2> QED
    BY <1>0, <1>1, <2>2, TableBuilt
<1>2. CASE method = "DELETE"
  <2> DEFINE rows == [r \in DOMAIN t.rows \ Matched(t, f) |-> t.rows[r]]
  <2>1. o.new = [t EXCEPT !.rows = rows]
    BY <1>2 DEF Outcomes
  <2>2. DOMAIN rows \in SUBSET Rowid /\ rows \in [DOMAIN rows -> [d -> Field]]
    BY <1>0
  <2> HIDE DEF rows, d
  <2> QED
    BY <1>1, <2>1, <2>2
<1>3. CASE method = "PATCH"
  <2>1. PICK v \in Field :
          o.new = [t EXCEPT !.rows = [r \in DOMAIN t.rows |->
                                        IF r \in Matched(t, f) THEN [t.rows[r] EXCEPT ![f.column] = v]
                                        ELSE t.rows[r]]]
    BY <1>3 DEF Outcomes
  <2> DEFINE rows == [r \in DOMAIN t.rows |->
                        IF r \in Matched(t, f) THEN [t.rows[r] EXCEPT ![f.column] = v] ELSE t.rows[r]]
  <2>2. DOMAIN rows \in SUBSET Rowid /\ rows \in [DOMAIN rows -> [d -> Field]]
    BY <1>0, <1>3
  <2>3. o.new = [t EXCEPT !.rows = rows]
    BY <2>1
  <2> HIDE DEF rows, d
  <2> QED
    BY <1>1, <2>2, <2>3
<1>4. CASE method = "POST"
  <2> DEFINE Rows(q, v)  == [r \in DOMAIN t.rows \cup {q} |->
                              IF r = q THEN [x \in DOMAIN t.cols |-> v] ELSE t.rows[r]]
             After(q, v) == [t EXCEPT !.rows = Rows(q, v)]
  <2>1. PICK q \in Rowid \ DOMAIN t.rows, v \in Field : o.new = After(q, v)
    <3>1. method # "DELETE" /\ method # "PATCH"
      BY <1>4
    <3>2. Outcomes(t, method, f, Field) =
            {[new |-> After(q, v), hit |-> {q}] : q \in Rowid \ DOMAIN t.rows, v \in Field}
      BY <3>1, SMT DEF Outcomes
    <3> HIDE DEF After, d
    <3> QED
      BY <3>2
  <2>2. DOMAIN Rows(q, v) \in SUBSET Rowid /\ Rows(q, v) \in [DOMAIN Rows(q, v) -> [d -> Field]]
    BY <1>0
  <2>3. o.new = [t EXCEPT !.rows = Rows(q, v)]
    BY <2>1
  <2> HIDE DEF Rows, d
  <2> QED
    BY <1>1, <2>2, <2>3
<1> QED
  BY <1>2, <1>3, <1>4 DEF Methods

\* ALTER TABLE ... ADD COLUMN gives a table without NULLs in NOT NULL columns.
LEMMA AddedTable ==
  ASSUME NEW t \in Table, Sound(t), NEW x \in Names, x \notin DOMAIN t.cols,
         NEW notnull \in BOOLEAN, NEW v \in Field, notnull => v # Null
  PROVE  Added(t, x, notnull, v) \in SoundTable
<1> DEFINE d    == DOMAIN t.cols \cup {x}
           cols == [y \in d |-> IF y = x THEN notnull ELSE t.cols[y]]
           rows == [r \in DOMAIN t.rows |-> [y \in d |-> IF y = x THEN v ELSE t.rows[r][y]]]
           u    == [t EXCEPT !.cols = cols, !.rows = rows]
<1>0. /\ t \in TableOver(DOMAIN t.cols) /\ DOMAIN t.cols \in SUBSET Names /\ DOMAIN t.cols # {}
      /\ t.cols \in [DOMAIN t.cols -> BOOLEAN] /\ DOMAIN t.objs \in SUBSET Objects
      /\ t.objs \in [DOMAIN t.objs -> DOMAIN t.cols]
      /\ t.rows \in [DOMAIN t.rows -> [DOMAIN t.cols -> Field]] /\ DOMAIN t.rows \in SUBSET Rowid
  BY TableFields
<1>1. cols \in [d -> BOOLEAN] /\ d \in SUBSET Names /\ d # {}
  BY <1>0
<1>2. rows \in [DOMAIN t.rows -> [d -> Field]]
  BY <1>0
<1>3. t.objs \in [DOMAIN t.objs -> d]
  BY <1>0
<1>4. \A r \in DOMAIN t.rows, y \in d : cols[y] => rows[r][y] # Null
  BY <1>0 DEF Sound
<1> HIDE DEF cols, rows, d
<1>5. rows \in RowsOver(d) /\ t.objs \in ObjsOver(d)
  BY <1>0, <1>2, <1>3, Over
<1>6. u \in TableOver(d) /\ u.cols = cols /\ u.rows = rows
  BY <1>0, <1>1, <1>5 DEF TableOver
<1>7. DOMAIN cols = d /\ DOMAIN rows = DOMAIN t.rows
  BY <1>1, <1>2
<1> HIDE DEF u
<1>8. u \in Table
  BY <1>1, <1>6, TableBuilt
<1>9. Sound(u)
  BY <1>4, <1>6, <1>7 DEF Sound
<1> QED
  BY <1>8, <1>9 DEF SoundTable, Added, u, cols, rows, d

\* CREATE TABLE gives a table without rows.
LEMMA CreatedTable ==
  ASSUME NEW x \in Names, NEW notnull \in BOOLEAN, NEW keyed \in BOOLEAN
  PROVE  [cols |-> [y \in {x} |-> notnull], keyed |-> keyed, constraint |-> FALSE,
          objs |-> [o \in {} |-> None], rows |-> [r \in {} |-> None]] \in SoundTable
<1> DEFINE d == {x}
           cols == [y \in {x} |-> notnull]
           objs == [o \in {} |-> None]
           rows == [r \in {} |-> None]
           u == [cols |-> cols, keyed |-> keyed, constraint |-> FALSE, objs |-> objs, rows |-> rows]
<1>1. cols \in [d -> BOOLEAN] /\ d \in SUBSET Names /\ d # {}
  OBVIOUS
<1>2. /\ objs \in [{} -> d] /\ {} \in SUBSET Objects
      /\ rows \in [{} -> [d -> Field]] /\ {} \in SUBSET Rowid
  OBVIOUS
<1>3. Sound(u)
  BY DEF Sound
<1> HIDE DEF cols, objs, rows, d
<1>4. objs \in ObjsOver(d) /\ rows \in RowsOver(d)
  BY <1>2, Over
<1>5. u \in TableOver(d)
  BY <1>1, <1>4 DEF TableOver
<1>6. u \in Table
  <2> HIDE DEF u
  <2> QED
    BY <1>1, <1>5, TableBuilt
<1> QED
  BY <1>3, <1>6 DEF SoundTable, cols, objs, rows

\* Other indexes, or a constraint, leave the rows of a table as they are.
LEMMA ObjectsTable ==
  ASSUME NEW t \in Table, NEW o \in SUBSET Objects, NEW objs \in [o -> DOMAIN t.cols],
         NEW constraint \in BOOLEAN
  PROVE  /\ [t EXCEPT !.objs = objs] \in Table /\ [t EXCEPT !.constraint = constraint] \in Table
         /\ Sound(t) => Sound([t EXCEPT !.objs = objs]) /\ Sound([t EXCEPT !.constraint = constraint])
<1> DEFINE d == DOMAIN t.cols
           u == [t EXCEPT !.objs = objs]
           w == [t EXCEPT !.constraint = constraint]
<1>1. t \in TableOver(d) /\ d \in SUBSET Names /\ d # {}
  BY TableFields
<1> HIDE DEF d
<1>2. objs \in ObjsOver(d)
  BY Over DEF d
<1>3. u \in TableOver(d) /\ w \in TableOver(d)
  BY <1>1, <1>2 DEF TableOver
<1>4. /\ u.cols = t.cols /\ u.rows = t.rows /\ w.cols = t.cols /\ w.rows = t.rows
  BY <1>1 DEF TableOver
<1> HIDE DEF u, w
<1>5. u \in Table /\ w \in Table
  BY <1>1, <1>3, TableBuilt
<1>6. Sound(t) => Sound(u) /\ Sound(w)
  BY <1>4 DEF Sound
<1> QED
  BY <1>5, <1>6 DEF u, w

\* The invariant holds at first ...
LEMMA InitInv == Init => Inv
<1> SUFFICES ASSUME Init PROVE Inv
  OBVIOUS
<1>0. /\ writer = None /\ edit = [c \in Editors |-> NoEdit] /\ holder = None
      /\ fk = FALSE /\ asked = FALSE /\ rec = [c \in Writers |-> NoRec] /\ changes = 0
  BY DEF Init
<1>1. table \in SoundTable \cup {None}
  <2> SUFFICES ASSUME table # None PROVE table \in SoundTable
    OBVIOUS
  <2> DEFINE d == {First}
             cols == [x \in {First} |-> FALSE]
             objs == [o \in Objects |-> First]
  <2>1. PICK v \in Values, keyed \in BOOLEAN :
          table = [cols |-> cols, keyed |-> keyed, constraint |-> FALSE,
                   objs |-> objs, rows |-> [r \in {1} |-> [x \in {First} |-> v]]]
    BY DEF Init
  <2> DEFINE rows == [r \in {1} |-> [x \in {First} |-> v]]
  <2>2. cols \in [d -> BOOLEAN] /\ d \in SUBSET Names /\ d # {}
    BY EditsAssumption
  <2>3. objs \in [Objects -> d] /\ rows \in [{1} -> [d -> Field]] /\ {1} \in SUBSET Rowid
    BY EditsAssumption DEF Field, Rowid
  <2>4. Sound(table)
    BY <2>1 DEF Sound
  <2>5. table = [cols |-> cols, keyed |-> keyed, constraint |-> FALSE, objs |-> objs, rows |-> rows]
    BY <2>1
  <2> HIDE DEF cols, objs, rows, d
  <2>6. objs \in ObjsOver(d) /\ rows \in RowsOver(d)
    BY <2>3, Over
  <2>7. table \in TableOver(d)
    BY <2>2, <2>5, <2>6 DEF TableOver
  <2> QED
    BY <2>2, <2>4, <2>7, TableBuilt DEF SoundTable
<1>2. Types
  <2>1. NoEdit \in EditState
    BY DEF NoEdit, EditState, Steps
  <2>2. NoRec \in RecState
    BY DEF NoRec, RecState
  <2>3. 0 \in 0 .. MaxSchema
    BY EditsAssumption
  <2> QED
    BY <1>0, <1>1, <2>1, <2>2, <2>3 DEF Types
<1>3. ASSUME NEW c \in Editors PROVE Holding(c) /\ Mode(c) /\ Checked(c) /\ Snapshot(c)
  <2>1. edit[c] = NoEdit /\ c # None
    BY <1>0, EditsAssumption
  <2> QED
    BY <1>0, <2>1 DEF NoEdit, Holding, Mode, Checked, Snapshot
<1>4. ASSUME NEW c \in Writers PROVE Statement(c)
  <2>1. rec[c] = NoRec /\ c # None
    BY <1>0, EditsAssumption
  <2> QED
    BY <1>0, <2>1 DEF NoRec, Statement
<1> QED
  BY <1>0, <1>2, <1>3, <1>4 DEF Inv, ForeignKeysKept

-----------------------------------------------------------------------------
(* What the invariant says of the requests that a step is not about. *)

Good(c) == Holding(c) /\ Mode(c) /\ Checked(c) /\ Snapshot(c)

\* One edit is under way at most: it has the connection.
LEMMA OthersIdle ==
  ASSUME Inv, NEW c \in Editors, edit[c].pc # "idle"
  PROVE  holder = c /\ c # None /\ \A d \in Editors \ {c} : edit[d] = NoEdit /\ writer # d
<1>1. holder = c
  BY DEF Inv, Holding
<1>2. \A d \in Editors \ {c} : edit[d].pc = "idle"
  BY <1>1 DEF Inv, Holding
<1> QED
  BY <1>1, <1>2, EditsAssumption DEF Inv, Holding, Snapshot

\* An edit that is not under way satisfies what the invariant says of it.
LEMMA IdleGood ==
  ASSUME NEW c \in Editors, edit'[c] = NoEdit, holder' # c, writer' # c
  PROVE  Good(c)'
BY DEF Good, Holding, Mode, Checked, Snapshot, NoEdit

\* What the invariant says of an edit depends on the table, the lock and the edit alone.
LEMMA SameGood ==
  ASSUME Inv, NEW c \in Editors, edit'[c] = edit[c], holder' = c <=> holder = c,
         fk' = fk, asked' = asked, writer' = c <=> writer = c, table' = table
  PROVE  Good(c)'
<1> SUFFICES ASSUME Good(c) PROVE Good(c)'
  BY DEF Inv, Good
<1>1. Base(c)' = Base(c) /\ Renames(c)' = Renames(c) /\ HasBase(c)' = HasBase(c) /\ New(c)' = New(c)
  BY DEF Base, Renames, HasBase, New
<1>2. Snapshot(c)'
  BY <1>1 DEF Good, Snapshot
<1> QED
  BY <1>2 DEF Good, Holding, Mode, Checked

\* So it does for a data request.
LEMMA SameStatement ==
  ASSUME Inv, NEW c \in Writers, rec'[c] = rec[c], writer' = c <=> writer = c, table' = table
  PROVE  Statement(c)'
<1> SUFFICES ASSUME Statement(c) PROVE Statement(c)'
  BY DEF Inv
<1>1. Fitting(c)' = Fitting(c)
  BY DEF Fitting
<1> QED
  BY <1>1 DEF Statement

EditOf(c) == edit' \in [Editors -> EditState] /\ \A d \in Editors \ {c} : edit'[d] = edit[d]
RecOf(c)  == rec' \in [Writers -> RecState] /\ \A d \in Writers \ {c} : rec'[d] = rec[d]

\* A step of one edit that commits nothing.
LEMMA EditFrame ==
  ASSUME Inv, NEW c \in Editors, edit[c].pc # "idle",
         EditOf(c),
         table' = table, rec' = rec, changes' = changes, asked' = asked, fk' \in BOOLEAN,
         writer' \in {writer, c, None}, writer \in {None, c} \/ writer' = writer,
         holder' \in {c, None}, holder' = None => fk' = asked,
         Good(c)'
  PROVE  Inv'
<1>1. Types'
  BY EditsAssumption DEF Inv, Types, EditOf
<1>2. ForeignKeysKept'
  BY DEF ForeignKeysKept
<1>3. ASSUME NEW d \in Editors PROVE Good(d)'
  <2>1. CASE d = c
    BY <2>1
  <2>2. CASE d # c
    <3>1. edit[d] = NoEdit /\ writer # d /\ d # None
      BY <2>2, OthersIdle, EditsAssumption
    <3>2. edit'[d] = NoEdit /\ writer' # d /\ holder' # d
      BY <2>2, <3>1 DEF EditOf
    <3> QED
      BY <3>2, IdleGood
  <2> QED
    BY <2>1, <2>2
<1>4. ASSUME NEW d \in Writers PROVE Statement(d)'
  <2>1. d # c /\ d # None
    BY EditsAssumption
  <2> QED
    BY <2>1, SameStatement
<1> QED
  BY <1>1, <1>2, <1>3, <1>4 DEF Inv, Good

\* A step of a data request that commits nothing.
LEMMA RecFrame ==
  ASSUME Inv, NEW c \in Writers, RecOf(c),
         table' = table, edit' = edit, changes' = changes, asked' = asked, fk' = fk, holder' = holder,
         writer' \in {writer, c, None}, writer \in {None, c} \/ writer' = writer,
         Statement(c)'
  PROVE  Inv'
<1>1. Types'
  BY DEF Inv, Types, RecOf
<1>2. ForeignKeysKept'
  BY DEF Inv, ForeignKeysKept
<1>3. ASSUME NEW d \in Editors PROVE Good(d)'
  <2>1. d # c /\ d # None
    BY EditsAssumption
  <2> QED
    BY <2>1, SameGood
<1>4. ASSUME NEW d \in Writers PROVE Statement(d)'
  <2>1. CASE d = c
    BY <2>1
  <2>2. CASE d # c
    <3>1. rec'[d] = rec[d] /\ d # None
      BY <2>2, EditsAssumption DEF RecOf
    <3> QED
      BY <2>2, <3>1, SameStatement
  <2> QED
    BY <2>1, <2>2
<1> QED
  BY <1>1, <1>2, <1>3, <1>4 DEF Inv, Good

\* A commit, or a statement that commits by itself: every other snapshot is
\* stale then, and no one else has written.
LEMMA StaleStatement ==
  ASSUME Inv, NEW c \in Writers, writer # c, writer' # c, rec'[c] = Outdated(rec)[c]
  PROVE  Statement(c)' /\ rec'[c] \in RecState
<1>1. rec[c] \in RecState /\ DOMAIN rec = Writers /\ Statement(c)
  BY DEF Inv, Types
<1>2. rec[c].pc \in {"idle", "mutate"}
  BY <1>1 DEF Statement, RecState
<1>3. CASE rec[c].pc = "idle"
  <2>1. rec'[c] = NoRec
    BY <1>1, <1>3 DEF Statement, Outdated, NoRec
  <2> QED
    BY <2>1 DEF Statement, NoRec, RecState
<1>4. CASE rec[c].pc = "mutate"
  <2>1. rec[c].work # None
    BY <1>1, <1>4, EditsAssumption DEF Statement, Fitting
  <2>2. rec'[c] = [rec[c] EXCEPT !.work = Stale]
    BY <1>1, <2>1 DEF Outdated
  <2>3. rec'[c].pc = "mutate" /\ rec'[c].work = Stale /\ rec'[c].method = rec[c].method
    BY <1>1, <1>4, <2>2 DEF RecState
  <2>4. rec'[c] \in RecState
    BY <1>1, <2>2 DEF RecState
  <2> QED
    BY <1>1, <1>4, <2>3, <2>4 DEF Statement
<1> QED
  BY <1>2, <1>3, <1>4

\* A commit of someone else leaves an edit with a stale snapshot or none.
LEMMA StaleGood ==
  ASSUME Inv, NEW c \in Editors, writer # c, writer' # c, edit'[c] = Outdated(edit)[c],
         holder' = holder, fk' = fk, asked' = asked
  PROVE  Good(c)' /\ edit'[c] \in EditState
<1>1. edit[c] \in EditState /\ DOMAIN edit = Editors /\ Good(c)
  BY DEF Inv, Types, Good
<1>2. CASE edit[c].work = None
  <2>1. edit'[c] = edit[c]
    BY <1>1, <1>2 DEF Outdated
  <2>2. edit[c].pc \notin {"rebuild", "objects", "commit"} /\ (edit[c].pc = "reload" => ~Renames(c))
    BY <1>1, <1>2, EditsAssumption DEF Good, Snapshot, Base, HasBase
  <2>3. Renames(c)' = Renames(c)
    BY <2>1 DEF Renames
  <2>4. Snapshot(c)'
    BY <1>1, <2>1, <2>2, <2>3 DEF Good, Snapshot
  <2> QED
    BY <1>1, <2>1, <2>4 DEF Good, Holding, Mode, Checked
<1>3. CASE edit[c].work # None
  <2>1. edit'[c] = [edit[c] EXCEPT !.work = Stale]
    BY <1>1, <1>3 DEF Outdated
  <2>2. edit[c].pc \in {"rebuild", "rollback"} /\ (edit[c].pc = "rebuild" => ~Renames(c))
    BY <1>1, <1>3 DEF Good, Snapshot, EditState, Steps
  <2>3. /\ edit'[c].work = Stale /\ edit'[c].pc = edit[c].pc /\ edit'[c].fk = edit[c].fk
        /\ edit'[c].req = edit[c].req /\ edit'[c].cols = edit[c].cols
    BY <1>1, <2>1 DEF EditState
  <2>4. edit'[c] \in EditState
    BY <1>1, <2>1 DEF EditState
  <2>5. Renames(c)' = Renames(c)
    BY <2>3 DEF Renames
  <2>6. Snapshot(c)'
    BY <1>1, <2>2, <2>3, <2>5 DEF Good, Snapshot
  <2>7. Holding(c)' /\ Mode(c)' /\ Checked(c)'
    BY <1>1, <2>2, <2>3 DEF Good, Holding, Mode, Checked
  <2> QED
    BY <2>4, <2>6, <2>7 DEF Good
<1> QED
  BY <1>2, <1>3

\* A statement that commits by itself leaves no snapshot but stale ones.
LEMMA SchemaFrame ==
  ASSUME Inv, NEW t \in SoundTable \cup {None}, ChangeSchema(t)
  PROVE  Inv'
<1>1. /\ writer = None /\ writer' = None /\ table' = t /\ changes' = changes + 1 /\ changes < MaxSchema
      /\ edit' = Outdated(edit) /\ rec' = Outdated(rec)
      /\ holder' = holder /\ fk' = fk /\ asked' = asked
  BY DEF ChangeSchema
<1>2. ASSUME NEW c \in Editors PROVE Good(c)' /\ edit'[c] \in EditState
  <2>1. c # None
    BY EditsAssumption
  <2> QED
    BY <1>1, <2>1, StaleGood
<1>3. ASSUME NEW c \in Writers PROVE Statement(c)' /\ rec'[c] \in RecState
  <2>1. c # None
    BY EditsAssumption
  <2> QED
    BY <1>1, <2>1, StaleStatement
<1>4. Types'
  <2>1. edit' \in [Editors -> EditState] /\ rec' \in [Writers -> RecState]
    BY <1>1, <1>2, <1>3 DEF Inv, Types, Outdated
  <2>2. changes' \in 0 .. MaxSchema
    BY <1>1, EditsAssumption DEF Inv, Types
  <2> QED
    BY <1>1, <2>1, <2>2 DEF Inv, Types
<1>5. ForeignKeysKept'
  BY <1>1 DEF Inv, ForeignKeysKept
<1> QED
  BY <1>2, <1>3, <1>4, <1>5 DEF Inv, Good

-----------------------------------------------------------------------------
(* One lemma per group of actions. *)

LEMMA EditTypes ==
  ASSUME Inv, NEW c \in Editors
  PROVE  /\ edit[c] \in EditState /\ Good(c) /\ table \in SoundTable \cup {None}
         /\ writer \in Editors \cup Writers \cup {None} /\ c # None
         /\ \A d : [edit EXCEPT ![c] = d][c] = d
  BY EditsAssumption DEF Inv, Types, Good

LEMMA AcquireInv ==
  ASSUME Inv, NEW c \in Editors, NEW req \in EditRequest, Acquire(c, req)
  PROVE  Inv'
<1> DEFINE e == [NoEdit EXCEPT !.pc = "read", !.req = req]
<1>1. /\ edit[c] = NoEdit /\ holder = None /\ holder' = c /\ edit' = [edit EXCEPT ![c] = e]
      /\ UNCHANGED <<table, writer, fk, asked, rec, changes>>
  BY DEF Acquire
<1>2. NoEdit \in EditState /\ NoEdit.work = None /\ NoEdit.fk = FALSE
  BY DEF NoEdit, EditState, Steps
<1>3. /\ e \in EditState /\ e.pc = "read" /\ e.req = req /\ e.work = None /\ e.fk = FALSE
  BY <1>2 DEF EditState, Steps
<1> HIDE DEF e
<1>4. /\ edit' \in [Editors -> EditState] /\ edit'[c] = e
      /\ \A d \in Editors \ {c} : edit'[d] = edit[d]
  BY <1>1, <1>3 DEF Inv, Types
<1>5. writer # c /\ c # None
  <2>1. edit[c].pc = "idle"
    BY <1>1 DEF NoEdit
  <2> QED
    BY <2>1, EditsAssumption DEF Inv, Snapshot
<1>6. Good(c)'
  <2>1. Holding(c)' /\ Checked(c)' /\ Snapshot(c)'
    BY <1>1, <1>3, <1>4, <1>5 DEF Holding, Checked, Snapshot
  <2>2. Mode(c)'
    BY <1>1, <1>3, <1>4 DEF Inv, ForeignKeysKept, Mode
  <2> QED
    BY <2>1, <2>2 DEF Good
<1>7. ASSUME NEW d \in Editors PROVE Good(d)'
  <2>1. CASE d = c
    BY <1>6, <2>1
  <2>2. CASE d # c
    <3>1. d # None
      BY EditsAssumption
    <3>2. edit[d].pc = "idle"
      BY <1>1, <3>1 DEF Inv, Holding
    <3>3. edit[d] = NoEdit /\ writer # d
      BY <3>2 DEF Inv, Holding, Snapshot
    <3>4. edit'[d] = NoEdit /\ writer' # d /\ holder' # d
      BY <1>1, <1>4, <2>2, <3>3
    <3> QED
      BY <3>4, IdleGood
  <2> QED
    BY <2>1, <2>2
<1>8. ASSUME NEW d \in Writers PROVE Statement(d)'
  BY <1>1, SameStatement
<1>9. Types' /\ ForeignKeysKept'
  BY <1>1, <1>4, <1>5 DEF Inv, Types, ForeignKeysKept
<1> QED
  BY <1>7, <1>8, <1>9 DEF Inv, Good

LEMMA LoadColumnsInv ==
  ASSUME Inv, NEW c \in Editors, LoadColumns(c)
  PROVE  Inv'
<1> DEFINE e == [edit[c] EXCEPT !.pc = "validate", !.cols = table.cols]
           req == edit[c].req
<1>0. edit[c] \in EditState /\ Good(c) /\ table \in SoundTable \cup {None}
  BY EditTypes
<1>1. /\ edit[c].pc = "read" /\ table # None /\ req.column \in DOMAIN table.cols
      /\ req.name \notin DOMAIN table.cols \ {req.column}
      /\ edit' = [edit EXCEPT ![c] = e]
      /\ UNCHANGED <<table, writer, holder, fk, asked, rec, changes>>
  BY DEF LoadColumns
<1>2. table.cols \in Columns
  <2>1. table \in Table
    BY <1>0, <1>1 DEF SoundTable
  <2>2. table.cols \in [DOMAIN table.cols -> BOOLEAN] /\ DOMAIN table.cols \in SUBSET Names
    BY <2>1, TableFields
  <2> HIDE DEF req
  <2> QED
    BY <2>2 DEF Columns
<1>3. EditOf(c) /\ edit'[c] = e
  BY <1>0, <1>1, <1>2 DEF EditState, Steps, Inv, Types, EditOf
<1>4. /\ e.pc = "validate" /\ e.cols = table.cols /\ e.req = req /\ e.fk = edit[c].fk /\ e.work = edit[c].work
  BY <1>0 DEF EditState
<1> HIDE DEF e
<1>6. Good(c)'
  BY <1>0, <1>1, <1>3, <1>4 DEF Good, Holding, Mode, Checked, Snapshot, Steps
<1>7. holder = c /\ c # None
  BY <1>1, OthersIdle
<1> QED
  BY <1>1, <1>3, <1>6, <1>7, EditFrame DEF Inv, Types

LEMMA CheckInv ==
  ASSUME Inv, NEW c \in Editors, Validate(c) \/ CountNulls(c)
  PROVE  Inv'
<1> DEFINE pc == IF edit[c].pc = "validate" THEN "nulls" ELSE "mode"
           e == [edit[c] EXCEPT !.pc = pc]
<1>0. edit[c] \in EditState /\ Good(c)
  BY EditTypes
<1>1. /\ edit[c].pc \in {"validate", "nulls"} /\ edit' = [edit EXCEPT ![c] = e]
      /\ UNCHANGED <<table, writer, holder, fk, asked, rec, changes>>
  BY DEF Validate, CountNulls, Advance
<1>2. EditOf(c) /\ edit'[c] = e
  BY <1>0, <1>1 DEF EditState, Steps, Inv, Types, EditOf
<1>3. /\ e.pc \in {"nulls", "mode"} /\ e.cols = edit[c].cols /\ e.req = edit[c].req
      /\ e.fk = edit[c].fk /\ e.work = edit[c].work
  BY <1>0 DEF EditState
<1> HIDE DEF e, pc
<1>4. Good(c)'
  BY <1>0, <1>1, <1>2, <1>3 DEF Good, Holding, Mode, Checked, Snapshot, Steps
<1>5. holder = c /\ c # None
  BY <1>1, OthersIdle
<1> QED
  BY <1>1, <1>2, <1>4, <1>5, EditFrame DEF Inv, Types

LEMMA DisableForeignKeysInv ==
  ASSUME Inv, NEW c \in Editors, DisableForeignKeys(c)
  PROVE  Inv'
<1> DEFINE e == [edit[c] EXCEPT !.pc = "rename", !.fk = fk]
<1>0. edit[c] \in EditState /\ Good(c)
  BY EditTypes
<1>1. /\ edit[c].pc = "mode" /\ edit' = [edit EXCEPT ![c] = e] /\ fk' = FALSE
      /\ UNCHANGED <<table, writer, holder, asked, rec, changes>>
  BY DEF DisableForeignKeys
<1>2. EditOf(c) /\ edit'[c] = e
  BY <1>0, <1>1 DEF EditState, Steps, Inv, Types, EditOf
<1>3. /\ e.pc = "rename" /\ e.cols = edit[c].cols /\ e.req = edit[c].req
      /\ e.fk = fk /\ e.work = edit[c].work
  BY <1>0 DEF EditState
<1> HIDE DEF e
<1>4. Holding(c)' /\ Checked(c)' /\ Snapshot(c)'
  BY <1>0, <1>1, <1>2, <1>3 DEF Good, Holding, Checked, Snapshot, Steps
<1>5. Mode(c)'
  BY <1>0, <1>1, <1>2, <1>3 DEF Good, Mode
<1>6. holder = c /\ c # None
  BY <1>1, OthersIdle
<1> QED
  BY <1>1, <1>2, <1>4, <1>5, <1>6, EditFrame DEF Inv, Types, Good

LEMMA RenameInv ==
  ASSUME Inv, NEW c \in Editors, Rename(c)
  PROVE  Inv'
<1> DEFINE req == edit[c].req
           work == IF Renames(c) THEN Renamed(table, req.column, req.name) ELSE edit[c].work
           e == [edit[c] EXCEPT !.pc = "reload", !.work = work]
<1>0. edit[c] \in EditState /\ Good(c) /\ table \in SoundTable \cup {None}
  BY EditTypes
<1>1. /\ edit[c].pc = "rename"
      /\ UNCHANGED <<table, holder, fk, asked, rec, changes>>
  BY DEF Rename
<1>2. edit[c].work = None /\ writer # c /\ req \in EditRequest /\ req.name \in Names /\ holder = c /\ c # None
  BY <1>0, <1>1, OthersIdle DEF Good, Snapshot, Checked, Steps, EditRequest
<1>3. /\ edit' = [edit EXCEPT ![c] = e]
      /\ IF Renames(c) THEN HasBase(c) /\ writer = None /\ writer' = c ELSE writer' = writer
  <2>1. CASE req.name = req.column
    BY <1>0, <2>1 DEF Rename, Advance, Renames, EditState
  <2>2. CASE req.name # req.column
    <3>1. HasBase(c) /\ writer = None /\ writer' = c
      BY <1>2, <2>2 DEF Rename, HasBase, Write
    <3> QED
      BY <2>2, <3>1 DEF Rename, Renames
  <2> QED
    BY <2>1, <2>2
<1>4. work \in Table \cup {None, Stale}
  <2>1. CASE Renames(c)
    <3>1. table \in Table /\ req.column \in DOMAIN table.cols /\ req.name \notin DOMAIN table.cols
      BY <1>0, <1>3, <2>1 DEF HasBase, SoundTable
    <3> QED
      BY <1>2, <2>1, <3>1, RenamedTable
  <2>2. CASE ~Renames(c)
    BY <1>2, <2>2
  <2> QED
    BY <2>1, <2>2
<1> HIDE DEF work
<1>5. EditOf(c) /\ edit'[c] = e
  BY <1>0, <1>3, <1>4 DEF EditState, Steps, Inv, Types, EditOf
<1>6. /\ e.pc = "reload" /\ e.cols = edit[c].cols /\ e.req = edit[c].req
      /\ e.fk = edit[c].fk /\ e.work = work
  BY <1>0 DEF EditState
<1> HIDE DEF e
<1>7. Holding(c)' /\ Checked(c)' /\ Mode(c)'
  BY <1>0, <1>1, <1>5, <1>6 DEF Good, Holding, Checked, Mode, Steps
<1>8. Snapshot(c)'
  <2>1. Renames(c)' = Renames(c) /\ HasBase(c)' = HasBase(c)
    BY <1>1, <1>5, <1>6 DEF Renames, HasBase
  <2>2. CASE Renames(c)
    <3>1. Base(c)' = work
      BY <1>1, <1>5, <1>6, <2>1, <2>2 DEF Base, work, Renames
    <3> QED
      BY <1>3, <1>5, <1>6, <2>1, <2>2, <3>1 DEF Snapshot
  <2>3. CASE ~Renames(c)
    <3>1. work = None
      BY <1>2, <2>3 DEF work
    <3> QED
      BY <1>2, <1>3, <1>5, <1>6, <2>1, <2>3, <3>1 DEF Snapshot
  <2> QED
    BY <2>2, <2>3
<1>9. writer' \in {writer, c, None} /\ (writer \in {None, c} \/ writer' = writer)
  BY <1>3
<1> QED
  BY <1>1, <1>2, <1>3, <1>5, <1>7, <1>8, <1>9, EditFrame DEF Inv, Types, Good

LEMMA ReloadInv ==
  ASSUME Inv, NEW c \in Editors, Reload(c)
  PROVE  Inv'
<1> DEFINE seen == IF writer = c THEN edit[c].work ELSE table
           e == [edit[c] EXCEPT !.pc = "rebuild", !.work = seen, !.objs = seen.objs]
<1>0. edit[c] \in EditState /\ Good(c) /\ table \in SoundTable \cup {None} /\ c # None
  BY EditTypes
<1>1. /\ edit[c].pc = "reload" /\ seen # None /\ edit' = [edit EXCEPT ![c] = e]
      /\ UNCHANGED <<table, writer, holder, fk, asked, rec, changes>>
  BY DEF Reload
<1>2. seen = Base(c) /\ HasBase(c) /\ (IF Renames(c) THEN writer = c ELSE writer # c)
  BY <1>0, <1>1 DEF Good, Snapshot, Base, HasBase
<1>3. edit[c].req \in EditRequest /\ edit[c].req.name \in Names /\ holder = c /\ c # None
  BY <1>0, <1>1, OthersIdle DEF Good, Checked, Steps, EditRequest
<1>4. seen \in Table
  <2>1. table \in Table
    BY <1>0, <1>2 DEF HasBase, SoundTable
  <2> QED
    BY <1>2, <1>3, <2>1, RenamedTable DEF Base, HasBase
<1> HIDE DEF seen
<1>5. seen.objs \in Indexes
  <2>1. /\ seen.objs \in [DOMAIN seen.objs -> DOMAIN seen.cols]
        /\ DOMAIN seen.objs \in SUBSET Objects /\ DOMAIN seen.cols \in SUBSET Names
    BY <1>4, TableFields
  <2>2. seen.objs \in [DOMAIN seen.objs -> Names]
    BY <2>1
  <2> QED
    BY <2>1, <2>2 DEF Indexes
<1>6. EditOf(c) /\ edit'[c] = e
  BY <1>0, <1>1, <1>4, <1>5 DEF EditState, Steps, Inv, Types, EditOf
<1>7. /\ e.pc = "rebuild" /\ e.cols = edit[c].cols /\ e.req = edit[c].req
      /\ e.fk = edit[c].fk /\ e.work = seen /\ e.objs = seen.objs
  BY <1>0 DEF EditState
<1> HIDE DEF e
<1>8. Holding(c)' /\ Checked(c)' /\ Mode(c)'
  BY <1>0, <1>1, <1>6, <1>7 DEF Good, Holding, Checked, Mode, Steps
<1>9. Snapshot(c)'
  <2>1. Renames(c)' = Renames(c) /\ HasBase(c)' = HasBase(c) /\ Base(c)' = Base(c)
    BY <1>1, <1>6, <1>7 DEF Renames, HasBase, Base
  <2> QED
    BY <1>1, <1>2, <1>6, <1>7, <2>1 DEF Snapshot
<1> QED
  BY <1>1, <1>3, <1>6, <1>8, <1>9, EditFrame DEF Inv, Types, Good

\* What an edit rebuilds, and what it makes of it.
LEMMA BaseTable ==
  ASSUME Inv, NEW c \in Editors, edit[c].req \in EditRequest, HasBase(c)
  PROVE  /\ table \in Table /\ Sound(table) /\ Base(c) \in Table /\ New(c) \in Table
         /\ DOMAIN New(c).cols = DOMAIN Base(c).cols
<1>1. table \in Table /\ Sound(table)
  BY DEF HasBase, Inv, Types, SoundTable
<1>2. edit[c].req.name \in Names
  BY DEF EditRequest
<1>3. Base(c) \in Table
  BY <1>1, <1>2, RenamedTable DEF Base, HasBase
<1> QED
  BY <1>1, <1>3, RebuiltTable DEF New

\* The table that an edit rebuilds depends on the committed table and the request alone.
LEMMA SameBase ==
  ASSUME NEW c \in Editors, table' = table, edit'[c].req = edit[c].req
  PROVE  /\ Renames(c)' = Renames(c) /\ HasBase(c)' = HasBase(c)
         /\ Base(c)' = Base(c) /\ New(c)' = New(c)
BY DEF Renames, HasBase, Base, New

\* The rebuilt table is a function of the last committed one.
LEMMA RebuildInv ==
  ASSUME Inv, NEW c \in Editors, Rebuild(c)
  PROVE  Inv'
<1> DEFINE new == Rebuilt(edit[c].work, edit[c].req.name, edit[c].req)
           e == [edit[c] EXCEPT !.pc = "objects", !.work = new]
<1>0. edit[c] \in EditState /\ Good(c)
  BY EditTypes
<1>1. /\ edit[c].pc = "rebuild" /\ Write(c, edit[c].work) /\ Sound(new)
      /\ edit' = [edit EXCEPT ![c] = e]
      /\ UNCHANGED <<table, holder, fk, asked, rec, changes>>
  BY DEF Rebuild
<1>2. /\ HasBase(c) /\ edit[c].work = Base(c) /\ edit[c].objs = Base(c).objs
      /\ writer \in {c, None} /\ writer' = c
  BY <1>0, <1>1 DEF Good, Snapshot, Write
<1>3. edit[c].req \in EditRequest /\ holder = c /\ c # None
  BY <1>0, <1>1, OthersIdle DEF Good, Checked, Steps
<1>4. new = New(c) /\ new \in Table
  BY <1>2, <1>3, BaseTable DEF New
<1> HIDE DEF new
<1>5. EditOf(c) /\ edit'[c] = e
  BY <1>0, <1>1, <1>4 DEF EditState, Steps, Inv, Types, EditOf
<1>6. /\ e.pc = "objects" /\ e.cols = edit[c].cols /\ e.req = edit[c].req
      /\ e.fk = edit[c].fk /\ e.work = new /\ e.objs = edit[c].objs
  BY <1>0 DEF EditState
<1> HIDE DEF e
<1>7. Holding(c)' /\ Checked(c)' /\ Mode(c)'
  BY <1>0, <1>1, <1>5, <1>6 DEF Good, Holding, Checked, Mode, Steps
<1>8. Snapshot(c)'
  <2>1. HasBase(c)' /\ Base(c)' = Base(c) /\ New(c)' = New(c)
    BY <1>1, <1>2, <1>5, <1>6, SameBase
  <2> QED
    BY <1>1, <1>2, <1>4, <1>5, <1>6, <2>1 DEF Snapshot
<1> QED
  BY <1>1, <1>2, <1>3, <1>5, <1>7, <1>8, EditFrame DEF Inv, Types, Good

LEMMA RecreateInv ==
  ASSUME Inv, NEW c \in Editors, Recreate(c)
  PROVE  Inv'
<1> DEFINE work == [edit[c].work EXCEPT !.objs = edit[c].objs]
           e == [edit[c] EXCEPT !.pc = "commit", !.work = work]
<1>0. edit[c] \in EditState /\ Good(c)
  BY EditTypes
<1>1. /\ edit[c].pc = "objects"
      /\ UNCHANGED <<table, writer, holder, fk, asked, rec, changes>>
  BY DEF Recreate
<1>2. /\ HasBase(c) /\ Sound(New(c)) /\ writer = c
      /\ edit[c].work = New(c) /\ edit[c].objs = Base(c).objs
  BY <1>0, <1>1 DEF Good, Snapshot
<1>3. edit[c].req \in EditRequest /\ holder = c /\ c # None
  BY <1>0, <1>1, OthersIdle DEF Good, Checked, Steps
<1>4. Base(c) \in Table /\ New(c) \in Table /\ DOMAIN New(c).cols = DOMAIN Base(c).cols
  BY <1>2, <1>3, BaseTable
<1>5. edit' = [edit EXCEPT ![c] = e]
  BY <1>0 DEF Recreate, EditState, Inv, Types
<1>6. work \in Table
  BY <1>2, <1>4, TableFields, ObjectsTable
<1>7. work = [New(c) EXCEPT !.objs = Base(c).objs]
  BY <1>2
<1> HIDE DEF work
<1>8. EditOf(c) /\ edit'[c] = e
  BY <1>0, <1>5, <1>6 DEF EditState, Steps, Inv, Types, EditOf
<1>9. /\ e.pc = "commit" /\ e.cols = edit[c].cols /\ e.req = edit[c].req
      /\ e.fk = edit[c].fk /\ e.work = work /\ e.objs = edit[c].objs
  BY <1>0 DEF EditState
<1> HIDE DEF e
<1>10. Holding(c)' /\ Checked(c)' /\ Mode(c)'
  BY <1>0, <1>1, <1>8, <1>9 DEF Good, Holding, Checked, Mode, Steps
<1>11. Snapshot(c)'
  <2>1. HasBase(c)' /\ Base(c)' = Base(c) /\ New(c)' = New(c)
    BY <1>1, <1>2, <1>8, <1>9, SameBase
  <2> QED
    BY <1>1, <1>2, <1>7, <1>8, <1>9, <2>1 DEF Snapshot
<1> QED
  BY <1>1, <1>3, <1>8, <1>10, <1>11, EditFrame DEF Inv, Types, Good

\* What is left of an edit that ends.
LEMMA EndingFields ==
  ASSUME NEW c, NEW pc, NEW work
  PROVE  /\ Ending(c, pc, work).pc = pc /\ Ending(c, pc, work).work = work
         /\ Ending(c, pc, work).fk = edit[c].fk /\ Ending(c, pc, work).req = None
         /\ (pc \in Steps /\ work \in Table \cup {None, Stale} /\ edit[c].fk \in BOOLEAN
               => Ending(c, pc, work) \in EditState)
<1>1. NoEdit \in [pc: {"idle"}, req: {None}, cols: {None}, objs: {None}, fk: {FALSE}, work: {None}]
  BY DEF NoEdit
<1>2. Ending(c, pc, work) \in
        [pc: {pc}, req: {None}, cols: {None}, objs: {None}, fk: {edit[c].fk}, work: {work}]
  BY <1>1 DEF Ending
<1> QED
  BY <1>2 DEF EditState

LEMMA EditFailsInv ==
  ASSUME Inv, NEW c \in Editors, EditFails(c)
  PROVE  Inv'
<1> DEFINE e == Ending(c, "rollback", edit[c].work)
<1>0. edit[c] \in EditState /\ Good(c)
  BY EditTypes
<1>1. /\ edit[c].pc \notin {"idle", "rollback", "restore"} /\ edit' = [edit EXCEPT ![c] = e]
      /\ UNCHANGED <<table, writer, holder, fk, asked, rec, changes>>
  BY DEF EditFails
<1>2. holder = c /\ c # None
  BY <1>1, OthersIdle
<1>3. /\ e \in EditState /\ e.pc = "rollback" /\ e.fk = edit[c].fk /\ e.work = edit[c].work
  BY <1>0, EndingFields DEF EditState, Steps
<1> HIDE DEF e
<1>4. EditOf(c) /\ edit'[c] = e
  BY <1>1, <1>3 DEF Inv, Types, EditOf
<1>5. Good(c)'
  BY <1>0, <1>1, <1>2, <1>3, <1>4 DEF Good, Holding, Checked, Mode, Steps, Snapshot
<1> QED
  BY <1>1, <1>2, <1>4, <1>5, EditFrame DEF Inv, Types

LEMMA RollbackEditInv ==
  ASSUME Inv, NEW c \in Editors, RollbackEdit(c)
  PROVE  Inv'
<1> DEFINE e == [edit[c] EXCEPT !.pc = "restore", !.work = None]
<1>0. edit[c] \in EditState /\ Good(c)
  BY EditTypes
<1>1. /\ edit[c].pc = "rollback" /\ edit' = [edit EXCEPT ![c] = e]
      /\ writer' = (IF writer = c THEN None ELSE writer)
      /\ UNCHANGED <<table, holder, fk, asked, rec, changes>>
  BY DEF RollbackEdit, Unlock
<1>2. holder = c /\ c # None
  BY <1>1, OthersIdle
<1>3. EditOf(c) /\ edit'[c] = e
  BY <1>0, <1>1 DEF EditState, Steps, Inv, Types, EditOf
<1>4. e.pc = "restore" /\ e.fk = edit[c].fk /\ e.work = None
  BY <1>0 DEF EditState
<1> HIDE DEF e
<1>5. Good(c)'
  BY <1>0, <1>1, <1>2, <1>3, <1>4 DEF Good, Holding, Checked, Mode, Steps, Snapshot
<1>6. writer' \in {writer, c, None} /\ (writer \in {None, c} \/ writer' = writer)
  BY <1>1
<1> QED
  BY <1>1, <1>2, <1>3, <1>5, <1>6, EditFrame DEF Inv, Types

LEMMA RestoreForeignKeysInv ==
  ASSUME Inv, NEW c \in Editors, RestoreForeignKeys(c)
  PROVE  Inv'
<1>0. edit[c] \in EditState /\ Good(c)
  BY EditTypes
<1>1. /\ edit[c].pc = "restore" /\ fk' = (fk \/ (edit[c].fk /\ edit[c].work = None)) /\ holder' = None
      /\ edit' = [edit EXCEPT ![c] = NoEdit]
      /\ UNCHANGED <<table, writer, asked, rec, changes>>
  BY DEF RestoreForeignKeys
<1>2. holder = c /\ c # None
  BY <1>1, OthersIdle
<1>3. edit[c].work = None /\ writer # c
  BY <1>0, <1>1 DEF Good, Snapshot
<1>4. NoEdit \in EditState
  BY DEF NoEdit, EditState, Steps
<1>5. EditOf(c) /\ edit'[c] = NoEdit
  BY <1>1, <1>4 DEF Inv, Types, EditOf
<1>6. Good(c)'
  BY <1>1, <1>2, <1>3, <1>5, IdleGood
<1>7. fk' \in BOOLEAN /\ fk' = asked
  <2>1. fk \in BOOLEAN /\ asked \in BOOLEAN /\ edit[c].fk \in BOOLEAN
    BY <1>0 DEF Inv, Types, EditState
  <2>2. fk \/ edit[c].fk <=> asked
    BY <1>0, <1>2 DEF Good, Mode
  <2> QED
    BY <1>1, <1>3, <2>1, <2>2
<1> QED
  BY <1>1, <1>5, <1>6, <1>7, EditFrame

\* The commit makes every other snapshot stale.
LEMMA CommitInv ==
  ASSUME Inv, NEW c \in Editors, Commit(c)
  PROVE  Inv'
<1> DEFINE e == Ending(c, "restore", None)
<1>0. edit[c] \in EditState /\ Good(c)
  BY EditTypes
<1>1. /\ edit[c].pc = "commit" /\ table' = edit[c].work
      /\ writer' = (IF writer = c THEN None ELSE writer)
      /\ edit' = [Outdated(edit) EXCEPT ![c] = e] /\ rec' = Outdated(rec)
      /\ UNCHANGED <<holder, fk, asked, changes>>
  BY DEF Commit, Unlock
<1>2. holder = c /\ c # None /\ \A d \in Editors \ {c} : edit[d] = NoEdit /\ writer # d
  BY <1>1, OthersIdle
<1>3. writer = c /\ HasBase(c) /\ Sound(New(c)) /\ edit[c].work = [New(c) EXCEPT !.objs = Base(c).objs]
  BY <1>0, <1>1 DEF Good, Snapshot
<1>4. edit[c].req \in EditRequest
  BY <1>0, <1>1 DEF Good, Checked, Steps
<1>5. table' \in SoundTable
  <2>1. Base(c) \in Table /\ New(c) \in Table /\ DOMAIN New(c).cols = DOMAIN Base(c).cols
    BY <1>3, <1>4, BaseTable
  <2>2. /\ Base(c).objs \in [DOMAIN Base(c).objs -> DOMAIN New(c).cols]
        /\ DOMAIN Base(c).objs \in SUBSET Objects
    BY <2>1, TableFields
  <2>3. table' = [New(c) EXCEPT !.objs = Base(c).objs]
    BY <1>1, <1>3
  <2>4. table' \in Table /\ Sound(table')
    BY <1>3, <2>1, <2>2, <2>3, ObjectsTable
  <2> QED
    BY <2>4 DEF SoundTable
<1>6. /\ e \in EditState /\ e.pc = "restore" /\ e.fk = edit[c].fk /\ e.work = None
  BY <1>0, EndingFields DEF EditState, Steps
<1> HIDE DEF e
<1>7. edit'[c] = e /\ \A d \in Editors \ {c} : edit'[d] = NoEdit
  <2>1. DOMAIN edit = Editors /\ NoEdit.work = None
    BY DEF Inv, Types, NoEdit
  <2>2. \A d \in Editors \ {c} : Outdated(edit)[d] = NoEdit
    BY <1>2, <2>1 DEF Outdated
  <2>3. DOMAIN Outdated(edit) = Editors
    BY <2>1 DEF Outdated
  <2> QED
    BY <1>1, <2>2, <2>3
<1>8. edit' \in [Editors -> EditState]
  <2>1. \A d \in Editors : edit'[d] \in EditState
    BY <1>2, <1>6, <1>7 DEF Inv, Types
  <2>2. edit' = [d \in Editors |-> edit'[d]]
    BY <1>1 DEF Outdated, Inv, Types
  <2> QED
    BY <2>1, <2>2
<1>9. Good(c)'
  BY <1>0, <1>1, <1>2, <1>3, <1>6, <1>7 DEF Good, Holding, Checked, Mode, Steps, Snapshot
<1>10. ASSUME NEW d \in Editors PROVE Good(d)'
  BY <1>1, <1>2, <1>3, <1>7, <1>9, IdleGood, EditsAssumption
<1>11. ASSUME NEW d \in Writers PROVE Statement(d)' /\ rec'[d] \in RecState
  <2>1. writer # d /\ writer' # d
    BY <1>1, <1>3, EditsAssumption
  <2> QED
    BY <1>1, <2>1, StaleStatement
<1>12. rec' \in [Writers -> RecState]
  BY <1>1, <1>11 DEF Outdated, Inv, Types
<1>13. Types' /\ ForeignKeysKept'
  BY <1>1, <1>2, <1>3, <1>5, <1>8, <1>12 DEF Inv, Types, ForeignKeysKept
<1> QED
  BY <1>10, <1>11, <1>13 DEF Inv, Good

\* The snapshot of a data request is the committed table.
LEMMA LoadRecordsInv ==
  ASSUME Inv, NEW c \in Writers, NEW method \in Methods, NEW f \in Filter \cup {None},
         LoadRecords(c, method, f)
  PROVE  Inv'
<1> DEFINE r == [pc |-> "mutate", method |-> method, filter |-> f, work |-> table]
<1>1. /\ rec[c] = NoRec /\ table # None
      /\ IF method = "POST" THEN f = None
         ELSE f # None /\ f.column \in DOMAIN table.cols /\ Cardinality(Matched(table, f)) = 1
      /\ rec' = [rec EXCEPT ![c] = r]
      /\ UNCHANGED <<table, writer, edit, holder, fk, asked, changes>>
  BY DEF LoadRecords
<1>2. r \in RecState /\ table \in Table
  BY <1>1 DEF Inv, Types, SoundTable, RecState
<1>3. r.pc = "mutate" /\ r.method = method /\ r.filter = f /\ r.work = table
  OBVIOUS
<1> HIDE DEF r
<1>4. RecOf(c) /\ rec'[c] = r
  BY <1>1, <1>2 DEF Inv, Types, RecOf
<1>5. writer # c
  <2>1. rec[c].pc = "idle"
    BY <1>1 DEF NoRec
  <2> QED
    BY <2>1 DEF Inv, Statement
<1>6. Statement(c)'
  BY <1>1, <1>3, <1>4, <1>5 DEF Statement, Fitting
<1> QED
  BY <1>1, <1>4, <1>6, RecFrame

LEMMA MutateInv ==
  ASSUME Inv, NEW c \in Writers, Mutate(c)
  PROVE  Inv'
<1>0. rec[c] \in RecState /\ Statement(c) /\ c # None
  BY EditsAssumption DEF Inv, Types
<1>1. /\ rec[c].pc = "mutate" /\ Write(c, rec[c].work)
      /\ UNCHANGED <<table, edit, holder, fk, asked, changes>>
  BY DEF Mutate
<1>2. PICK o \in Outcomes(rec[c].work, rec[c].method, rec[c].filter, Field) :
        /\ Sound(o.new) /\ Cardinality(o.hit) = 1
        /\ rec' = [rec EXCEPT ![c].pc = "commit", ![c].work = o.new]
  BY DEF Mutate
<1>3. /\ writer \in {c, None} /\ writer' = c /\ Fitting(c) /\ rec[c].work = table /\ rec[c].method \in Methods
  BY <1>0, <1>1 DEF Statement, Write
<1>4. table \in Table
  BY <1>3 DEF Inv, Types, Fitting, SoundTable
<1>5. o.new \in Table
  BY <1>0, <1>2, <1>3, <1>4, OutcomeTable DEF Fitting, RecState
<1> DEFINE r == [rec[c] EXCEPT !.pc = "commit", !.work = o.new]
<1>6. RecOf(c) /\ rec'[c] = r
  BY <1>0, <1>2, <1>5 DEF Inv, Types, RecOf, RecState
<1>7. r.pc = "commit" /\ r.method = rec[c].method /\ r.filter = rec[c].filter /\ r.work = o.new
  BY <1>0 DEF RecState
<1> HIDE DEF r
<1>8. Fitting(c)'
  BY <1>1, <1>3, <1>6, <1>7 DEF Fitting
<1>9. Statement(c)'
  BY <1>1, <1>2, <1>3, <1>6, <1>7, <1>8 DEF Statement
<1> QED
  BY <1>1, <1>3, <1>6, <1>9, RecFrame

LEMMA RecordFailsInv ==
  ASSUME Inv, NEW c \in Writers, RecordFails(c)
  PROVE  Inv'
<1>1. /\ rec[c].pc # "idle" /\ rec' = [rec EXCEPT ![c] = NoRec]
      /\ writer' = (IF writer = c THEN None ELSE writer)
      /\ UNCHANGED <<table, edit, holder, fk, asked, changes>>
  BY DEF RecordFails, Unlock
<1>2. NoRec \in RecState /\ c # None /\ NoRec.pc = "idle"
  BY EditsAssumption DEF NoRec, RecState
<1>3. RecOf(c) /\ rec'[c] = NoRec
  BY <1>1, <1>2 DEF Inv, Types, RecOf
<1>4. Statement(c)'
  BY <1>1, <1>2, <1>3 DEF Statement
<1>5. writer' \in {writer, c, None} /\ (writer \in {None, c} \/ writer' = writer)
  BY <1>1
<1> QED
  BY <1>1, <1>3, <1>4, <1>5, RecFrame

\* The table that a data request commits.
LEMMA CommittedRecord ==
  ASSUME Inv, NEW c \in Writers, rec[c].pc = "commit"
  PROVE  /\ writer = c /\ Fitting(c) /\ table \in Table /\ rec[c].method \in Methods
         /\ \E o \in Outcomes(table, rec[c].method, rec[c].filter, Field) :
              /\ o.new \in SoundTable /\ o.new = [table EXCEPT !.rows = o.new.rows]
              /\ Cardinality(o.hit) = 1 /\ rec[c].work = o.new
<1>0. rec[c] \in RecState /\ Statement(c)
  BY DEF Inv, Types
<1>1. writer = c /\ Fitting(c) /\ rec[c].method \in Methods
  BY <1>0 DEF Statement
<1>2. table \in Table
  BY <1>1 DEF Fitting, Inv, Types, SoundTable
<1>3. PICK o \in Outcomes(table, rec[c].method, rec[c].filter, Field) :
        Sound(o.new) /\ Cardinality(o.hit) = 1 /\ rec[c].work = o.new
  BY <1>0 DEF Statement
<1>4. o.new \in Table /\ o.new = [table EXCEPT !.rows = o.new.rows]
  BY <1>0, <1>1, <1>2, OutcomeTable DEF Fitting, RecState
<1> QED
  BY <1>1, <1>2, <1>3, <1>4 DEF SoundTable

LEMMA CommitRecordInv ==
  ASSUME Inv, NEW c \in Writers, CommitRecord(c)
  PROVE  Inv'
<1>1. /\ rec[c].pc = "commit" /\ table' = rec[c].work
      /\ writer' = (IF writer = c THEN None ELSE writer)
      /\ rec' = [Outdated(rec) EXCEPT ![c] = NoRec] /\ edit' = Outdated(edit)
      /\ UNCHANGED <<holder, fk, asked, changes>>
  BY DEF CommitRecord, Unlock
<1>2. writer = c /\ writer' = None /\ table' \in SoundTable
  BY <1>1, CommittedRecord
<1>3. NoRec \in RecState /\ c # None /\ NoRec.pc = "idle"
  BY EditsAssumption DEF NoRec, RecState
<1>4. DOMAIN rec = Writers /\ DOMAIN Outdated(rec) = Writers
  BY DEF Inv, Types, Outdated
<1>5. rec'[c] = NoRec /\ \A d \in Writers \ {c} : rec'[d] = Outdated(rec)[d]
  BY <1>1, <1>4
<1>6. ASSUME NEW d \in Writers PROVE Statement(d)' /\ rec'[d] \in RecState
  <2>1. CASE d = c
    BY <1>2, <1>3, <1>5, <2>1 DEF Statement
  <2>2. CASE d # c
    <3>1. writer # d /\ writer' # d
      BY <1>2, <2>2, EditsAssumption
    <3> QED
      BY <1>5, <2>2, <3>1, StaleStatement
  <2> QED
    BY <2>1, <2>2
<1>7. ASSUME NEW d \in Editors PROVE Good(d)' /\ edit'[d] \in EditState
  <2>1. writer # d /\ writer' # d
    BY <1>2, EditsAssumption
  <2> QED
    BY <1>1, <2>1, StaleGood
<1>8. Types'
  <2>1. rec' \in [Writers -> RecState]
    BY <1>1, <1>4, <1>6
  <2>2. edit' \in [Editors -> EditState]
    BY <1>1, <1>7 DEF Inv, Types, Outdated
  <2> QED
    BY <1>1, <1>2, <2>1, <2>2 DEF Inv, Types
<1>9. ForeignKeysKept'
  BY <1>1 DEF Inv, ForeignKeysKept
<1> QED
  BY <1>6, <1>7, <1>8, <1>9 DEF Inv, Good

LEMMA OtherProgramInv ==
  ASSUME Inv, OtherProgram
  PROVE  Inv'
<1>1. CASE ChangeSchema(None)
  BY <1>1, SchemaFrame
<1>2. CASE ~ChangeSchema(None)
  <2>1. table # None /\ table \in Table /\ Sound(table)
    BY <1>2 DEF OtherProgram, Inv, Types, SoundTable
  <2>2. /\ DOMAIN table.objs \in SUBSET Objects
        /\ table.objs \in [DOMAIN table.objs -> DOMAIN table.cols]
        /\ DOMAIN table.cols \in SUBSET Names
    BY <2>1, TableFields
  <2>3. CASE ChangeSchema([table EXCEPT !.constraint = TRUE])
    <3>1. [table EXCEPT !.constraint = TRUE] \in SoundTable
      BY <2>1, <2>2, ObjectsTable DEF SoundTable
    <3> QED
      BY <2>3, <3>1, SchemaFrame
  <2>4. ASSUME NEW x \in DOMAIN table.cols, NEW y \in Names \ DOMAIN table.cols,
               ChangeSchema(Renamed(table, x, y))
        PROVE  Inv'
    <3>1. Renamed(table, x, y) \in SoundTable
      BY <2>1, RenamedTable DEF SoundTable
    <3> QED
      BY <2>4, <3>1, SchemaFrame
  <2>5. ASSUME NEW o \in Objects \ DOMAIN table.objs, NEW x \in DOMAIN table.cols,
               ChangeSchema([table EXCEPT !.objs =
                 [q \in DOMAIN table.objs \cup {o} |-> IF q = o THEN x ELSE table.objs[q]]])
        PROVE  Inv'
    <3> DEFINE objs == [q \in DOMAIN table.objs \cup {o} |-> IF q = o THEN x ELSE table.objs[q]]
    <3>1. /\ objs \in [DOMAIN table.objs \cup {o} -> DOMAIN table.cols]
          /\ DOMAIN table.objs \cup {o} \in SUBSET Objects
      BY <2>2
    <3>2. ChangeSchema([table EXCEPT !.objs = objs])
      BY <2>5
    <3> HIDE DEF objs
    <3>3. [table EXCEPT !.objs = objs] \in SoundTable
      BY <2>1, <3>1, ObjectsTable DEF SoundTable
    <3> QED
      BY <3>2, <3>3, SchemaFrame
  <2> QED
    BY <1>2, <2>3, <2>4, <2>5 DEF OtherProgram
<1> QED
  BY <1>1, <1>2

LEMMA ConnectionInv ==
  ASSUME Inv
  PROVE  /\ \A x \in Names, notnull \in BOOLEAN : \A v \in Field : AddColumn(x, notnull, v) => Inv'
         /\ \A x \in Names, notnull, keyed \in BOOLEAN : CreateTable(x, notnull, keyed) => Inv'
         /\ \A on \in BOOLEAN : SetForeignKeys(on) => Inv'
<1>1. ASSUME NEW x \in Names, NEW notnull \in BOOLEAN, NEW v \in Field, AddColumn(x, notnull, v)
      PROVE  Inv'
  <2>1. table \in Table /\ Sound(table) /\ x \notin DOMAIN table.cols /\ (notnull => v # Null)
    BY <1>1 DEF AddColumn, Inv, Types, SoundTable
  <2>2. ChangeSchema(Added(table, x, notnull, v))
    BY <1>1 DEF AddColumn
  <2>3. Added(table, x, notnull, v) \in SoundTable
    BY <2>1, AddedTable
  <2> QED
    BY <2>2, <2>3, SchemaFrame
<1>2. ASSUME NEW x \in Names, NEW notnull \in BOOLEAN, NEW keyed \in BOOLEAN, CreateTable(x, notnull, keyed)
      PROVE  Inv'
  BY <1>2, CreatedTable, SchemaFrame DEF CreateTable
<1>3. ASSUME NEW on \in BOOLEAN, SetForeignKeys(on)
      PROVE  Inv'
  <2>1. holder = None /\ fk' = on /\ asked' = on /\ UNCHANGED <<table, writer, edit, holder, rec, changes>>
    BY <1>3 DEF SetForeignKeys
  <2>2. Types' /\ ForeignKeysKept'
    BY <2>1 DEF Inv, Types, ForeignKeysKept
  <2>3. ASSUME NEW c \in Editors PROVE Good(c)'
    <3>1. edit[c] = NoEdit /\ writer # c /\ c # None
      BY <2>1, EditsAssumption DEF Inv, Holding, Snapshot
    <3> QED
      BY <2>1, <3>1, IdleGood
  <2>4. ASSUME NEW c \in Writers PROVE Statement(c)'
    BY <2>1, SameStatement
  <2> QED
    BY <2>2, <2>3, <2>4 DEF Inv, Good
<1> QED
  BY <1>1, <1>2, <1>3

\* ... and every step keeps it.
LEMMA NextInv == Inv /\ [Next]_vars => Inv'
<1> SUFFICES ASSUME Inv, [Next]_vars
             PROVE  Inv'
  OBVIOUS
<1>1. ASSUME NEW c \in Editors, EditStep(c)
      PROVE  Inv'
  BY <1>1, LoadColumnsInv, CheckInv, DisableForeignKeysInv, RenameInv, ReloadInv, RebuildInv, RecreateInv,
     CommitInv, EditFailsInv, RollbackEditInv, RestoreForeignKeysInv DEF EditStep
<1>2. ASSUME NEW c \in Editors, NEW req \in EditRequest, Acquire(c, req)
      PROVE  Inv'
  BY <1>2, AcquireInv
<1>3. ASSUME NEW c \in Writers, Mutate(c) \/ CommitRecord(c) \/ RecordFails(c)
      PROVE  Inv'
  BY <1>3, MutateInv, CommitRecordInv, RecordFailsInv
<1>4. ASSUME NEW c \in Writers, NEW method \in Methods, NEW f \in Filter \cup {None},
             LoadRecords(c, method, f)
      PROVE  Inv'
  BY <1>4, LoadRecordsInv
<1>5. CASE UNCHANGED vars
  <2>1. UNCHANGED <<table, writer, edit, holder, fk, asked, rec, changes>>
    BY <1>5 DEF vars
  <2>2. Types' /\ ForeignKeysKept'
    BY <2>1 DEF Inv, Types, ForeignKeysKept
  <2> QED
    BY <2>1, <2>2, SameGood, SameStatement DEF Inv, Good
<1> QED
  BY <1>1, <1>2, <1>3, <1>4, <1>5, ConnectionInv, OtherProgramInv DEF Next, Methods

\* Whatever requests and other programs do, a request that is under way holds a
\* stale snapshot or a function of the committed table, and whoever writes is alone
\* (EditColumn, MutateRecord).
THEOREM Invariant == Spec => []Inv
<1> QED
  BY InitInv, NextInv, PTL DEF Spec

\* The database always holds a table whose NOT NULL columns hold no NULL, and the
\* local variables of the requests are what the code declares (EditColumn, AddColumn).
THEOREM TypeCorrect == Spec => []TypeOK
<1>1. Inv => TypeOK
  <2> SUFFICES ASSUME Inv PROVE TypeOK
    OBVIOUS
  <2>1. table = None \/ (table \in Table /\ Sound(table))
    BY DEF Inv, Types, SoundTable
  <2>2. \A c \in Editors : edit[c].req \in EditRequest \cup {None}
    BY DEF Inv, Types, EditState
  <2>3. \A c \in Writers : rec[c].filter \in Filter \cup {None}
    BY DEF Inv, Types, RecState
  <2> QED
    BY <2>1, <2>2, <2>3 DEF Inv, Types, TypeOK
<1> QED
  BY <1>1, Invariant, PTL

\* However many edits fail wherever they may, the next user of the shared connection
\* finds foreign keys as a statement last asked for (the deferred calls of EditColumn).
THEOREM ForeignKeysRestored == Spec => []ForeignKeysKept
<1>1. Inv => ForeignKeysKept
  BY DEF Inv
<1> QED
  BY <1>1, Invariant, PTL

-----------------------------------------------------------------------------
(* What a commit does to the table. *)

\* Only its commit takes an edit from the commit to the end.
LEMMA OnlyCommitEnds ==
  ASSUME Inv, [Next]_vars, NEW c \in Editors, edit[c].pc = "commit", edit'[c].pc = "restore"
  PROVE  Commit(c)
<1>0. DOMAIN edit = Editors /\ edit[c] \in EditState /\ Stale # None
  BY EditsAssumption DEF Inv, Types
<1>1. ASSUME NEW d \in Editors \ {c} PROVE ~EditStep(d) /\ \A req \in EditRequest : ~Acquire(d, req)
  <2>1. edit[d].pc = "idle" /\ edit[d] = NoEdit /\ holder # None
    BY OthersIdle DEF NoEdit
  <2> QED
    BY <2>1 DEF EditStep, LoadColumns, Validate, CountNulls, DisableForeignKeys, Rename, Reload, Rebuild,
       Recreate, Commit, EditFails, RollbackEdit, RestoreForeignKeys, Acquire
<1>2. \A req \in EditRequest : ~Acquire(c, req)
  BY DEF Acquire, NoEdit
<1>3. Outdated(edit)[c].pc = "commit"
  BY <1>0 DEF Outdated, EditState
<1>4. edit' # edit /\ edit' # Outdated(edit)
  BY <1>3
<1>5. ~EditFails(c)
  BY <1>0, EndingFields DEF EditFails
<1>6. EditStep(c) => Commit(c)
  BY <1>5 DEF EditStep, LoadColumns, Validate, CountNulls, DisableForeignKeys, Rename, Reload, Rebuild,
     Recreate, RollbackEdit, RestoreForeignKeys
<1>7. ~UNCHANGED vars /\ ~OtherProgram
  BY <1>4 DEF vars, OtherProgram, ChangeSchema
<1>8. \A d \in Writers : ~Mutate(d) /\ ~CommitRecord(d) /\ ~RecordFails(d)
  BY <1>4 DEF Mutate, CommitRecord, RecordFails
<1>9. \A d \in Writers : \A method, f : ~LoadRecords(d, method, f)
  BY <1>4 DEF LoadRecords
<1>10. /\ \A x, notnull, v : ~AddColumn(x, notnull, v)
       /\ \A x, notnull, keyed : ~CreateTable(x, notnull, keyed)
       /\ \A on : ~SetForeignKeys(on)
  BY <1>4 DEF AddColumn, CreateTable, SetForeignKeys, ChangeSchema
<1>11. Next
  BY <1>7
<1> QED
  BY <1>1, <1>2, <1>6, <1>7, <1>8, <1>9, <1>10, <1>11 DEF Next

\* The table that an edit rebuilds has what the table has, under the new name.
LEMMA BaseFields ==
  ASSUME Inv, NEW c \in Editors, edit[c].req \in EditRequest, HasBase(c), Seen(c),
         edit[c].req.column \in DOMAIN table.cols,
         edit[c].req.name \notin DOMAIN table.cols \ {edit[c].req.column}
  PROVE  LET B == Base(c)
         IN  /\ DOMAIN B.cols = {NameAfter(c, x) : x \in DOMAIN table.cols}
             /\ \A x \in DOMAIN table.cols :
                  /\ NameAfter(c, x) \in DOMAIN B.cols
                  /\ B.cols[NameAfter(c, x)] = table.cols[x]
                  /\ NameAfter(c, x) = edit[c].req.name <=> x = edit[c].req.column
                  /\ \A r \in DOMAIN table.rows : B.rows[r][NameAfter(c, x)] = table.rows[r][x]
             /\ \A o \in DOMAIN table.objs : B.objs[o] = NameAfter(c, table.objs[o])
<1> DEFINE old == edit[c].req.column
           new == edit[c].req.name
           B   == Base(c)
<1>0. table \in Table
  BY BaseTable
<1>1. \A x : NameAfter(c, x) = IF x = old THEN new ELSE x
  BY DEF NameAfter
<1>2. CASE old = new
  <2>1. B = table /\ \A x : NameAfter(c, x) = x
    BY <1>1, <1>2 DEF Base, Renames
  <2>2. table.objs \in [DOMAIN table.objs -> DOMAIN table.cols]
    BY <1>0, TableFields
  <2> HIDE DEF B, old, new
  <2> QED
    BY <1>2, <2>1, <2>2 DEF B, old, new
<1>3. CASE old # new
  <2>1. /\ B = Renamed(table, old, new) /\ new \in Names
        /\ old \in DOMAIN table.cols /\ new \notin DOMAIN table.cols
    BY <1>3 DEF Base, Renames, HasBase, EditRequest
  <2> DEFINE Of(x) == IF x = new THEN old ELSE x
  <2> HIDE DEF old, new, B
  <2>2. /\ DOMAIN B.cols = (DOMAIN table.cols \ {old}) \cup {new}
        /\ \A x \in DOMAIN B.cols : B.cols[x] = table.cols[Of(x)]
    BY <1>0, <2>1, RenamedTable
  <2>3. \A r \in DOMAIN table.rows, x \in DOMAIN B.cols : B.rows[r][x] = table.rows[r][Of(x)]
    BY <1>0, <2>1, RenamedTable
  <2>4. \A o \in DOMAIN table.objs : B.objs[o] = IF table.objs[o] = old THEN new ELSE table.objs[o]
    BY <1>0, <2>1, RenamedTable
  <2>5. \A x \in DOMAIN table.cols : NameAfter(c, x) \in DOMAIN B.cols /\ Of(NameAfter(c, x)) = x
    BY <1>1, <2>1, <2>2
  <2>6. DOMAIN B.cols = {NameAfter(c, x) : x \in DOMAIN table.cols}
    BY <1>1, <2>1, <2>2
  <2>7. \A x \in DOMAIN table.cols : NameAfter(c, x) = new <=> x = old
    BY <1>1, <2>1
  <2>8. \A o \in DOMAIN table.objs : B.objs[o] = NameAfter(c, table.objs[o])
    BY <1>1, <2>4
  <2> QED
    BY <2>2, <2>3, <2>5, <2>6, <2>7, <2>8 DEF B, old, new
<1> QED
  BY <1>2, <1>3

\* The commit of an edit replaces the table by what EditIsExact says.
LEMMA CommitIsExact ==
  ASSUME Inv, NEW c \in Editors, Commit(c)
  PROVE  RowsKept(c) /\ ObjectsKept(c) /\ (Seen(c) => ColumnsKept(c))
<1> DEFINE B   == Base(c)
           N   == New(c)
           req == edit[c].req
           b   == NumberOf(B)
<1>1. /\ edit[c].pc = "commit" /\ HasBase(c) /\ table' = [N EXCEPT !.objs = B.objs]
      /\ req \in EditRequest /\ req.column \in DOMAIN edit[c].cols
      /\ req.name \notin DOMAIN edit[c].cols \ {req.column}
  BY EditTypes DEF Commit, Good, Snapshot, Checked, Steps
<1>2. table \in Table /\ B \in Table /\ N \in Table
  BY <1>1, BaseTable
<1>3. table'.cols = N.cols /\ table'.rows = N.rows /\ table'.objs = B.objs
  <2>1. N \in TableOver(DOMAIN N.cols)
    BY <1>2, TableFields
  <2> HIDE DEF N, B
  <2> QED
    BY <1>1, <2>1 DEF TableOver
<1>4. DOMAIN B.rows = DOMAIN table.rows /\ B.keyed = table.keyed /\ DOMAIN B.objs = DOMAIN table.objs
  <2>1. req.name \in Names
    BY <1>1 DEF EditRequest
  <2> QED
    BY <1>1, <1>2, <2>1, RenamedTable DEF Base, HasBase
<1>5. /\ DOMAIN N.cols = DOMAIN B.cols
      /\ \A y \in DOMAIN B.cols : N.cols[y] = IF y = req.name THEN ~req.nullable ELSE B.cols[y]
  BY <1>1, <1>2, RebuiltTable DEF New
<1>6. /\ b \in Bijection(DOMAIN B.rows, DOMAIN N.rows)
      /\ \A r, q \in DOMAIN B.rows : r < q => b[r] < b[q]
      /\ B.keyed => \A r \in DOMAIN B.rows : b[r] = r
  BY <1>1, <1>2, RebuiltTable DEF New
<1>7. \A r \in DOMAIN B.rows, y \in DOMAIN B.cols :
        \/ N.rows[b[r]][y] = B.rows[r][y]
        \/ y = req.name /\ B.rows[r][y] = Null /\ ~req.nullable /\ N.rows[b[r]][y] = req.default
  BY <1>1, <1>2, RebuiltTable DEF New
<1>8. ASSUME Seen(c)
      PROVE  /\ DOMAIN B.cols = {NameAfter(c, x) : x \in DOMAIN table.cols}
             /\ \A x \in DOMAIN table.cols :
                  /\ NameAfter(c, x) \in DOMAIN B.cols
                  /\ B.cols[NameAfter(c, x)] = table.cols[x]
                  /\ NameAfter(c, x) = req.name <=> x = req.column
                  /\ \A r \in DOMAIN table.rows : B.rows[r][NameAfter(c, x)] = table.rows[r][x]
             /\ \A o \in DOMAIN table.objs : B.objs[o] = NameAfter(c, table.objs[o])
  <2>1. req.column \in DOMAIN table.cols /\ req.name \notin DOMAIN table.cols \ {req.column}
    BY <1>1, <1>8 DEF Seen
  <2> QED
    BY <1>1, <1>8, <2>1, BaseFields
<1> HIDE DEF B, N, b, req
<1>9. RowsKept(c)
  <2>1. b \in Bijection(DOMAIN table.rows, DOMAIN table'.rows) /\ DOMAIN b = DOMAIN table.rows
    BY <1>3, <1>4, <1>6 DEF Bijection, Injection
  <2>2. \A r, q \in DOMAIN b : r < q => b[r] < b[q]
    BY <1>4, <1>6, <2>1
  <2>3. table.keyed => \A r \in DOMAIN b : b[r] = r
    BY <1>4, <1>6, <2>1
  <2>4. ASSUME Seen(c), NEW r \in DOMAIN b, NEW x \in DOMAIN table.cols
        PROVE  LET new == table'.rows[b[r]][NameAfter(c, x)]
               IN  \/ new = table.rows[r][x]
                   \/ x = req.column /\ table.rows[r][x] = Null /\ ~req.nullable /\ new = req.default
    <3>1. /\ NameAfter(c, x) \in DOMAIN B.cols /\ B.rows[r][NameAfter(c, x)] = table.rows[r][x]
          /\ NameAfter(c, x) = req.name <=> x = req.column
      BY <1>8, <2>1, <2>4
    <3> QED
      BY <1>3, <1>4, <1>7, <2>1, <3>1
  <2> QED
    BY <2>1, <2>2, <2>3, <2>4 DEF RowsKept, req
<1>10. ObjectsKept(c)
  BY <1>3, <1>4, <1>8 DEF ObjectsKept
<1>11. Seen(c) => ColumnsKept(c)
  BY <1>3, <1>5, <1>8 DEF ColumnsKept, req
<1> QED
  BY <1>9, <1>10, <1>11

\* For any table, an edit that commits keeps every row, index and trigger and changes
\* the one column that was asked for, whoever commits between its checks and its
\* transaction (EditColumn).
THEOREM EditsAreExact == Spec => EditIsExact
<1>1. Inv /\ [Next]_vars =>
        [\A c \in Editors : edit[c].pc = "commit" /\ edit'[c].pc = "restore" =>
           RowsKept(c) /\ ObjectsKept(c) /\ (Seen(c) => ColumnsKept(c))]_vars
  BY OnlyCommitEnds, CommitIsExact
<1> QED
  BY <1>1, Invariant, PTL DEF Spec, EditIsExact

\* Only a commit of its own ends a data request and changes the table.
LEMMA OnlyCommitChanges ==
  ASSUME Inv, [Next]_vars, NEW c \in Writers, rec[c] # NoRec, rec'[c] = NoRec, table' # table
  PROVE  CommitRecord(c)
<1>0. DOMAIN rec = Writers /\ rec[c] \in RecState /\ Stale # None
  BY EditsAssumption DEF Inv, Types
<1>1. Outdated(rec)[c] # NoRec
  BY <1>0 DEF Outdated, RecState, NoRec
<1>2. rec' # rec /\ rec' # Outdated(rec)
  BY <1>1
<1>3. \A d \in Editors : ~EditStep(d) /\ \A req \in EditRequest : ~Acquire(d, req)
  <2> TAKE d \in Editors
  <2>1. ~LoadColumns(d) /\ ~Validate(d) /\ ~CountNulls(d) /\ ~DisableForeignKeys(d)
    BY <1>2 DEF LoadColumns, Validate, CountNulls, DisableForeignKeys
  <2>2. ~Rename(d) /\ ~Reload(d) /\ ~Rebuild(d) /\ ~Recreate(d) /\ ~Commit(d)
    BY <1>2 DEF Rename, Reload, Rebuild, Recreate, Commit
  <2>3. ~EditFails(d) /\ ~RollbackEdit(d) /\ ~RestoreForeignKeys(d)
    BY <1>2 DEF EditFails, RollbackEdit, RestoreForeignKeys
  <2>4. \A req \in EditRequest : ~Acquire(d, req)
    BY <1>2 DEF Acquire
  <2> QED
    BY <2>1, <2>2, <2>3, <2>4 DEF EditStep
<1>4. ~UNCHANGED vars /\ ~OtherProgram
  BY <1>2 DEF vars, OtherProgram, ChangeSchema
<1>5. \A d \in Writers : ~Mutate(d) /\ ~RecordFails(d)
  BY DEF Mutate, RecordFails
<1>6. \A d \in Writers : \A method, f : ~LoadRecords(d, method, f)
  BY DEF LoadRecords
<1>7. /\ \A x, notnull, v : ~AddColumn(x, notnull, v)
      /\ \A x, notnull, keyed : ~CreateTable(x, notnull, keyed)
      /\ \A on : ~SetForeignKeys(on)
  BY <1>2 DEF AddColumn, CreateTable, SetForeignKeys, ChangeSchema
<1>8. ASSUME NEW d \in Writers, CommitRecord(d) PROVE d = c
  <2> SUFFICES ASSUME d # c PROVE FALSE
    OBVIOUS
  <2>1. DOMAIN Outdated(rec) = Writers
    BY <1>0 DEF Outdated
  <2>2. rec'[c] = Outdated(rec)[c]
    BY <1>8, <2>1 DEF CommitRecord
  <2> QED
    BY <1>1, <2>2
<1>9. Next
  BY <1>4
<1> QED
  BY <1>3, <1>4, <1>5, <1>6, <1>7, <1>8, <1>9 DEF Next

\* The statement changes the row that it reports, unless it leaves the table as it is.
LEMMA OutcomeHits ==
  ASSUME NEW t \in Table, NEW method \in Methods, NEW f \in Filter \cup {None},
         method # "POST" => f \in Filter /\ f.column \in DOMAIN t.cols,
         NEW o \in Outcomes(t, method, f, Field), Cardinality(o.hit) = 1, o.new # t
  PROVE  /\ {r \in Rowid : Row(t, r) # Row(o.new, r)} = o.hit
         /\ method # "POST" => Matched(t, f) = o.hit
<1> DEFINE hit == {r \in Rowid : Row(t, r) # Row(o.new, r)}
<1>0. /\ t \in TableOver(DOMAIN t.cols) /\ DOMAIN t.rows \in SUBSET Rowid
      /\ t.rows \in [DOMAIN t.rows -> [DOMAIN t.cols -> Field]]
      /\ o.new \in Table /\ o.new = [t EXCEPT !.rows = o.new.rows]
  <2>1. /\ t \in TableOver(DOMAIN t.cols) /\ DOMAIN t.rows \in SUBSET Rowid
        /\ t.rows \in [DOMAIN t.rows -> [DOMAIN t.cols -> Field]]
    BY TableFields
  <2>2. o.new \in Table /\ o.new = [t EXCEPT !.rows = o.new.rows]
    BY OutcomeTable
  <2> QED
    BY <2>1, <2>2
<1>1. o.new.rows # t.rows
  <2> SUFFICES ASSUME o.new.rows = t.rows PROVE FALSE
    OBVIOUS
  <2>1. [t EXCEPT !.rows = t.rows] = t
    BY <1>0 DEF TableOver
  <2> QED
    BY <1>0, <2>1
<1>2. IsFiniteSet(o.hit) => \E r : o.hit = {r}
  BY FS_Singleton
<1>3. hit \subseteq o.hit /\ o.hit \subseteq Rowid /\ (method # "POST" => Matched(t, f) = o.hit)
  <2>1. CASE method = "DELETE"
    <3>1. /\ o.hit = Matched(t, f)
          /\ o.new = [t EXCEPT !.rows = [r \in DOMAIN t.rows \ Matched(t, f) |-> t.rows[r]]]
      BY <2>1 DEF Outcomes
    <3>2. o.new.rows = [r \in DOMAIN t.rows \ Matched(t, f) |-> t.rows[r]]
      BY <1>0, <3>1 DEF TableOver
    <3>3. Matched(t, f) \subseteq DOMAIN t.rows
      BY DEF Matched
    <3> QED
      BY <1>0, <3>1, <3>2, <3>3 DEF Row
  <2>2. CASE method = "PATCH"
    <3> DEFINE New2(v) == [r \in DOMAIN t.rows |->
                            IF r \in Matched(t, f) THEN [t.rows[r] EXCEPT ![f.column] = v] ELSE t.rows[r]]
    <3>1. PICK v \in Field : o.hit = Matched(t, f) /\ o.new = [t EXCEPT !.rows = New2(v)]
      BY <2>2 DEF Outcomes
    <3>2. o.new.rows = New2(v)
      <4> HIDE DEF New2
      <4> QED
        BY <1>0, <3>1 DEF TableOver
    <3>3. Matched(t, f) \subseteq DOMAIN t.rows
      BY DEF Matched
    <3> QED
      BY <1>0, <3>1, <3>2, <3>3 DEF Row
  <2>3. CASE method = "POST"
    <3> DEFINE New2(q, v) == [r \in DOMAIN t.rows \cup {q} |->
                               IF r = q THEN [x \in DOMAIN t.cols |-> v] ELSE t.rows[r]]
    <3>1. PICK q \in Rowid \ DOMAIN t.rows, v \in Field :
            o.hit = {q} /\ o.new = [t EXCEPT !.rows = New2(q, v)]
      BY <2>3 DEF Outcomes
    <3>2. o.new.rows = New2(q, v)
      <4> HIDE DEF New2
      <4> QED
        BY <1>0, <3>1 DEF TableOver
    <3> QED
      BY <1>0, <2>3, <3>1, <3>2 DEF Row
  <2> QED
    BY <2>1, <2>2, <2>3 DEF Methods
<1>4. hit # {}
  <2> SUFFICES ASSUME hit = {} PROVE FALSE
    OBVIOUS
  <2>1. /\ o.new.rows \in [DOMAIN o.new.rows -> [DOMAIN o.new.cols -> Field]]
        /\ DOMAIN o.new.rows \in SUBSET Rowid
    BY <1>0, TableFields
  <2>2. \A r \in Rowid : Row(t, r) = Row(o.new, r)
    OBVIOUS
  <2>3. DOMAIN o.new.rows = DOMAIN t.rows /\ \A r \in DOMAIN t.rows : t.rows[r] = o.new.rows[r]
    BY <1>0, <2>1, <2>2 DEF Row
  <2> HIDE DEF hit
  <2> QED
    BY <1>0, <1>1, <2>1, <2>3
<1>5. IsFiniteSet(o.hit)
  <2>1. MaxRow \in Int /\ 1 \in Int
    BY EditsAssumption
  <2>2. IsFiniteSet(Rowid)
    BY <2>1, FS_Interval DEF Rowid
  <2> QED
    BY <1>3, <2>2, FS_Subset
<1> QED
  BY <1>2, <1>3, <1>4, <1>5

\* For any table and filter, a data request that succeeds has changed one row, the one
\* that its filter matches, and nothing else (MutateRecord).
THEOREM RecordsChangeOneRow == Spec => RecordChangesOneRow
<1> DEFINE Change(c) ==
      /\ table' = [table EXCEPT !.rows = table'.rows]
      /\ Cardinality(RowsHit) = 1
      /\ rec[c].method # "POST" => Matched(table, rec[c].filter) = RowsHit
<1>1. ASSUME Inv, [Next]_vars, NEW c \in Writers, rec[c] # NoRec, rec'[c] = NoRec, table' # table
      PROVE  Change(c)
  <2>1. rec[c].pc = "commit" /\ table' = rec[c].work
    BY <1>1, OnlyCommitChanges DEF CommitRecord
  <2>2. /\ Fitting(c) /\ table \in Table /\ rec[c].method \in Methods /\ rec[c].filter \in Filter \cup {None}
    BY <1>1, <2>1, CommittedRecord DEF Fitting
  <2>3. PICK o \in Outcomes(table, rec[c].method, rec[c].filter, Field) :
          /\ o.new = [table EXCEPT !.rows = o.new.rows]
          /\ Cardinality(o.hit) = 1 /\ table' = o.new
    BY <1>1, <2>1, CommittedRecord
  <2>4. o.new # table
    BY <1>1, <2>3
  <2>5. /\ {r \in Rowid : Row(table, r) # Row(o.new, r)} = o.hit
        /\ rec[c].method # "POST" => Matched(table, rec[c].filter) = o.hit
    BY <2>2, <2>3, <2>4, OutcomeHits DEF Fitting
  <2>6. RowsHit = o.hit
    BY <2>3, <2>5 DEF RowsHit
  <2> QED
    BY <2>3, <2>5, <2>6
<1>2. Inv /\ [Next]_vars =>
        [\A c \in Writers : rec[c] # NoRec /\ rec'[c] = NoRec /\ table' # table => Change(c)]_vars
  BY <1>1
<1> QED
  BY <1>2, Invariant, PTL DEF Spec, RecordChangesOneRow
=============================================================================
