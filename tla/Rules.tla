------------------------------- MODULE Rules -------------------------------
(***************************************************************************)
(* The rules of the program that are functions of their input, with what   *)
(* they are for: a state has one input, and "rule" tells which module it   *)
(* is for.  The rules for names work on a catalog that goes through any    *)
(* number of changes.                                                      *)
(***************************************************************************)
EXTENDS WalFile, CatalogNames, SchemaTracker, ScanRules, RecordRules

CONSTANT Inputs

VARIABLE input

-----------------------------------------------------------------------------
(* Write-ahead logs: what is left of earlier generations is behind the       *)
(* frames of the next; roots tells the tables.                               *)
IsLog(i) ==
  /\ i.new \in Seq([page: Nat \ {0}, commit: BOOLEAN, salt: {"new"}])
  /\ i.old \in Seq([page: Nat \ {0}, commit: BOOLEAN, salt: STRING \ {"new"}])
  /\ i.last \in {"whole", "header", "part"} /\ i.header \in {"whole", "short", "foreign"}
  /\ i.start \in Int

WalOf(i) ==
  LET longer == Len(i.new) > Len(i.old)
  IN  [header |-> i.header, salt |-> "new", last |-> IF longer THEN i.last ELSE "whole",
       frames |-> i.new \o SubSeq(i.old, Len(i.new) + 1, Len(i.old))]

\* Whatever is left of an earlier generation and wherever the writer is, a
\* reader gets exactly the frames of this generation behind those that it
\* asks to skip, up to the last one whose header is there, and the tables
\* whose root pages they hold (every table for page 1).  A header that is not
\* a log's gives an error and no frames (ParseWAL, MapPagesToTables).
ReadsTheGeneration ==
  input.rule = "wal" =>
    LET file   == WalOf(input)
        got    == ParseWAL(file, input.start)
        there  == Len(input.new) - (IF file.last = "part" THEN 1 ELSE 0)
        frames == SubSeq(input.new, IF input.start < 0 THEN 1 ELSE input.start + 1, there)
        pages  == {frames[i].page : i \in DOMAIN frames}
    IN  IF input.header # "whole" THEN got.error = input.header
        ELSE /\ got.frames = frames
             /\ got.commits = Cardinality({i \in DOMAIN frames : frames[i].commit})
             /\ MapPagesToTables(got.changed, input.roots) =
                  {input.roots[p] : p \in {p \in DOMAIN input.roots : p \in pages \/ 1 \in pages}}

-----------------------------------------------------------------------------
(* Schemas: an object has its name from the beginning of its text, and a     *)
(* trigger has one statement or more and an end.  Other texts fall into      *)
(* pieces too when a literal or a comment has a semicolon.                   *)
End == [verb |-> "other", name |-> "END", glued |-> FALSE, def |-> <<>>]

IsPiece(p) ==
  /\ p = [verb |-> p.verb, name |-> p.name, glued |-> p.glued, def |-> p.def]
  /\ Len(p.def) \in Nat /\ p.def = [n \in 1 .. Len(p.def) |-> p.def[n]]
  /\ \A n \in 1 .. Len(p.def) :
       /\ p.def[n] = [word |-> p.def[n].word, gap |-> p.def[n].gap]
       /\ p.def[n].gap \in {"blank", "layout", "literal"}

IsObject(o) ==
  /\ o = [kind |-> o.kind, name |-> o.name, text |-> o.text]
  /\ o.kind \in {"table", "index", "view", "trigger"}
  /\ Len(o.text) \in Nat \ {0} /\ o.text = [n \in 1 .. Len(o.text) |-> o.text[n]]
  /\ \A n \in 1 .. Len(o.text) : IsPiece(o.text[n])
  /\ \/ o.text[1].verb = o.kind
     \/ o.text[1].verb = "other" /\ o.kind = "table" /\ o.text[1].name # End.name
  /\ o.kind = "trigger" => Len(o.text) > 1 /\ Last(o.text) = End

IsSchema(schema) ==
  /\ IsFiniteSet(schema)
  /\ \A o \in schema : IsObject(o)
  /\ \A a, b \in schema : a.kind = b.kind /\ a.name = b.name => a = b

IsChange(i) ==
  /\ IsSchema(i.old) /\ IsSchema(i.new)
  /\ \A a, b \in i.old \cup i.new :
       a.text[1].verb = b.text[1].verb /\ a.text[1].name = b.text[1].name => a.name = b.name

\* Two texts say the same when only their layout differs: not where there is
\* white space, but how much of it.
Sense(piece) ==
  [piece EXCEPT !.def = [n \in DOMAIN piece.def |->
     IF piece.def[n].gap = "layout" THEN Bare(piece.def[n]) ELSE piece.def[n]]]

Meaning(o) == [kind |-> o.kind, name |-> o.name, text |-> [n \in DOMAIN o.text |-> Sense(o.text[n])]]

MeaningOf(schema) == {Meaning(o) : o \in schema}

\* A text that normalizing takes nothing from but layout: no semicolon but the
\* one behind the only statement of a trigger, and no literal with more white
\* space than a blank in a place, or with IF NOT EXISTS.
Plain(o) ==
  /\ Len(o.text) = IF o.kind = "trigger" THEN 2 ELSE 1
  /\ \A w \in Range(o.text[1].def) : w.gap # "literal" /\ w.word # IfNotExists

\* A baseline gets no new schema version when the schema says what it said at
\* the last one, whatever the layout and the number of its objects, and gets
\* one when it does not, so that the version that a snapshot is stored with
\* has the snapshot's schema (NormalizeSchema, handleStartReplication).  The
\* second half holds only of plain texts: the code cuts at the semicolons in
\* literals and comments, sorts the pieces one by one and reduces the white
\* space in literals, so that other schemas may differ and have one hash.
VersionsHoldTheSchema ==
  input.rule = "schema" =>
    LET first == RecordVersion(<<>>, input.old)
        next  == RecordVersion(first, input.new)
        again == RecordVersion(next, input.old)
    IN  /\ MeaningOf(input.old) = MeaningOf(input.new) => again = <<input.old>>
        /\ /\ MeaningOf(input.old) # MeaningOf(input.new)
           /\ \A o \in input.old \cup input.new : Plain(o)
           => again = <<input.old, input.new, input.old>>

OneEach(schema) == \A a, b \in ParseSchemaObjects(schema) : a.name = b.name => a = b

\* What DiffSchemas reports is what changed: exactly the objects of the one
\* schema that the other has not or has with another meaning, but for the END
\* of the first trigger to come or of the last to go, which counts as an
\* object of its own.  Left out are texts that are not plain, for the reasons
\* above, virtual tables, which are compared by their layout too, and schemas
\* in which a trigger has the name of a table: objects are matched by name.
DiffExplainsTheChange ==
  input.rule = "schema" =>
    LET diff == DiffSchemas(input.old, input.new)
        gone == {o.sql : o \in diff.dropped} \cup {m.old.sql : m \in diff.modified}
        come == {n.sql : n \in diff.added} \cup {m.new.sql : m \in diff.modified}
        texts(from, to) == {o.text[1] : o \in {p \in from : Meaning(p) \notin MeaningOf(to)}}
    IN  /\ OneEach(input.old) /\ OneEach(input.new)
        /\ \A o \in input.old \cup input.new : Plain(o) /\ o.text[1].verb # "other"
        => /\ gone \ {End} = texts(input.old, input.new)
           /\ come \ {End} = texts(input.new, input.old)

-----------------------------------------------------------------------------
(* Scans: a file or directory is the sequence of names that leads to it from *)
(* "/" on, and the program sees it as text.                                  *)
Entry == Seq(STRING \ {Separator}) \ {<<>>}
Location == Seq(Entry)

Join(text, name) == text \o <<Separator>> \o name

Spelled(place) ==
  LET text[n \in 0 .. Len(place)] == IF n = 0 THEN <<>> ELSE Join(text[n - 1], place[n])
  IN  text[Len(place)]

PathOf(place) == IF place = <<>> THEN <<Separator>> ELSE Spelled(place)
PathsOf(places) == {PathOf(p) : p \in places}

\* Data directories are home/dot{repo-name}/tail.
IsScan(i) ==
  /\ i.roots \subseteq Location /\ i.excluded \subseteq Location
  /\ i.files \subseteq Location \ {<<>>} /\ i.valid \subseteq i.files
  /\ i.patterns \subseteq Seq(STRING)
  /\ \A n \in 1 .. 4 : i.priorities[n] \subseteq Location
  /\ i.home \in Location /\ i.dot \in Seq(STRING \ {Separator}) /\ i.tail \in Location

ScanConfig(i) ==
  [excluded |-> PathsOf(i.excluded), patterns |-> i.patterns, extensions |-> i.extensions,
   priorities |-> [n \in 1 .. 4 |-> PathsOf(i.priorities[n])],
   dotdir |-> [before |-> Join(Spelled(i.home), i.dot), after |-> Spelled(i.tail)]]

\* No directory is compared with "/".
Under(place, dirs) == \E d \in dirs : d # <<>> /\ IsPrefix(d, place)

\* The last name of tail need only be what a name begins with.
InDataDirectory(i, f) ==
  LET h == Len(i.home)
      t == Len(i.tail)
  IN  /\ IsPrefix(i.home, f) /\ Len(f) > h /\ IsPrefix(i.dot, f[h + 1])
      /\ i.tail # <<>> =>
           /\ f[h + 1] # i.dot /\ Len(f) > h + t
           /\ SubSeq(f, h + 2, h + t) = SubSeq(i.tail, 1, t - 1)
           /\ IsPrefix(i.tail[t], f[h + t + 1])

PriorityOf(i, f) ==
  IF Under(f, i.priorities[1]) THEN "docker"
  ELSE IF Under(f, i.priorities[2]) THEN "workspace"
  ELSE IF Under(f, i.priorities[3]) THEN "copilot"
  ELSE IF Under(f, i.priorities[4]) \/ InDataDirectory(i, f) THEN "app_data" ELSE "other"

WantedFiles(i) ==
  {f \in i.valid :
     /\ \E r \in i.roots : IsPrefix(r, f)
     /\ f \in i.roots \/ ~Under(Front(f), i.excluded)
     /\ Last(Last(f)) \in i.extensions
     /\ ~\E pattern \in i.patterns, n \in 0 .. Len(PathOf(f)) :
           IsPrefix(pattern, SubSeq(PathOf(f), n + 1, Len(PathOf(f))))}

\* A scan lists exactly the databases below its roots that no exclusion
\* holds, whichever roots it takes and however they overlap, each with the
\* priority of the first list that has a directory above it, and looks again
\* at the availability of the files below its roots and of no others.  An
\* excluded directory excludes the files in it and in its subdirectories, not
\* those of a directory whose name begins with its name.  Left out are a root
\* that is itself a file in an excluded directory, which is listed, and "/":
\* nothing is within it for pathWithinAnyRoot, and excluding it ends only the
\* scans that start there (ScanContext, HTTPServer.Scan).
ScanListsWhatIsThere ==
  input.rule = "scan" /\ <<>> \notin input.excluded =>
    LET files == PathsOf(input.files)
        roots == PathsOf(input.roots)
    IN  /\ ScanRoots(roots, files, PathsOf(input.valid), ScanConfig(input)) =
             {[path |-> PathOf(f), priority |-> PriorityOf(input, f)] : f \in WantedFiles(input)}
        /\ \A f \in input.files : PathWithinAnyRoot(PathOf(f), roots) <=> Under(f, input.roots)

-----------------------------------------------------------------------------
(* Tables: a row is told by its number and by its key, whose columns have    *)
(* the places from 1.  Left out are keys with NULLs, which SQLite does not   *)
(* compare.                                                                  *)
KeyColumns(table) == {c \in DOMAIN table.columns : table.columns[c] > 0}

IsTable(table) ==
  LET keys == KeyColumns(table)
  IN  /\ IsFiniteSet(table.rows) /\ IsFiniteSet(DOMAIN table.columns)
      /\ RowId \notin DOMAIN table.columns
      /\ [c \in keys |-> table.columns[c]] \in Bijection(keys, 1 .. Cardinality(keys))
      /\ \A r \in table.rows : r \in [DOMAIN table.columns \cup {RowId} -> Int]
      /\ \A r, s \in table.rows : r[RowId] = s[RowId] => r = s
      /\ keys # {} => \A r, s \in table.rows : (\A c \in keys : r[c] = s[c]) => r = s

IsPageRequest(i) ==
  IsTable(i.table) /\ i.order \in Seq([column: STRING, desc: BOOLEAN]) /\ i.limit \in Nat \ {0}

\* Every page that SQLite may return is cut from one sequence of the records in the order asked for.
CutFromOneOrder(table, order, limit) ==
  \E s \in Orderings(table.rows, order) :
    \A n \in 0 .. Cardinality(table.rows) :
      LET last == (n + 1) * limit
      IN  ListRecords(table, order, limit, n * limit) =
            {SubSeq(s, n * limit + 1, IF last < Len(s) THEN last ELSE Len(s))}

HasAlias(table) ==
  table.kind # "view" /\ table.numbers /\ ~({"rowid", "_rowid_", "oid"} \subseteq DOMAIN table.columns)

IsWindowRequest(i) ==
  /\ Len(i.rows) \in Nat /\ i.rows = [n \in 1 .. Len(i.rows) |-> i.rows[n]]
  /\ i.limit \in Int /\ i.read \in 0 .. Len(i.rows)

\* got is what follows the rows that were read, and something if there is more.
GoesOn(got, rows, read) ==
  \E last \in read .. Len(rows) : got = SubSeq(rows, read + 1, last) /\ (read < Len(rows) => read < last)

\* A client that reads a table page by page gets every record once and in the
\* order it asked for, although each page is a query of its own and SQLite may
\* put records that compare equal in any order: the key, or the row number
\* that no column hides, comes last in every order (ListRecords).  Views have
\* neither, nor has a table without a key whose columns hide all three aliases
\* or whose text says WITHOUT ROWID anywhere.  A client that goes on where the
\* rows it got of a statement, or of a discovered table, ended gets them all,
\* whatever limit it asks for (QueryDatabase, handleDiscoveredTable).
PagesPartitionTheRows ==
  /\ input.rule = "pages" /\ (KeyColumns(input.table) # {} \/ HasAlias(input.table)) =>
       CutFromOneOrder(input.table, input.order, input.limit)
  /\ input.rule = "window" =>
       /\ GoesOn(QueryDatabase(input.rows, input.limit, input.read), input.rows, input.read)
       /\ GoesOn(DiscoveredTable(input.rows, input.limit, input.read), input.rows, input.read)

-----------------------------------------------------------------------------
(* Values: what a request may write to a column of each type.  The number    *)
(* n/2 has a text, those of FALSE and TRUE too.                              *)
ColumnTypes == {"INTEGER", "REAL", "NUMERIC", "BOOLEAN", "DECIMAL", "TEXT", "BLOB", ""} \cup TimeTypes

ASSUME NumeralsAssumption ==
  /\ \A t \in DOMAIN Numerals : t \in STRING /\ Numerals[t] \in Int
  /\ {0, 2} \subseteq Range(Numerals)

IsWrite(i) ==
  /\ i.type \in ColumnTypes
  /\ \/ i.json \in {<<"null">>, <<"object">>}
     \/ i.json[1] = "bool" /\ i.json = <<"bool", i.json[2]>> /\ i.json[2] \in BOOLEAN
     \/ i.json[1] = "number" /\ i.json = <<"number", i.json[2]>> /\ i.json[2] \in Range(Numerals)
     \/ i.json[1] = "string" /\ i.json = <<"string", i.json[2]>> /\ i.json[2] \in STRING

\* The values that a column is declared for, of those that SQLite may hold in it; times are in the form of RFC 3339.
Fits(type, value) ==
  CASE type = "INTEGER" -> value[1] = "num" /\ Integer(value[2])
    [] type \in {"REAL", "NUMERIC"} -> value[1] = "num"
    [] type = "BOOLEAN" -> value[1] = "num" /\ value[2] \in {0, 2}
    [] type \in {"TEXT", "DECIMAL"} -> TRUE
    [] type = "BLOB" -> value[1] = "blob"
    [] type = "" -> value[1] = "text"
    [] type \in TimeTypes -> value[1] = "text" /\ value[2] \in DOMAIN Times => Times[value[2]] = value[2]

\* A record can be found by what the API returned of it: whatever value a
\* request wrote, the filters eq, in and is with the value as it was returned
\* find the record and neq does not.  Left out are values that are not what
\* the column is declared for, as text in a column of numbers, which SQLite
\* stores and the filters refuse or miss, and times in another form than RFC
\* 3339, as "2024-01-01 10:00:00", in columns of type DATE, DATETIME and
\* TIMESTAMP: the driver reads a time from them, the API returns it in RFC
\* 3339, and the filters compare that with the text that is stored
\* (nativeRecordValue, filterValue, recordRows).
RecordsAreFound ==
  input.rule = "values" /\ NativeRecordValue(input.type, input.json) # Error =>
    LET stored == Converted(input.type, NativeRecordValue(input.type, input.json))
        raw    == Returned(input.type, stored)
        finds(op, operand) == Satisfies(input.type, stored, [operator |-> op, operand |-> operand])
    IN  IF stored = Null THEN finds("is", "null") /\ ~finds("is", "notnull")
        ELSE Fits(input.type, stored) =>
               /\ finds("eq", raw) /\ finds("in", {raw}) /\ finds("is", "notnull")
               /\ ~finds("neq", raw) /\ ~finds("is", "null")

-----------------------------------------------------------------------------
ASSUME InputsAssumption ==
  \A i \in Inputs :
    /\ i.rule = "wal" => IsLog(i)
    /\ i.rule = "schema" => IsChange(i)
    /\ i.rule = "scan" => IsScan(i)
    /\ i.rule = "pages" => IsPageRequest(i)
    /\ i.rule = "window" => IsWindowRequest(i)
    /\ i.rule = "values" => IsWrite(i)

Init == input \in Inputs /\ catalog = NoRows

\* An input stays what it is.
Next ==
  /\ UNCHANGED input
  /\ IF input.rule = "names" THEN \E p \in Paths : Discover(p) \/ Register(p) \/ Delete(p)
     ELSE UNCHANGED catalog

vars == <<input, catalog>>

Spec == Init /\ [][Next]_vars
=============================================================================
