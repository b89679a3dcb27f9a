------------------------------ MODULE MCRules ------------------------------
(***************************************************************************)
(* Model checking of Rules: every input within the bounds below.           *)
(***************************************************************************)
EXTENDS Rules, TLC

Upto(S, n) == UNION {[1 .. k -> S] : k \in 0 .. n}

-----------------------------------------------------------------------------
(* Write-ahead logs: what is left of one generation behind the frames of the next; page 2 is a table's root. *)
Written(salt, Commits) == [page: {1, 2, 4}, commit: Commits, salt: {salt}]

WalInputs ==
  [rule: {"wal"}, old: Upto(Written("old", {TRUE}), 2), new: Upto(Written("new", BOOLEAN), 2),
   last: {"whole", "header", "part"}, header: {"whole", "short", "foreign"}, start: -1 .. 3,
   roots: {2 :> "t" @@ 3 :> "u"}]

-----------------------------------------------------------------------------
(* Names: two files of one name whose paths have one hash, and files whose names are what others may be given. *)
PathHashes == "p" :> "h" @@ "q" :> "h" @@ "r" :> "k" @@ "s" :> "k"
FileNames == "p" :> <<"m">> @@ "q" :> <<"m">> @@ "r" :> <<"m", "(", 2>> @@ "s" :> <<"m", "#", "h">>

NameInputs == {[rule |-> "names"]}

-----------------------------------------------------------------------------
(* Schemas: a table whose texts differ in a word, a space before the parenthesis, layout, a literal's white      *)
(* space or IF NOT EXISTS; two tables with a semicolon in a literal; a virtual one; triggers, one with a table's  *)
(* name.                                                                                                          *)
Word(w) == [word |-> w, gap |-> "blank"]
After(gap, w) == [word |-> w, gap |-> gap]
Piece(verb, name, glued, def) == [verb |-> verb, name |-> name, glued |-> glued, def |-> def]
Single(kind, name, glued, def) == [kind |-> kind, name |-> name, text |-> <<Piece(kind, name, glued, def)>>]
Cut(name, end) ==
  [kind |-> "table", name |-> name, text |-> <<Piece("table", name, FALSE, <<Word("x")>>), Piece("other", end, FALSE, <<>>)>>]
Virtual(gap) == [kind |-> "table", name |-> "t", text |-> <<Piece("other", "virtual t", FALSE, <<After(gap, "a")>>)>>]
Trigger(name, body) ==
  [kind |-> "trigger", name |-> name,
   text |-> <<Piece("trigger", name, FALSE, <<Word(Head(body))>>)>> \o
              [i \in 1 .. Len(body) - 1 |-> Piece("other", body[i + 1], FALSE, <<>>)] \o <<End>>]

Tables    == {Single("table", "t", FALSE, <<Word("a")>>), Single("table", "t", FALSE, <<Word("a"), Word("b")>>),
              Single("table", "t", FALSE, <<Word("a"), After("layout", "b")>>),
              Single("table", "t", FALSE, <<Word("a"), After("literal", "b")>>),
              Single("table", "t", FALSE, <<Word("a"), Word(IfNotExists), Word("b")>>),
              Single("table", "t", TRUE, <<Word("a")>>), Single("table", "t", TRUE, <<Word("b"), Word("a")>>),
              Virtual("blank"), Virtual("layout"), Cut("t", "y"), Cut("t", "z")}
Others    == {Single("index", "i", FALSE, <<Word("a")>>), Single("view", "i", FALSE, <<Word("b")>>),
              Cut("u", "y"), Cut("u", "z")}
Triggers  == {Trigger("g", <<"A">>), Trigger("g", <<"B">>), Trigger("g", <<"A", "B", "C">>),
              Trigger("g", <<"A", "C", "B">>), Trigger("t", <<"A">>)}
AtMostOne(S) == {{}} \cup {{x} : x \in S}
Schemas   == {a \cup b \cup c : a \in AtMostOne(Tables), b \in AtMostOne(Others), c \in AtMostOne(Triggers)}

SchemaInputs == [rule: {"schema"}, old: Schemas, new: Schemas]

-----------------------------------------------------------------------------
(* Files in directories some of whose names begin alike. *)
Data == <<"data">>
Database == <<"data", "base">>
Tmp == <<"tmp">>
Dot == <<".", "x">>
File == <<"a", ".db">>
ScanFiles == {<<Data, File>>, <<Database, File>>, <<Data, Tmp, File>>, <<Data, <<"tmp", "s">>, File>>,
              <<Data, Data, File>>, <<Data, Dot, Data, File>>, <<Data, Dot, Database, File>>, <<Data, <<".">>, Data, File>>,
              <<Database, Tmp, File>>, <<Data, <<"a", ".txt">>>>, <<Data, <<"b", ".db">>>>}

ScanInputs ==
  [rule: {"scan"}, files: {ScanFiles}, valid: {ScanFiles \ {<<Data, <<"b", ".db">>>>}}, extensions: {{".db"}},
   roots: SUBSET {<<>>, <<Data>>, <<Database>>, <<Data, Tmp>>, <<Data, Dot>>, <<Data, File>>} \ {{}},
   excluded: SUBSET {<<Data>>, <<Database>>, <<Data, Tmp>>},
   patterns: SUBSET {Tmp, <<"base">>, <<Separator, "data", Separator, "data">>},
   priorities: {<<docker, {<<Data, Data>>, <<Data, Tmp>>}, {}, {<<Database>>, <<>>}>> : docker \in {{}, {<<Data, Tmp>>, <<Data, Dot>>}}},
   home: {<<Data>>}, dot: {<<".">>}, tail: {<<Data>>, <<Data, <<"a">>>>}]

-----------------------------------------------------------------------------
(* Tables of three rows: with a key, with a key of two columns, with a column that hides the row number, a view; *)
(* with WITHOUT ROWID in their texts and without.                                                                  *)
RowOf(n, values) == (RowId :> n) @@ values
KeyedTables ==
  {[kind |-> "table", numbers |-> FALSE, columns |-> "k" :> 1 @@ "a" :> 0,
    rows |-> {RowOf(n, "k" :> 4 - n @@ "a" :> f[n]) : n \in 1 .. 3}] : f \in [1 .. 3 -> 1 .. 2]}
PairTables ==
  {[kind |-> "table", numbers |-> FALSE, columns |-> "k" :> 2 @@ "a" :> 1,
    rows |-> {RowOf(n, "k" :> f[n][1] @@ "a" :> f[n][2]) : n \in 1 .. 3}] :
       f \in {f \in [1 .. 3 -> (1 .. 2) \X (1 .. 2)] : IsInjective(f)}}
KeylessTables ==
  {[kind |-> k, numbers |-> b, columns |-> "rowid" :> 0 @@ "a" :> 0,
    rows |-> {RowOf(n, "rowid" :> f[n][1] @@ "a" :> f[n][2]) : n \in 1 .. 3}] :
       k \in {"table", "virtual", "view"}, b \in BOOLEAN, f \in [1 .. 3 -> (1 .. 2) \X (1 .. 2)]}
Orders == {<<>>} \cup {<<[column |-> "a", desc |-> d]>> : d \in BOOLEAN}

PageInputs == [rule: {"pages"}, table: KeyedTables \cup PairTables \cup KeylessTables, order: Orders, limit: 1 .. 2]
WindowInputs ==
  {i \in [rule: {"window"}, rows: {[n \in 1 .. k |-> n] : k \in 0 .. 5}, limit: -1 .. 6, read: 0 .. 5] :
     i.read <= Len(i.rows)}

-----------------------------------------------------------------------------
(* Every type of column with every kind of JSON value. *)
NumberTexts == "0" :> 0 @@ "1" :> 2 @@ "2.5" :> 5
TimeTexts == "1 Jan" :> "1 Jan UTC" @@ "1 Jan UTC" :> "1 Jan UTC"
ValueInputs ==
  [rule: {"values"}, type: ColumnTypes,
   json: {<<"null">>, <<"bool", TRUE>>, <<"bool", FALSE>>, <<"object">>} \cup {<<"number", n>> : n \in {0, 2, 5}}
           \cup {<<"string", t>> : t \in {"0", "1", "2.5", "abc", "AAE="} \cup DOMAIN TimeTexts}]

AllInputs ==
  WalInputs \cup NameInputs \cup SchemaInputs \cup ScanInputs \cup PageInputs \cup WindowInputs \cup ValueInputs
=============================================================================
