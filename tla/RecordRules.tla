---------------------------- MODULE RecordRules ----------------------------
(***************************************************************************)
(* The reading side of the record API (internal/service/records.go): the   *)
(* keys and the pages of a table, the values that a client sends and the   *)
(* filters by which it finds them again; and the windows of QueryDatabase  *)
(* (internal/service/database.go).  What changes records is ColumnEdits.   *)
(*                                                                         *)
(* A table is a record of                                                  *)
(*   kind    - "table", "view" or "virtual",                               *)
(*   numbers - its text nowhere says WITHOUT ROWID, in a comment neither,  *)
(*   columns - a function from its columns to their place in the primary   *)
(*             key, 0 for those that are not of it,                        *)
(*   rows    - a set of functions from the columns to values; RowId, which *)
(*             is not a column's name, leads to the number of the row.     *)
(* A stored value is <<"num", n>> for the number n/2, <<"text", t>>,       *)
(* <<"blob", t>> for the bytes that t encodes, or Null.                    *)
(***************************************************************************)
EXTENDS Integers, Sequences, FiniteSets, FiniteSetsExt, SequencesExt

CONSTANTS
  Numerals,       \* the texts that are numbers, with twice their values
  Encodings,      \* the texts that are base64
  Times,          \* the texts that the driver reads as a time, with their RFC 3339 forms
  DefaultLimit,   \* 1000 rows
  MaxLimit        \* 100000 rows

ASSUME LimitsAssumption == DefaultLimit \in 1 .. MaxLimit /\ MaxLimit \in Nat

RowId == "(row number)"
Null == <<"null", "null">>
Error == <<"error", "error">>

-----------------------------------------------------------------------------
\* Mistake: a column may be called rowid.
RowidUnchecked(columns) == "rowid"

\* The alias that no column hides, or "none".
RowidAlias(columns) ==
  LET free == {i \in 1 .. 3 : <<"rowid", "_rowid_", "oid">>[i] \notin columns}
  IN  IF free = {} THEN "none" ELSE <<"rowid", "_rowid_", "oid">>[Min(free)]

\* The key columns in their order, or else the hidden row number.
KeysOf(table) ==
  LET columns == DOMAIN table.columns
      keys    == {c \in columns : table.columns[c] > 0}
      alias   == RowidAlias(columns)
  IN  IF keys # {} THEN [i \in 1 .. Cardinality(keys) |-> CHOOSE c \in keys : table.columns[c] = i]
      ELSE IF table.kind = "view" \/ ~table.numbers \/ alias = "none" THEN <<>> ELSE <<alias>>

\* What a name in a statement stands for: a column before the row number.
Valued(row, name) == IF name \in DOMAIN row THEN row[name] ELSE row[RowId]

\* ORDER BY leaves rows that agree in every term in any order.
Before(r, s, terms) ==
  \E i \in DOMAIN terms :
    /\ \A j \in 1 .. i - 1 : Valued(r, terms[j].column) = Valued(s, terms[j].column)
    /\ IF terms[i].desc THEN Valued(r, terms[i].column) > Valued(s, terms[i].column)
                        ELSE Valued(r, terms[i].column) < Valued(s, terms[i].column)

Orderings(rows, terms) ==
  {s \in SetToSeqs(rows) : \A i, j \in DOMAIN s : Before(s[i], s[j], terms) => i < j}

\* The order asked for, then the keys.
Terms(table, order) ==
  LET keys == KeysOf(table)
  IN  order \o [i \in DOMAIN keys |-> [column |-> keys[i], desc |-> FALSE]]

\* What LIMIT and OFFSET leave of a result.
LimitOffset(result, limit, offset) == SubSeq(result, offset + 1, Min({offset + limit, Len(result)}))

\* The pages that ListRecords may return.
ListRecords(table, order, limit, offset) ==
  {LimitOffset(s, limit, offset) : s \in Orderings(table.rows, Terms(table, order))}

\* Rows are passed over, then taken, while the cursor goes on.
QueryDatabase(result, limit, offset) ==
  LimitOffset(result,
              IF limit <= 0 THEN DefaultLimit ELSE IF limit > MaxLimit THEN MaxLimit ELSE limit,
              IF offset < 0 THEN 0 ELSE offset)

BoundedInt(value, fallback, minimum, maximum) ==
  IF value = 0 THEN fallback ELSE IF value < minimum THEN minimum ELSE IF value > maximum THEN maximum ELSE value

\* handleDiscoveredTable (with bounds of its own): the statement has the limit and the offset already.
DiscoveredTable(result, limit, offset) ==
  LET most == BoundedInt(limit, DefaultLimit, 1, MaxLimit)
  IN  QueryDatabase(LimitOffset(result, most, offset), most, 0)

-----------------------------------------------------------------------------
Affinity(type) ==
  CASE type = "TEXT" -> "text" [] type \in {"BLOB", ""} -> "none" [] OTHER -> "numeric"

\* What SQLite makes of a value for a column, when it stores it and when it compares with it.
Converted(type, value) ==
  CASE Affinity(type) = "numeric" /\ value[1] = "text" /\ value[2] \in DOMAIN Numerals ->
         <<"num", Numerals[value[2]]>>
    [] Affinity(type) = "text" /\ value[1] = "num" ->
         <<"text", CHOOSE t \in DOMAIN Numerals : Numerals[t] = value[2]>>
    [] OTHER -> value

Integer(n) == n % 2 = 0

Text(type, raw) ==
  IF type # "BLOB" THEN <<"text", raw>> ELSE IF raw \in Encodings THEN <<"blob", raw>> ELSE Error

\* A JSON value of a request is one of <<"null">>, <<"bool", b>>, <<"number", n>>, <<"string", t>> and <<"object">>.
NativeRecordValue(type, json) ==
  CASE json[1] = "null"   -> Null
    [] json[1] = "bool"   -> <<"num", IF json[2] THEN 2 ELSE 0>>
    [] json[1] = "number" -> IF type = "INTEGER" /\ ~Integer(json[2]) THEN Error ELSE <<"num", json[2]>>
    [] json[1] = "string" -> Text(type, json[2])
    [] OTHER -> Error

\* Mistake: bytes are compared with the text that encodes them.
FilterValueRaw(type, raw) ==
  CASE type = "INTEGER" -> IF raw \in DOMAIN Numerals THEN <<"num", Numerals[raw]>> ELSE Error
    [] OTHER -> <<"text", raw>>

\* The operand of a filter, from its text.
FilterValue(type, raw) ==
  CASE type = "INTEGER" -> IF raw \in DOMAIN Numerals /\ Integer(Numerals[raw]) THEN <<"num", Numerals[raw]>> ELSE Error
    [] type \in {"REAL", "NUMERIC"} -> IF raw \in DOMAIN Numerals THEN <<"num", Numerals[raw]>> ELSE Error
    [] type = "BOOLEAN" -> IF raw \in {"true", "1"} THEN <<"num", 2>> ELSE IF raw \in {"false", "0"} THEN <<"num", 0>> ELSE Error
    [] OTHER -> Text(type, raw)

TimeTypes == {"DATE", "DATETIME", "TIMESTAMP"}

\* A record as the client gets it, as the text of a filter: the driver reads whole numbers of a BOOLEAN as truth
\* values and texts of the time types as times, bytes come in base64.
Returned(type, value) ==
  CASE value[1] = "num" /\ type = "BOOLEAN" /\ Integer(value[2]) -> IF value[2] = 0 THEN "false" ELSE "true"
    [] value[1] = "num" /\ ~(type = "BOOLEAN" /\ Integer(value[2])) ->
         CHOOSE t \in DOMAIN Numerals : Numerals[t] = value[2]
    [] value[1] = "text" /\ type \in TimeTypes /\ value[2] \in DOMAIN Times -> Times[value[2]]
    [] OTHER -> value[2]

\* The row is one that a filter of recordWhere finds: SQL compares Null with nothing, and a filter whose operand
\* is not of the column's type is refused.
Satisfies(type, stored, filter) ==
  CASE filter.operator = "is" -> (stored = Null) = (filter.operand = "null")
    [] filter.operator = "eq" -> stored # Null /\ stored = Converted(type, FilterValue(type, filter.operand))
    [] filter.operator = "neq" -> /\ FilterValue(type, filter.operand) # Error /\ stored # Null
                                  /\ stored # Converted(type, FilterValue(type, filter.operand))
    [] filter.operator = "in" -> /\ \A raw \in filter.operand : FilterValue(type, raw) # Error
                                 /\ stored # Null
                                 /\ \E raw \in filter.operand : stored = Converted(type, FilterValue(type, raw))
=============================================================================
