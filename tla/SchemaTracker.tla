---------------------------- MODULE SchemaTracker ----------------------------
(***************************************************************************)
(* internal/schema/tracker.go: the text, the hash and the difference of    *)
(* database schemas, and the schema versions that baselines record.        *)
(*                                                                         *)
(* A schema is the set of its objects, each with kind, name and text.  The *)
(* code cuts texts at every semicolon, those in literals and comments and  *)
(* in the body of a trigger included, so a text is the sequence of the     *)
(* pieces that result, each                                                *)
(*   verb   - what it creates, "other" for what comes behind a semicolon   *)
(*            and for what the code does not know, as virtual tables;      *)
(*   name   - of the object; how the text begins for "other";              *)
(*   glued  - no space between a name and the parenthesis behind it;       *)
(*   def    - the words behind the name.  The gap before a word is one     *)
(*            blank, or more white space: in the "layout" of the text, or  *)
(*            within a "literal", where it makes a difference.             *)
(* Left out are quotes around names, pieces with nothing in them, objects  *)
(* whose names only begin with "sqlite" (they are taken for SQLite's own:  *)
(* the _ of LIKE is any character), and the wording of Summary.            *)
(***************************************************************************)
EXTENDS Naturals, Sequences, FiniteSets, SequencesExt

\* Mistake: triggers are not asked for.
ExtractNoTriggers(db) == {o \in db : o.kind \in {"table", "index", "view"}}

\* The objects that have a text; SQLite's own have reserved names or none.
ExtractSchema(db) == {o \in db : o.kind \in {"table", "index", "view", "trigger"}}

\* Three words of a literal: SQLite does not store those of the statement.
IfNotExists == "if not exists"

\* One blank between the words.
NormalizeForCompare(piece) == [piece EXCEPT !.def = [n \in DOMAIN piece.def |-> piece.def[n].word]]

NormalizedPiece(piece) ==
  [piece EXCEPT !.def = RemoveFirst(NormalizeForCompare(piece).def, IfNotExists)]

\* The pieces of the text in which objects were joined by semicolons.
Pieces(schema) == UNION {ToSet(o.text) : o \in schema}

Places(piece, schema) ==
  UNION {{<<o, n>> : n \in {m \in DOMAIN o.text : NormalizedPiece(o.text[m]) = piece}} : o \in schema}

\* The pieces are sorted: what counts is how often each occurs.
NormalizeSchema(schema) ==
  [p \in {NormalizedPiece(q) : q \in Pieces(schema)} |-> Cardinality(Places(p, schema))]

\* No two texts have one hash.
HashSchema(normalized) == normalized

-----------------------------------------------------------------------------
Bare(word) == [word EXCEPT !.gap = "blank"]

\* The name is the word behind the verb; "t(id" is one word.  What the code
\* does not know goes by its text.
ExtractName(piece) ==
  [of |-> piece.name,
   behind |-> IF piece.verb = "other" THEN piece.def
              ELSE IF piece.glued /\ 1 \in DOMAIN piece.def THEN <<Bare(piece.def[1])>> ELSE <<>>]

ObjectOf(p) == [type |-> IF p.verb = "other" THEN "unknown" ELSE p.verb, name |-> ExtractName(p), sql |-> p]

ParseSchemaObjects(schema) == {ObjectOf(p) : p \in Pieces(schema)}

Named(objs, name) == {o \in objs : o.name = name}

Modified(olds, news) ==
  {m \in [old: olds, new: news] :
     /\ m.old.name = m.new.name
     /\ NormalizeForCompare(m.old.sql) # NormalizeForCompare(m.new.sql)}

\* Mistake: what is gone is not looked for.
DiffForgetsDropped(old, new) ==
  LET olds == ParseSchemaObjects(old)
      news == ParseSchemaObjects(new)
  IN  [added    |-> {n \in news : Named(olds, n.name) = {}},
       modified |-> Modified(olds, news),
       dropped  |-> {}]

\* Objects are matched by name.  (Of objects that share a name the code takes the last.)
DiffSchemas(old, new) ==
  LET olds == ParseSchemaObjects(old)
      news == ParseSchemaObjects(new)
  IN  [added    |-> {n \in news : Named(olds, n.name) = {}},
       modified |-> Modified(olds, news),
       dropped  |-> {o \in olds : Named(news, o.name) = {}}]

-----------------------------------------------------------------------------
\* A baseline records a version when the hash is not the latest one's; versions[v] is schema_sql of version v - 1.
RecordVersion(versions, db) ==
  LET schema == ExtractSchema(db)
  IN  IF versions # <<>> /\ HashSchema(NormalizeSchema(Last(versions))) = HashSchema(NormalizeSchema(schema))
      THEN versions ELSE Append(versions, schema)
=============================================================================
