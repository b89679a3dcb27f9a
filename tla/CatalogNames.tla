---------------------------- MODULE CatalogNames ----------------------------
(***************************************************************************)
(* The names of databases in the catalog.  The command line addresses a    *)
(* database by its name, so two databases must not share one, although two *)
(* files may; availableDiscoveredName (internal/catalog/catalog.go) and    *)
(* availableCatalogName (internal/server/http.go) see to that.             *)
(*                                                                         *)
(* A name is a sequence: the file's name and what was appended to it.      *)
(* rows maps the source paths in the catalog to their names.               *)
(***************************************************************************)
EXTENDS Naturals, FiniteSets, Sequences, Functions

CONSTANTS
  FileName, \* the name of the file at each path
  Hash      \* the four bytes that name a path

Paths == DOMAIN FileName

\* A name is any sequence.
IsName(name) == Len(name) \in Nat /\ name = [i \in 1 .. Len(name) |-> name[i]]

ASSUME NamesAssumption == \A p \in Paths : IsName(FileName[p])

VARIABLE catalog  \* the rows there are

NoRows == [p \in {} |-> <<>>]

\* The path of the row that has a name, if there is one, is another's.
Taken(rows, name, path) == \E p \in DOMAIN rows \ {path} : rows[p] = name

\* The candidate with the least suffix that is free; there are more suffixes than rows.
FirstFree(rows, path, candidate) ==
  LET least == CHOOSE n \in DOMAIN candidate :
                 /\ ~Taken(rows, candidate[n], path)
                 /\ \A m \in DOMAIN candidate : m < n => Taken(rows, candidate[m], path)
  IN  candidate[least]

\* name, "name (2)", "name (3)", ...
AvailableCatalogName(rows, name, path) ==
  FirstFree(rows, path, [n \in 1 .. Cardinality(DOMAIN rows) + 1 |->
                           IF n = 1 THEN name ELSE name \o <<"(", n>>])

\* Mistake: a path that is known may be given another name.
AvailableRenaming(rows, name, path) ==
  IF path \in DOMAIN rows \/ ~Taken(rows, name, path) THEN name ELSE name \o <<"#", Hash[path]>>

\* name, "name (hash)", "name (hash)-2", "name (hash)-3", ...; a path that is known keeps its name.
AvailableDiscoveredName(rows, name, path) ==
  LET candidate == [n \in 0 .. Cardinality(DOMAIN rows) |->
                      CASE n = 0 -> name
                        [] n = 1 -> name \o <<"#", Hash[path]>>
                        [] OTHER -> name \o <<"#", Hash[path], n>>]
  IN  IF path \in DOMAIN rows THEN rows[path] ELSE FirstFree(rows, path, candidate)

\* A scan stores what it found.
UpsertDiscovered(rows, name, path) ==
  [p \in DOMAIN rows \cup {path} |->
     IF p = path THEN AvailableDiscoveredName(rows, name, path) ELSE rows[p]]

\* registerDatabase: the row of a managed database.  The two calls of the
\* catalog, one that chooses the name and one that stores it, are one step: a
\* name that is taken in between makes the second fail, for names are UNIQUE.
RegisterDatabase(rows, name, path) ==
  UpsertDiscovered(rows, AvailableCatalogName(rows, name, path), path)

DeleteDiscoveredByPath(rows, path) == Restrict(rows, DOMAIN rows \ {path})

-----------------------------------------------------------------------------
Discover(p) == catalog' = UpsertDiscovered(catalog, FileName[p], p)
Register(p) == catalog' = RegisterDatabase(catalog, FileName[p], p)
Delete(p)   == catalog' = DeleteDiscoveredByPath(catalog, p)

\* However databases are found, registered and removed, no two of them have
\* one name, and a database that stays keeps the name it has: a name that
\* sqnsl was told is that of the same file later (availableDiscoveredName,
\* availableCatalogName).
NamesTellDatabasesApart ==
  [][/\ IsInjective(catalog')
     /\ \A p \in DOMAIN catalog \cap DOMAIN catalog' : catalog'[p] = catalog[p]]_catalog
=============================================================================
