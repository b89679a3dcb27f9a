----------------------------- MODULE Exposures -----------------------------
(***************************************************************************)
(* Scoped CRUD APIs: the rows of api_exposures and the requests that make, *)
(* change, revoke and use them (internal/server/exposures.go and           *)
(* internal/catalog/exposures.go), on top of Registry, whose databases may *)
(* be dropped, created again or forgotten meanwhile.                       *)
(*                                                                         *)
(* A request reads an API once and then works for a while with what it     *)
(* read: it looks up the row of the database, opens the file at the row's  *)
(* path, reads the schema, and only then stores or serves anything.        *)
(*                                                                         *)
(* A scope stands for a table allowlist with its write opt-in, an access   *)
(* for a table with a method; Permits says which scope allows which.  What *)
(* a request does to the rows of an open file is in ColumnEdits.           *)
(***************************************************************************)
EXTENDS Registry

CONSTANTS
  Aliases,   \* names of APIs, chosen by the administrator
  Scopes,    \* allowlists with or without writes
  Accesses,  \* tables with methods
  Permits,   \* which accesses a scope allows
  NoApi,     \* no row in api_exposures
  NoCall,    \* a request that has read no API
  MaxTokens  \* bound: tokens ever issued

Token == 1 .. MaxTokens
Admin == 0  \* the daemon's own token, which every API accepts

Api  == [id: Id, scope: Scopes, token: Token, checked: File]
Call == [alias: Aliases, scope: Scopes, token: Token \cup {Admin},
         path: Paths \cup {None}]

ASSUME ExposuresAssumption ==
  /\ Permits \in [Scopes -> SUBSET Accesses]
  /\ MaxTokens \in Nat
  /\ NoApi \notin Api
  /\ NoCall \notin Call

VARIABLES
  api,     \* per alias its row in api_exposures; "checked", which is not in
           \* the row, is the file its allowlist was validated against
  issued,  \* the last token issued
  dead,    \* history: tokens that were rotated or whose API was removed
  strayed, \* history: aliases updated on behalf of another API of that name
  call     \* per request the API it works for, as it read it

vars == <<file, made, row, ids, at, spoilt, api, issued, dead, strayed, call>>

Live == {a \in Aliases : api[a] # NoApi}

Init ==
  /\ RegistryInit
  /\ api = [a \in Aliases |-> NoApi]
  /\ issued = 0
  /\ dead = {}
  /\ strayed = {}
  /\ call = [c \in Clients |-> NoCall]

-----------------------------------------------------------------------------
\* A request that returned has no variables any more.
Forget == call' = [c \in Clients |-> IF at'[c] = Idle THEN NoCall ELSE call[c]]

\* What Registry does leaves the APIs alone ...
Apart == Forget /\ UNCHANGED <<api, issued, dead, strayed>>

\* Mistake: the APIs of a removed row stay (foreign keys are not enforced).
CascadeForgotten == Forget /\ UNCHANGED <<api, issued, dead, strayed>>

\* ... but for the removal of rows, which removes their APIs (ON DELETE
\* CASCADE), and with them their tokens.
Cascade ==
  LET gone == {a \in Live : row'[api[a].id] = None}
  IN  /\ api' = [a \in Aliases |-> IF a \in gone THEN NoApi ELSE api[a]]
      /\ dead' = dead \cup {api[a].token : a \in gone}
      /\ Forget
      /\ UNCHANGED <<issued, strayed>>

NewToken == /\ issued < MaxTokens
            /\ issued' = issued + 1

Begin(c, op, pc, id, path, theCall) ==
  /\ at[c] = Idle
  /\ at' = [at EXCEPT ![c] = [Idle EXCEPT !.op = op, !.pc = pc, !.id = id, !.path = path]]
  /\ call' = [call EXCEPT ![c] = theCall]
  /\ UNCHANGED <<file, made, row, ids, spoilt, api, issued, dead, strayed>>

-----------------------------------------------------------------------------
\* POST /api/exposures.  resolveExposureSource takes a managed database, whose
\* row it looks for and if need be makes ...
ExposeManaged(c, a, s, n) ==
  /\ file[n] # NoFile
  /\ Begin(c, "expose", "row", NoId, n,
           [alias |-> a, scope |-> s, token |-> Admin, path |-> n])

\* ... or the id of a row, which openExposureDatabase will look up.
ExposeDiscovered(c, a, s, i) ==
  Begin(c, "expose", "resolve", i, row[i],
        [alias |-> a, scope |-> s, token |-> Admin, path |-> row[i]])

FindRow(c) ==
  LET found == RowOf(at[c].path)
  IN  /\ at[c].pc \in {"row", "reread"}
      /\ \/ /\ \E i \in found : at' = [at EXCEPT ![c].pc = "resolve", ![c].id = i]
         \/ /\ found = {}
            /\ IF at[c].pc = "row" THEN Go(c, "register") ELSE Return(c)
      /\ Apart
      /\ UNCHANGED <<file, made, row, ids, spoilt>>

\* PUT /api/exposures/{alias}
ChangeApi(c, a, s) ==
  /\ a \in Live
  /\ Begin(c, "put", "resolve", api[a].id, row[api[a].id],
           [alias |-> a, scope |-> s, token |-> api[a].token, path |-> row[api[a].id]])

\* /api/data/{alias}/{table}: token, table and method are checked against the
\* API as it is now.
Request(c, a, k, access) ==
  /\ a \in Live
  /\ k \in {api[a].token, Admin}
  /\ access \in Permits[api[a].scope]
  /\ Begin(c, "data", "resolve", api[a].id, row[api[a].id],
           [alias |-> a, scope |-> api[a].scope, token |-> k, path |-> row[api[a].id]])

\* openExposureDatabase: the path comes from the row with that id, if there
\* still is one ...
Resolve(c) ==
  LET i == at[c].id
  IN  /\ at[c].pc = "resolve"
      /\ IF row[i] = None THEN Return(c)
         ELSE at' = [at EXCEPT ![c].pc = "open", ![c].path = row[i]]
      /\ Apart
      /\ UNCHANGED <<file, made, row, ids, spoilt>>

\* Mistake: a file that is missing is opened nevertheless.
OpenAnyway(c) ==
  /\ at[c].pc = "open"
  /\ at' = [at EXCEPT ![c].pc = "use", ![c].file = file[at[c].path]]
  /\ Apart
  /\ UNCHANGED <<file, made, row, ids, spoilt>>

\* ... and the file from the path.  It is not created.
Open(c) ==
  LET p == at[c].path
  IN  /\ at[c].pc = "open"
      /\ IF file[p] = NoFile THEN Return(c)
         ELSE at' = [at EXCEPT ![c].pc = "use", ![c].file = file[p]]
      /\ Apart
      /\ UNCHANGED <<file, made, row, ids, spoilt>>

\* The request works on the file it has open, or fails: an error of SQLite, a
\* table that is not there, the time-out of ten seconds.
Finish(c) ==
  /\ at[c].pc \in {"row", "reread", "resolve", "open", "use"}
  /\ Return(c)
  /\ Apart
  /\ UNCHANGED <<file, made, row, ids, spoilt>>

\* CreateAPIExposure: the alias is the primary key, the id a foreign key.
InsertApi(c) ==
  LET a == call[c].alias
      i == at[c].id
  IN  /\ at[c].pc = "use" /\ at[c].op = "expose"
      /\ a \notin Live
      /\ row[i] # None
      /\ NewToken
      /\ api' = [api EXCEPT ![a] = [id |-> i, scope |-> call[c].scope,
                                    token |-> issued', checked |-> at[c].file]]
      /\ strayed' = strayed \ {a}
      /\ Return(c)
      /\ Forget
      /\ UNCHANGED <<file, made, row, ids, spoilt, dead>>

\* Mistake: the whole record is written back, with the token that was read.
UpdateWritesToken(c) ==
  LET a == call[c].alias
  IN  /\ at[c].pc = "use" /\ at[c].op = "put"
      /\ a \in Live
      /\ api' = [api EXCEPT ![a].scope = call[c].scope, ![a].checked = at[c].file,
                            ![a].token = call[c].token]
      /\ strayed' = IF api[a].id = at[c].id THEN strayed ELSE strayed \cup {a}
      /\ Return(c)
      /\ Forget
      /\ UNCHANGED <<file, made, row, ids, spoilt, issued, dead>>

\* UpdateAPIExposure goes by alias alone and leaves the token.
UpdateApi(c) ==
  LET a == call[c].alias
  IN  /\ at[c].pc = "use" /\ at[c].op = "put"
      /\ a \in Live
      /\ api' = [api EXCEPT ![a].scope = call[c].scope, ![a].checked = at[c].file]
      /\ strayed' = IF api[a].id = at[c].id THEN strayed ELSE strayed \cup {a}
      /\ Return(c)
      /\ Forget
      /\ UNCHANGED <<file, made, row, ids, spoilt, issued, dead>>

-----------------------------------------------------------------------------
\* DELETE /api/exposures/{alias}
DeleteApi(a) ==
  /\ a \in Live
  /\ api' = [api EXCEPT ![a] = NoApi]
  /\ dead' = dead \cup {api[a].token}
  /\ UNCHANGED <<file, made, row, ids, at, spoilt, issued, strayed, call>>

\* POST /api/exposures/{alias}/token
RotateToken(a) ==
  /\ a \in Live
  /\ NewToken
  /\ api' = [api EXCEPT ![a].token = issued']
  /\ dead' = dead \cup {api[a].token}
  /\ UNCHANGED <<file, made, row, ids, at, spoilt, strayed, call>>

-----------------------------------------------------------------------------
Databases ==
  \/ \E c \in Clients, n \in Names :
       CreateDatabase(c, n) \/ CreateFails(c, n) \/ FindDatabase(c, n)
  \/ \E c \in Clients :
       \/ Stat(c) \/ Upsert(c) \/ RegisterFails(c) \/ Rollback(c) \/ RollbackFails(c)
       \/ DropDatabase(c) \/ DropFails(c) \/ UnregisterFails(c)
  \/ \E p \in Others : ScanUpsert(p) \/ ApplicationFile(p)

Next ==
  \/ Databases /\ Apart
  \/ (\E c \in Clients : Unregister(c)) /\ Cascade
  \/ (\E i \in Id : DeleteDiscovered(i)) /\ Cascade
  \/ \E c \in Clients, a \in Aliases, s \in Scopes :
       \/ \E n \in Names : ExposeManaged(c, a, s, n)
       \/ \E i \in Id : ExposeDiscovered(c, a, s, i)
       \/ ChangeApi(c, a, s)
  \/ \E c \in Clients, a \in Aliases, k \in Token \cup {Admin}, x \in Accesses :
       Request(c, a, k, x)
  \/ \E c \in Clients :
       FindRow(c) \/ Resolve(c) \/ Open(c) \/ Finish(c) \/ InsertApi(c) \/ UpdateApi(c)
  \/ \E a \in Aliases : DeleteApi(a) \/ RotateToken(a)

Spec == Init /\ [][Next]_vars
-----------------------------------------------------------------------------
TypeOK ==
  /\ RegistryTypeOK
  /\ api \in [Aliases -> Api \cup {NoApi}]
  /\ issued \in Token \cup {0}
  /\ dead \subseteq Token
  /\ strayed \subseteq Aliases
  /\ call \in [Clients -> Call \cup {NoCall}]

\* A data request that works on a file found it at the path its API was for
\* when the request was admitted, however long ago that was: an id read from
\* an API never leads to another database, though its row may be deleted and
\* others inserted meanwhile.  The same holds for changes of an API and for
\* the database named in a new one.
ServesItsDatabase ==
  \A c \in Clients :
    at[c].pc = "use" /\ call[c].path # None => at[c].path = call[c].path

\* An API on a managed database is for the file its allowlist was validated
\* against: dropping the database takes its APIs with it, whoever creates one
\* of the same name, and an API that is stored late finds its row gone.  Left
\* out are the moment between the file's removal and its row's, names with a
\* row left behind (spoilt), and aliases that a PUT changed which was meant
\* for an API of that name revoked and created again since (strayed).
ApiServesItsFile ==
  \A a \in Live :
    LET n == row[api[a].id]
    IN  /\ n # None
        /\ \/ n \notin Names \ spoilt
           \/ a \in strayed
           \/ \E c \in Clients : at[c].path = n /\ at[c].pc = "unregister"
           \/ api[a].checked = file[n]

\* A token that was rotated, or whose API was revoked or removed with its
\* database, is never accepted again: no update that began before writes it
\* back, and none is issued twice.
RevokedForever == \A a \in Live : api[a].token \notin dead
=============================================================================
