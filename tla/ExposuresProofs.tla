-------------------------- MODULE ExposuresProofs --------------------------
(***************************************************************************)
(* Proofs about Exposures, for any requests, databases, APIs and bounds:   *)
(* an id never leads to another database, tokens stay revoked, rows and    *)
(* files of managed databases agree, and an API is for the file that its   *)
(* allowlist was validated against.                                        *)
(***************************************************************************)
EXTENDS Exposures, TLAPS

\* Steps at which a request for an API knows the path of its database.
OnPath == {"row", "reread", "register", "upsert", "open", "use"}

\* A request's variables with the API it works for.
Good(l, k) ==
  /\ l \in Local
  /\ k \in Call \cup {NoCall}
  /\ l.pc = "idle" => l = Idle /\ k = NoCall
  /\ l.op \in {"expose", "put", "data"} => k \in Call
  /\ l.op \in {"create", "drop"} => k = NoCall
  /\ l.pc \in {"register", "upsert", "rollback", "drop", "unregister", "row", "reread"} =>
       l.path \in Names
  /\ l.pc = "rollback" => l.op = "create"
  /\ l.pc \in {"register", "upsert"} => l.op \in {"create", "expose"}
  /\ l.pc \in {"drop", "unregister"} => l.op = "drop"
  /\ l.pc \in {"row", "reread"} => l.op = "expose"
  /\ l.pc \in {"row", "reread", "resolve", "open", "use"} => l.op \in {"expose", "put", "data"}
  /\ l.pc \in {"resolve", "open", "use"} => l.id \in Id
  /\ l.pc \in {"open", "use"} => l.path \in Paths
  /\ l.pc = "use" => l.file \in File
  /\ k # NoCall /\ k.path # None /\ l.pc \in OnPath => l.path = k.path

\* Its id, against the rows r, of which the first n ids were given out: the
\* row it names is the one it was read from, or gone.
Points(l, k, r, n) ==
  /\ l.pc = "resolve" /\ k # NoCall /\ k.path # None => l.id <= n /\ r[l.id] \in {None, k.path}
  /\ l.pc \in {"open", "use"} => l.id <= n /\ r[l.id] \in {None, l.path}

Requests == \A c \in Clients : Good(at[c], call[c]) /\ Points(at[c], call[c], row, ids)

\* Ids that were not given out have no row.
Rows == \A i \in Id : row[i] # None => i <= ids

Base == TypeOK /\ Rows /\ Requests

\* Rows come under new ids only.
RowsGrow == /\ ids <= ids'
            /\ \A i \in Id : i <= ids => row'[i] \in {None, row[i]}

Move(c, l, k) == /\ at' = [at EXCEPT ![c] = l]
                 /\ call' = [call EXCEPT ![c] = k]

-----------------------------------------------------------------------------
LEMMA IdleFacts ==
  /\ Idle \in Local /\ Idle.pc = "idle" /\ Idle.op = "none" /\ Idle.path = None
  /\ Good(Idle, NoCall) /\ \A r, n : Points(Idle, NoCall, r, n)
BY DEF Idle, Local, Step, Op, Good, Points, NoId, NoFile, OnPath

LEMMA Numbers == /\ Id \subseteq Nat /\ File \subseteq Nat /\ Token \subseteq Nat
                 /\ NoId \notin Id /\ NoFile \notin File /\ Admin \notin Token
                 /\ \A i \in Id : i <= MaxRows
BY RegistryAssumption, ExposuresAssumption DEF Id, File, Token, NoId, NoFile, Admin

LEMMA PointsGrow ==
  ASSUME NEW l, NEW k, NEW r, NEW s, NEW n \in Nat, NEW m \in Nat, n <= m,
         \A i \in Id : i <= n => s[i] \in {None, r[i]},
         l.pc \in {"resolve", "open", "use"} => l.id \in Id,
         Points(l, k, r, n)
  PROVE  Points(l, k, s, m)
<1>1. l.id \in Id /\ l.id <= n => l.id <= m /\ s[l.id] \in {None, r[l.id]}
  <2> SUFFICES ASSUME l.id \in Id, l.id <= n PROVE l.id <= m /\ s[l.id] \in {None, r[l.id]}
    OBVIOUS
  <2>1. s[l.id] \in {None, r[l.id]} OBVIOUS
  <2>2. l.id \in Nat BY Numbers
  <2>. QED BY <2>1, <2>2
<1>. QED BY <1>1, Zenon DEF Points

\* A step of one request keeps what is known of all of them when it leaves
\* its own variables as they should be.
LEMMA OneMove ==
  ASSUME Base, RowsGrow, ids' \in Nat, NEW c \in Clients, NEW l, NEW k, Move(c, l, k),
         Good(l, k), Points(l, k, row', ids')
  PROVE  at' \in [Clients -> Local] /\ call' \in [Clients -> Call \cup {NoCall}] /\ Requests'
<1>1. at \in [Clients -> Local] /\ call \in [Clients -> Call \cup {NoCall}]
      /\ ids \in Nat
  BY Numbers DEF Base, TypeOK, RegistryTypeOK
<1>2. at' \in [Clients -> Local] /\ call' \in [Clients -> Call \cup {NoCall}]
  BY <1>1 DEF Move, Good
<1>3. ASSUME NEW d \in Clients
      PROVE  Good(at'[d], call'[d]) /\ Points(at'[d], call'[d], row', ids')
  <2>1. CASE d = c
    <3>1. at'[d] = l /\ call'[d] = k BY <1>1, <2>1 DEF Move
    <3>. QED BY <3>1
  <2>2. CASE d # c
    <3>1. at'[d] = at[d] /\ call'[d] = call[d] BY <1>1, <2>2 DEF Move
    <3>2. Good(at[d], call[d]) /\ Points(at[d], call[d], row, ids) BY DEF Base, Requests
    <3>3. at[d].pc \in {"resolve", "open", "use"} => at[d].id \in Id BY <3>2 DEF Good
    <3>4. Points(at[d], call[d], row', ids')
      BY <1>1, <3>2, <3>3, PointsGrow DEF RowsGrow
    <3>. QED BY <3>1, <3>2, <3>4
  <2>. QED BY <2>1, <2>2
<1>. QED BY <1>2, <1>3 DEF Requests

\* No request has moved.
LEMMA NoMove ==
  ASSUME Base, RowsGrow, ids' \in Nat, UNCHANGED <<at, call>>
  PROVE  at' \in [Clients -> Local] /\ call' \in [Clients -> Call \cup {NoCall}] /\ Requests'
<1>1. at \in [Clients -> Local] /\ call \in [Clients -> Call \cup {NoCall}]
      /\ ids \in Nat
  BY Numbers DEF Base, TypeOK, RegistryTypeOK
<1>2. ASSUME NEW d \in Clients
      PROVE  Good(at[d], call[d]) /\ Points(at[d], call[d], row', ids')
  <2>1. Good(at[d], call[d]) /\ Points(at[d], call[d], row, ids) BY DEF Base, Requests
  <2>2. at[d].pc \in {"resolve", "open", "use"} => at[d].id \in Id BY <2>1 DEF Good
  <2>. QED BY <1>1, <2>1, <2>2, PointsGrow DEF RowsGrow
<1>. QED BY <1>1, <1>2 DEF Requests

\* Only the request that moves may return and forget its API.
LEMMA ForgetFacts ==
  ASSUME Base, Forget, NEW c \in Clients, NEW l \in Local, at' = [at EXCEPT ![c] = l]
  PROVE  Move(c, l, IF l = Idle THEN NoCall ELSE call[c])
<1>1. at \in [Clients -> Local] /\ call \in [Clients -> Call \cup {NoCall}]
  BY DEF Base, TypeOK, RegistryTypeOK
<1>2. ASSUME NEW d \in Clients, d # c PROVE call'[d] = call[d]
  <2>1. at'[d] = at[d] BY <1>1, <1>2
  <2>2. at[d] = Idle => call[d] = NoCall BY IdleFacts DEF Base, Requests, Good
  <2>. QED BY <2>1, <2>2 DEF Forget
<1>3. call'[c] = IF l = Idle THEN NoCall ELSE call[c] BY <1>1 DEF Forget
<1>. QED BY <1>1, <1>2, <1>3 DEF Move, Forget

LEMMA ForgetNothing ==
  ASSUME Base, Forget, at' = at
  PROVE  call' = call
<1>1. call \in [Clients -> Call \cup {NoCall}] BY DEF Base, TypeOK
<1>2. ASSUME NEW d \in Clients PROVE call'[d] = call[d]
  <2>1. at[d] = Idle => call[d] = NoCall BY IdleFacts DEF Base, Requests, Good
  <2>. QED BY <2>1 DEF Forget
<1>. QED BY <1>1, <1>2 DEF Forget

-----------------------------------------------------------------------------
\* What happens to rows.
LEMMA InsertRowFacts ==
  ASSUME Base, NEW p \in Paths, InsertRow(p)
  PROVE  /\ ids' = ids + 1 /\ ids' \in Id /\ row' \in [Id -> Paths \cup {None}]
         /\ row[ids'] = None
         /\ \A i \in Id : row'[i] = IF i = ids' THEN p ELSE row[i]
         /\ RowsGrow /\ Rows'
<1>1. row \in [Id -> Paths \cup {None}] /\ ids \in Nat
  BY Numbers DEF Base, TypeOK, RegistryTypeOK
<1>2. ids' = ids + 1 /\ ids' \in Id BY <1>1, RegistryAssumption DEF InsertRow, Id
<1>3. /\ row' \in [Id -> Paths \cup {None}]
      /\ \A i \in Id : row'[i] = IF i = ids' THEN p ELSE row[i]
  BY <1>1, <1>2 DEF InsertRow
<1>4. row[ids'] = None BY <1>1, <1>2 DEF Base, Rows
<1>5. RowsGrow BY <1>1, <1>2, <1>3, Numbers DEF RowsGrow
<1>6. Rows' BY <1>1, <1>2, <1>3, Numbers DEF Base, Rows
<1>. QED BY <1>2, <1>3, <1>4, <1>5, <1>6

LEMMA SameRows ==
  ASSUME Base, UNCHANGED <<row, ids>>
  PROVE  RowsGrow /\ Rows' /\ ids' \in Nat
BY Numbers DEF Base, TypeOK, RegistryTypeOK, RowsGrow, Rows

LEMMA GoFacts ==
  ASSUME Base, NEW c \in Clients, NEW pc \in Step, Go(c, pc)
  PROVE  \E l \in Local :
           /\ at' = [at EXCEPT ![c] = l]
           /\ l.pc = pc /\ l.op = at[c].op /\ l.path = at[c].path
           /\ l.id = at[c].id /\ l.file = at[c].file
<1> DEFINE l == [at[c] EXCEPT !.pc = pc]
<1>1. at \in [Clients -> Local] /\ at[c] \in Local BY DEF Base, TypeOK, RegistryTypeOK
<1>2. l \in Local /\ l.pc = pc /\ l.op = at[c].op /\ l.path = at[c].path
      /\ l.id = at[c].id /\ l.file = at[c].file
  BY <1>1 DEF Local
<1>3. at' = [at EXCEPT ![c] = l] BY <1>1 DEF Go
<1>. QED BY <1>2, <1>3

-----------------------------------------------------------------------------
(***************************************************************************)
(* What is stored keeps its type, and rows come under new ids.             *)
(***************************************************************************)
Store ==
  /\ file \in [Paths -> File \cup {NoFile}]
  /\ made \in File \cup {0}
  /\ row \in [Id -> Paths \cup {None}]
  /\ ids \in Id \cup {0}
  /\ spoilt \subseteq Names
  /\ api \in [Aliases -> Api \cup {NoApi}]
  /\ issued \in Token \cup {0}
  /\ dead \subseteq Token
  /\ strayed \subseteq Aliases

Catalogued == Store /\ Rows

LEMMA BaseStore == Base => Catalogued /\ \A c \in Clients : at[c] \in Local
BY DEF Base, TypeOK, RegistryTypeOK, Store, Catalogued

LEMMA NewFileFacts ==
  ASSUME Store, NEW p \in Paths, NewFile(p)
  PROVE  /\ made' \in File /\ file' \in [Paths -> File \cup {NoFile}]
         /\ file'[p] = made' /\ \A q \in Paths : q # p => file'[q] = file[q]
<1>1. made' \in File BY RegistryAssumption, Numbers DEF NewFile, Store, File
<1>. QED BY <1>1 DEF NewFile, Store

\* The steps of a creation or drop, but for the last one of a drop.
LEMMA DatabasesStore ==
  ASSUME Base, Databases, Apart
  PROVE  Catalogued' /\ RowsGrow
<1>1. Catalogued /\ \A c \in Clients : at[c] \in Local BY BaseStore
<1>2. UNCHANGED <<api, issued, dead, strayed>> BY DEF Apart
<1>3. \A c \in Clients : at[c].pc \in {"register", "upsert", "rollback", "drop", "unregister"}
                           => at[c].path \in Names
  BY DEF Base, Requests, Good
<1> USE DEF Catalogued, Store
<1>4. ASSUME UNCHANGED <<row, ids>>,
             file' \in [Paths -> File \cup {NoFile}], made' \in File \cup {0}, spoilt' \subseteq Names
      PROVE  Catalogued' /\ RowsGrow
  BY <1>1, <1>2, <1>4, SameRows
<1>5. ASSUME NEW c \in Clients, NEW n \in Names,
             CreateDatabase(c, n) \/ CreateFails(c, n) \/ FindDatabase(c, n)
      PROVE  Catalogued' /\ RowsGrow
  <2>1. CASE NewFile(n) /\ UNCHANGED <<row, ids>> /\ spoilt' \subseteq Names
    <3>1. made' \in File /\ file' \in [Paths -> File \cup {NoFile}]
      BY <1>1, <2>1, NewFileFacts DEF Paths
    <3>. QED BY <1>4, <2>1, <3>1
  <2>2. CASE CreateDatabase(c, n) BY <1>1, <2>1, <2>2 DEF CreateDatabase
  <2>3. CASE CreateFails(c, n) BY <1>1, <2>1, <2>3 DEF CreateFails, Spoil
  <2>4. CASE FindDatabase(c, n) BY <1>1, <1>4, <2>4 DEF FindDatabase
  <2>. QED BY <1>5, <2>2, <2>3, <2>4
<1>6. ASSUME NEW c \in Clients,
             \/ Stat(c) \/ RegisterFails(c) \/ Rollback(c) \/ RollbackFails(c)
             \/ DropDatabase(c) \/ DropFails(c) \/ UnregisterFails(c)
      PROVE  Catalogued' /\ RowsGrow
  <2>1. UNCHANGED <<row, ids, made>> /\ spoilt' \subseteq Names
    BY <1>1, <1>6 DEF Stat, RegisterFails, Rollback, RollbackFails, DropDatabase, DropFails,
                      UnregisterFails, Spoil
  <2>2. file' \in [Paths -> File \cup {NoFile}]
    BY <1>1, <1>6 DEF Stat, RegisterFails, Rollback, RollbackFails, DropDatabase, DropFails,
                      UnregisterFails
  <2>. QED BY <1>1, <1>4, <2>1, <2>2
<1>7. ASSUME NEW c \in Clients, Upsert(c)
      PROVE  Catalogued' /\ RowsGrow
  <2>1. UNCHANGED <<file, made>> /\ spoilt' \subseteq Names /\ at[c].path \in Paths
    BY <1>1, <1>3, <1>7 DEF Upsert, Spoil, Paths
  <2>2. CASE UNCHANGED <<row, ids>> BY <1>1, <1>4, <2>1, <2>2
  <2>3. CASE InsertRow(at[c].path) BY <1>1, <1>2, <2>1, <2>3, InsertRowFacts
  <2>. QED BY <1>7, <2>2, <2>3 DEF Upsert
<1>8. ASSUME NEW p \in Others, ScanUpsert(p) \/ ApplicationFile(p)
      PROVE  Catalogued' /\ RowsGrow
  <2>1. CASE ScanUpsert(p)
    BY <1>1, <1>2, <2>1, InsertRowFacts DEF ScanUpsert, Paths
  <2>2. CASE ApplicationFile(p)
    <3>1. made' \in File \cup {0} /\ file' \in [Paths -> File \cup {NoFile}]
      BY <1>1, <2>2, NewFileFacts DEF ApplicationFile, Paths
    <3>. QED BY <1>1, <1>4, <2>2, <3>1 DEF ApplicationFile
  <2>. QED BY <1>8, <2>1, <2>2
<1>. QED BY <1>5, <1>6, <1>7, <1>8 DEF Databases

\* The removal of rows.
Removal == \/ \E c \in Clients : Unregister(c)
           \/ \E i \in Id : DeleteDiscovered(i)

LEMMA RemovalFacts ==
  ASSUME Base, Removal
  PROVE  /\ row' \in [Id -> Paths \cup {None}] /\ \A i \in Id : row'[i] \in {None, row[i]}
         /\ UNCHANGED <<file, made, ids>> /\ spoilt' \subseteq Names
         /\ Rows' /\ RowsGrow
<1>1. Catalogued BY BaseStore
<1>2. /\ row' \in [Id -> Paths \cup {None}] /\ \A i \in Id : row'[i] \in {None, row[i]}
      /\ UNCHANGED <<file, made, ids>> /\ spoilt' \subseteq Names
  <2>1. CASE \E c \in Clients : Unregister(c)
    BY <1>1, <2>1 DEF Catalogued, Store, Unregister, Spoil
  <2>2. CASE \E i \in Id : DeleteDiscovered(i)
    BY <1>1, <2>2 DEF Catalogued, Store, DeleteDiscovered, Spoil
  <2>. QED BY <2>1, <2>2 DEF Removal
<1>3. ids \in Nat BY <1>1, Numbers DEF Catalogued, Store
<1>4. Rows' /\ RowsGrow BY <1>1, <1>2, <1>3 DEF Catalogued, Rows, RowsGrow
<1>. QED BY <1>2, <1>4

LEMMA ApiFacts ==
  ASSUME Store, NEW a \in Live
  PROVE  a \in Aliases /\ api[a] \in Api /\ api[a].id \in Id /\ api[a].token \in Token
         /\ api[a].scope \in Scopes /\ api[a].checked \in File
BY DEF Store, Live, Api

LEMMA CascadeStore ==
  ASSUME Base, Removal, Cascade
  PROVE  Catalogued' /\ RowsGrow
<1>1. Catalogued BY BaseStore
<1>2. /\ row' \in [Id -> Paths \cup {None}]
      /\ UNCHANGED <<file, made, ids>> /\ spoilt' \subseteq Names
      /\ Rows' /\ RowsGrow
  BY RemovalFacts
<1>3. api' \in [Aliases -> Api \cup {NoApi}] BY <1>1 DEF Cascade, Catalogued, Store
<1>4. dead' \subseteq Token BY <1>1, ApiFacts DEF Cascade, Catalogued, Store
<1>5. UNCHANGED <<issued, strayed>> BY DEF Cascade
<1>. QED BY <1>1, <1>2, <1>3, <1>4, <1>5 DEF Catalogued, Store

LEMMA NewTokenFacts ==
  ASSUME Store, NewToken
  PROVE  issued' = issued + 1 /\ issued \in Nat /\ issued' \in Token
BY ExposuresAssumption, Numbers DEF Store, NewToken, Token

\* The steps of requests for APIs.
RequestStep(c) ==
  \/ \E a \in Aliases, s \in Scopes :
       \/ \E n \in Names : ExposeManaged(c, a, s, n)
       \/ \E i \in Id : ExposeDiscovered(c, a, s, i)
       \/ ChangeApi(c, a, s)
  \/ \E a \in Aliases, k \in Token \cup {Admin}, x \in Accesses : Request(c, a, k, x)
  \/ FindRow(c) \/ Resolve(c) \/ Open(c) \/ Finish(c)

LEMMA RequestFrame ==
  ASSUME NEW c \in Clients, RequestStep(c)
  PROVE  UNCHANGED <<file, made, row, ids, spoilt, api, issued, dead, strayed>>
BY DEF RequestStep, ExposeManaged, ExposeDiscovered, ChangeApi, Request, FindRow, Resolve, Open,
       Finish, Begin, Apart

LEMMA InsertApiFacts ==
  ASSUME Base, NEW c \in Clients, InsertApi(c)
  PROVE  /\ call[c] \in Call /\ call[c].alias \in Aliases /\ call[c].alias \notin Live
         /\ at[c].pc = "use" /\ at[c].id \in Id /\ row[at[c].id] # None /\ NewToken
         /\ api' = [api EXCEPT ![call[c].alias] =
                      [id |-> at[c].id, scope |-> call[c].scope,
                       token |-> issued', checked |-> at[c].file]]
         /\ [id |-> at[c].id, scope |-> call[c].scope,
             token |-> issued', checked |-> at[c].file] \in Api
         /\ strayed' = strayed \ {call[c].alias}
         /\ Return(c) /\ Forget
         /\ UNCHANGED <<file, made, row, ids, spoilt, dead>>
<1>1. Good(at[c], call[c]) BY DEF Base, Requests
<1>2. call[c] \in Call /\ at[c].id \in Id /\ at[c].file \in File BY <1>1 DEF InsertApi, Good
<1>3. call[c].alias \in Aliases /\ call[c].scope \in Scopes BY <1>2 DEF Call
<1>4. NewToken BY DEF InsertApi
<1>5. issued' \in Token BY <1>4, BaseStore, NewTokenFacts DEF Catalogued
<1>. QED BY <1>2, <1>3, <1>4, <1>5 DEF InsertApi, Api

LEMMA UpdateApiFacts ==
  ASSUME Base, NEW c \in Clients, UpdateApi(c)
  PROVE  /\ call[c] \in Call /\ call[c].alias \in Live
         /\ at[c].pc = "use" /\ at[c].id \in Id
         /\ \E x \in Api : /\ api' = [api EXCEPT ![call[c].alias] = x]
                           /\ x.id = api[call[c].alias].id
                           /\ x.token = api[call[c].alias].token
                           /\ x.checked = at[c].file
         /\ strayed' = (IF api[call[c].alias].id = at[c].id THEN strayed
                        ELSE strayed \cup {call[c].alias})
         /\ Return(c) /\ Forget
         /\ UNCHANGED <<file, made, row, ids, spoilt, issued, dead>>
<1>1. Good(at[c], call[c]) BY DEF Base, Requests
<1>2. call[c] \in Call /\ at[c].id \in Id /\ at[c].file \in File BY <1>1 DEF UpdateApi, Good
<1>3. call[c].alias \in Live /\ call[c].scope \in Scopes BY <1>2 DEF Call, UpdateApi
<1> DEFINE a == call[c].alias
           x == [api[a] EXCEPT !.scope = call[c].scope, !.checked = at[c].file]
<1>4. Store /\ api[a] \in Api BY <1>3, BaseStore, ApiFacts DEF Catalogued
<1>5. x \in Api /\ x.id = api[a].id /\ x.token = api[a].token /\ x.checked = at[c].file
  BY <1>2, <1>3, <1>4 DEF Api
<1>6. api' = [api EXCEPT ![a] = x] BY <1>4 DEF UpdateApi, Store
<1>. QED BY <1>2, <1>3, <1>5, <1>6 DEF UpdateApi

LEMMA ApisStore ==
  ASSUME Base,
         \/ \E c \in Clients : InsertApi(c) \/ UpdateApi(c)
         \/ \E a \in Aliases : DeleteApi(a) \/ RotateToken(a)
  PROVE  Catalogued' /\ RowsGrow
<1>1. Catalogued BY BaseStore
<1> USE DEF Catalogued, Store
<1>2. ASSUME UNCHANGED <<file, made, row, ids, spoilt>>,
             api' \in [Aliases -> Api \cup {NoApi}], issued' \in Token \cup {0},
             dead' \subseteq Token, strayed' \subseteq Aliases
      PROVE  Catalogued' /\ RowsGrow
  BY <1>1, <1>2, SameRows
<1>3. ASSUME NEW c \in Clients, InsertApi(c) PROVE Catalogued' /\ RowsGrow
  <2>1. issued' \in Token BY <1>1, <1>3, InsertApiFacts, NewTokenFacts
  <2>. QED BY <1>1, <1>2, <1>3, <2>1, InsertApiFacts
<1>4. ASSUME NEW c \in Clients, UpdateApi(c) PROVE Catalogued' /\ RowsGrow
  <2>1. call[c].alias \in Aliases BY <1>4, UpdateApiFacts DEF Live
  <2>. QED BY <1>1, <1>2, <1>4, <2>1, UpdateApiFacts
<1>5. ASSUME NEW a \in Aliases, DeleteApi(a) PROVE Catalogued' /\ RowsGrow
  <2>1. api[a].token \in Token BY <1>1, <1>5, ApiFacts DEF DeleteApi
  <2>. QED BY <1>1, <1>2, <1>5, <2>1 DEF DeleteApi
<1>6. ASSUME NEW a \in Aliases, RotateToken(a) PROVE Catalogued' /\ RowsGrow
  <2>1. api[a] \in Api /\ api[a].token \in Token BY <1>1, <1>6, ApiFacts DEF RotateToken
  <2>2. issued' \in Token BY <1>1, <1>6, NewTokenFacts DEF RotateToken
  <2>3. [api[a] EXCEPT !.token = issued'] \in Api BY <2>1, <2>2 DEF Api
  <2>4. api' = [api EXCEPT ![a] = [api[a] EXCEPT !.token = issued']]
    BY <1>1, <1>6 DEF RotateToken
  <2>. QED BY <1>1, <1>2, <1>6, <2>1, <2>2, <2>3, <2>4 DEF RotateToken
<1>. QED BY <1>3, <1>4, <1>5, <1>6

\* Next, by the kinds of steps.
LEMMA Kinds ==
  Next => \/ Databases /\ Apart
          \/ Removal /\ Cascade
          \/ \E c \in Clients : RequestStep(c) \/ InsertApi(c) \/ UpdateApi(c)
          \/ \E a \in Aliases : DeleteApi(a) \/ RotateToken(a)
BY DEF Next, Removal, RequestStep

LEMMA StoreStep ==
  ASSUME Base, Next
  PROVE  Catalogued' /\ RowsGrow
<1>1. CASE Databases /\ Apart BY <1>1, DatabasesStore
<1>2. CASE Removal /\ Cascade BY <1>2, CascadeStore
<1>3. ASSUME NEW c \in Clients, RequestStep(c) PROVE Catalogued' /\ RowsGrow
  BY <1>3, RequestFrame, SameRows, BaseStore DEF Catalogued, Store
<1>4. CASE \/ \E c \in Clients : InsertApi(c) \/ UpdateApi(c)
           \/ \E a \in Aliases : DeleteApi(a) \/ RotateToken(a)
  BY <1>4, ApisStore
<1>. QED BY <1>1, <1>2, <1>3, <1>4, Kinds

-----------------------------------------------------------------------------
(***************************************************************************)
(* What requests know stays so.                                            *)
(***************************************************************************)
Typed == at' \in [Clients -> Local] /\ call' \in [Clients -> Call \cup {NoCall}] /\ Requests'

LEMMA ReturnMoves ==
  ASSUME Base, RowsGrow, ids' \in Nat, Forget, NEW c \in Clients, Return(c)
  PROVE  Typed
<1>1. Move(c, Idle, NoCall) BY IdleFacts, ForgetFacts DEF Return
<1>. QED BY <1>1, IdleFacts, OneMove DEF Typed

\* A request that goes on keeps its API.
LEMMA GoesOn ==
  ASSUME Base, RowsGrow, ids' \in Nat, Forget, NEW c \in Clients, NEW l \in Local,
         at' = [at EXCEPT ![c] = l], l.pc # "idle",
         Good(l, call[c]), Points(l, call[c], row', ids')
  PROVE  Typed
<1>1. l # Idle BY IdleFacts
<1>2. Move(c, l, call[c]) BY <1>1, ForgetFacts
<1>. QED BY <1>2, OneMove DEF Typed

\* It goes from one of its steps to the next, without new variables.
LEMMA GoMoves ==
  ASSUME Base, RowsGrow, ids' \in Nat, Forget, NEW c \in Clients,
         NEW pc \in {"register", "rollback", "unregister", "reread"}, Go(c, pc),
         at[c].path \in Names, at[c].pc # "idle",
         call[c] # NoCall /\ call[c].path # None => at[c].path = call[c].path,
         pc = "rollback" => at[c].op = "create",
         pc = "unregister" => at[c].op = "drop",
         pc \in {"register", "reread"} => at[c].op = "expose"
  PROVE  Typed
<1>1. PICK l \in Local : /\ at' = [at EXCEPT ![c] = l]
                         /\ l.pc = pc /\ l.op = at[c].op /\ l.path = at[c].path
                         /\ l.id = at[c].id /\ l.file = at[c].file
  BY GoFacts DEF Step
<1>2. Good(at[c], call[c]) BY DEF Base, Requests
<1>3. Good(l, call[c]) BY <1>1, <1>2 DEF Good
<1>4. Points(l, call[c], row', ids') BY <1>1 DEF Points
<1>. QED BY <1>1, <1>3, <1>4, GoesOn

LEMMA Begins ==
  ASSUME Base, RowsGrow, ids' \in Nat, NEW c \in Clients, NEW l, NEW k,
         at[c] = Idle, Move(c, l, k), Good(l, k), Points(l, k, row', ids')
  PROVE  Typed
BY OneMove DEF Typed

LEMMA DatabasesTyped ==
  ASSUME Base, RowsGrow, ids' \in Nat, Databases, Apart
  PROVE  Typed
<1>1. Forget BY DEF Apart
<1>2. \A c \in Clients : Good(at[c], call[c]) /\ at[c] \in Local /\ at[c].path \in Paths \cup {None}
  BY BaseStore DEF Base, Requests, Local
<1>3. Store /\ at \in [Clients -> Local] BY BaseStore DEF Catalogued, Base, TypeOK, RegistryTypeOK
<1>4. ASSUME NEW c \in Clients, NEW n \in Names, CreateDatabase(c, n) PROVE Typed
  <2> DEFINE l == [Idle EXCEPT !.pc = "register", !.op = "create", !.path = n, !.file = made']
  <2>1. made' \in File BY <1>3, <1>4, NewFileFacts DEF CreateDatabase, Paths
  <2>2. l \in Local /\ l.pc = "register" /\ l.op = "create" /\ l.path = n
    BY <2>1 DEF Idle, Local, Step, Op, Paths
  <2>3. at' = [at EXCEPT ![c] = l] /\ at[c] = Idle BY <1>4 DEF CreateDatabase
  <2> HIDE DEF l
  <2>4. call[c] = NoCall BY <1>2, <2>3, IdleFacts DEF Good
  <2>5. Good(l, call[c]) /\ Points(l, call[c], row', ids') BY <2>2, <2>4 DEF Good, Points
  <2>. QED BY <1>1, <2>2, <2>3, <2>5, GoesOn
<1>5. ASSUME UNCHANGED at PROVE Typed
  <2>1. call' = call BY <1>1, <1>5, ForgetNothing
  <2>. QED BY <1>5, <2>1, NoMove DEF Typed
<1>6. ASSUME NEW c \in Clients, NEW n \in Names, FindDatabase(c, n) PROVE Typed
  <2> DEFINE l == [Idle EXCEPT !.pc = "drop", !.op = "drop", !.path = n]
  <2>1. l \in Local /\ l.pc = "drop" /\ l.op = "drop" /\ l.path = n
    BY DEF Idle, Local, Step, Op, Paths
  <2>2. at' = [at EXCEPT ![c] = l] /\ at[c] = Idle BY <1>6 DEF FindDatabase
  <2> HIDE DEF l
  <2>3. call[c] = NoCall BY <1>2, <2>2, IdleFacts DEF Good
  <2>4. Good(l, call[c]) /\ Points(l, call[c], row', ids') BY <2>1, <2>3 DEF Good, Points
  <2>. QED BY <1>1, <2>1, <2>2, <2>4, GoesOn
<1>7. ASSUME NEW c \in Clients, Stat(c) PROVE Typed
  <2> DEFINE l == [at[c] EXCEPT !.pc = "upsert", !.file = file[at[c].path]]
  <2>1. at[c].pc = "register" /\ at[c].path \in Names /\ at[c].path \in Paths
    BY <1>2, <1>7 DEF Stat, Good, Paths
  <2>2. file[at[c].path] \in File \cup {NoFile} BY <1>3, <2>1 DEF Store
  <2>3. l \in Local /\ l.pc = "upsert" /\ l.op = at[c].op /\ l.path = at[c].path
    BY <1>2, <2>2 DEF Local, Step
  <2>4. at' = [at EXCEPT ![c] = l] BY <1>3, <1>7 DEF Stat
  <2> HIDE DEF l
  <2>5. Good(l, call[c]) /\ Points(l, call[c], row', ids')
    BY <1>2, <2>1, <2>3 DEF Good, Points, OnPath
  <2>. QED BY <1>1, <2>3, <2>4, <2>5, GoesOn
<1>8. ASSUME NEW c \in Clients, Upsert(c) \/ RegisterFails(c) PROVE Typed
  <2>1. /\ at[c].pc \in {"register", "upsert"} /\ at[c].path \in Names
        /\ at[c].op \in {"create", "expose"}
        /\ call[c] # NoCall /\ call[c].path # None => at[c].path = call[c].path
    BY <1>2, <1>8 DEF Upsert, RegisterFails, Good, OnPath
  <2>2. Return(c) \/ (Go(c, "reread") /\ at[c].op # "create")
          \/ (Go(c, "rollback") /\ at[c].op = "create")
    BY <1>8 DEF Upsert, RegisterFails
  <2>. QED BY <1>1, <2>1, <2>2, ReturnMoves, GoMoves
<1>9. ASSUME NEW c \in Clients,
             Rollback(c) \/ RollbackFails(c) \/ DropFails(c) \/ UnregisterFails(c)
      PROVE  Typed
  <2>1. Return(c) BY <1>9 DEF Rollback, RollbackFails, DropFails, UnregisterFails
  <2>. QED BY <1>1, <2>1, ReturnMoves
<1>10. ASSUME NEW c \in Clients, DropDatabase(c) PROVE Typed
  <2>1. at[c].pc = "drop" /\ Go(c, "unregister") BY <1>10 DEF DropDatabase
  <2>2. at[c].op = "drop" /\ at[c].path \in Names /\ call[c] = NoCall BY <1>2, <2>1 DEF Good
  <2>. QED BY <1>1, <2>1, <2>2, GoMoves
<1>11. ASSUME NEW c \in Clients, NEW n \in Names, CreateFails(c, n) PROVE Typed
  BY <1>5, <1>11 DEF CreateFails
<1>12. ASSUME NEW p \in Others, ScanUpsert(p) \/ ApplicationFile(p) PROVE Typed
  BY <1>5, <1>12 DEF ScanUpsert, ApplicationFile
<1>. QED BY <1>4, <1>6, <1>7, <1>8, <1>9, <1>10, <1>11, <1>12 DEF Databases

LEMMA RemovalTyped ==
  ASSUME Base, RowsGrow, ids' \in Nat, Removal, Cascade
  PROVE  Typed
<1>1. Forget BY DEF Cascade
<1>2. CASE \E c \in Clients : Unregister(c) BY <1>1, <1>2, ReturnMoves DEF Unregister
<1>3. CASE \E i \in Id : DeleteDiscovered(i)
  <2>1. at' = at BY <1>3 DEF DeleteDiscovered
  <2>2. call' = call BY <1>1, <2>1, ForgetNothing
  <2>. QED BY <2>1, <2>2, NoMove DEF Typed
<1>. QED BY <1>2, <1>3 DEF Removal

\* The first step of a request for an API.
LEMMA BeginTyped ==
  ASSUME Base, RowsGrow, ids' \in Nat, NEW c \in Clients,
         NEW op \in {"expose", "put", "data"}, NEW pc \in {"row", "resolve"},
         NEW id \in Id \cup {NoId}, NEW path \in Paths \cup {None}, NEW k \in Call,
         Begin(c, op, pc, id, path, k),
         k.path = path,
         pc = "row" => path \in Names /\ op = "expose",
         pc = "resolve" => id \in Id /\ path = row[id]
  PROVE  Typed
<1> DEFINE l == [Idle EXCEPT !.op = op, !.pc = pc, !.id = id, !.path = path]
<1>1. l \in Local /\ l.pc = pc /\ l.op = op /\ l.path = path /\ l.id = id
  BY DEF Idle, Local, Step, Op, NoFile
<1>2. Move(c, l, k) /\ at[c] = Idle /\ UNCHANGED <<row, ids>> BY DEF Begin, Move
<1> HIDE DEF l
<1>3. k # NoCall BY ExposuresAssumption
<1>4. Good(l, k) BY <1>1 DEF Good
<1>5. pc = "resolve" /\ row[id] # None => id <= ids BY DEF Base, Rows
<1>6. Points(l, k, row', ids') BY <1>1, <1>2, <1>5 DEF Points
<1>. QED BY <1>2, <1>4, <1>6, Begins

LEMMA RequestTyped ==
  ASSUME Base, RowsGrow, ids' \in Nat, NEW c \in Clients, RequestStep(c)
  PROVE  Typed
<1>1. Store /\ Rows /\ at \in [Clients -> Local] BY BaseStore DEF Catalogued, Base, TypeOK, RegistryTypeOK
<1>2. Good(at[c], call[c]) /\ Points(at[c], call[c], row, ids) /\ at[c] \in Local
  BY BaseStore DEF Base, Requests
<1>3. UNCHANGED <<row, ids>> BY RequestFrame
<1>4. ASSUME NEW a \in Aliases, NEW s \in Scopes, NEW n \in Names, ExposeManaged(c, a, s, n)
      PROVE  Typed
  <2> DEFINE k == [alias |-> a, scope |-> s, token |-> Admin, path |-> n]
  <2>1. k \in Call /\ k.path = n BY DEF Call, Paths
  <2>2. Begin(c, "expose", "row", NoId, n, k) BY <1>4 DEF ExposeManaged
  <2> HIDE DEF k
  <2>3. n \in Paths \cup {None} BY DEF Paths
  <2>. QED BY <2>1, <2>2, <2>3, BeginTyped
<1>5. ASSUME NEW a \in Aliases, NEW s \in Scopes, NEW i \in Id, ExposeDiscovered(c, a, s, i)
      PROVE  Typed
  <2> DEFINE k == [alias |-> a, scope |-> s, token |-> Admin, path |-> row[i]]
  <2>1. row[i] \in Paths \cup {None} BY <1>1 DEF Store
  <2>2. k \in Call /\ k.path = row[i] BY <2>1 DEF Call
  <2>3. Begin(c, "expose", "resolve", i, row[i], k) BY <1>5 DEF ExposeDiscovered
  <2> HIDE DEF k
  <2>. QED BY <2>1, <2>2, <2>3, BeginTyped
<1>6. ASSUME NEW a \in Aliases, NEW s \in Scopes, ChangeApi(c, a, s)
      PROVE  Typed
  <2> DEFINE k == [alias |-> a, scope |-> s, token |-> api[a].token, path |-> row[api[a].id]]
  <2>1. api[a].id \in Id /\ api[a].token \in Token BY <1>1, <1>6, ApiFacts DEF ChangeApi
  <2>2. row[api[a].id] \in Paths \cup {None} BY <1>1, <2>1 DEF Store
  <2>3. k \in Call /\ k.path = row[api[a].id] BY <2>1, <2>2 DEF Call
  <2>4. Begin(c, "put", "resolve", api[a].id, row[api[a].id], k) BY <1>6 DEF ChangeApi
  <2> HIDE DEF k
  <2>. QED BY <2>1, <2>2, <2>3, <2>4, BeginTyped
<1>7. ASSUME NEW a \in Aliases, NEW t \in Token \cup {Admin}, NEW x \in Accesses, Request(c, a, t, x)
      PROVE  Typed
  <2> DEFINE k == [alias |-> a, scope |-> api[a].scope, token |-> t, path |-> row[api[a].id]]
  <2>1. api[a].id \in Id /\ api[a].scope \in Scopes BY <1>1, <1>7, ApiFacts DEF Request
  <2>2. row[api[a].id] \in Paths \cup {None} BY <1>1, <2>1 DEF Store
  <2>3. k \in Call /\ k.path = row[api[a].id] BY <2>1, <2>2 DEF Call
  <2>4. Begin(c, "data", "resolve", api[a].id, row[api[a].id], k) BY <1>7 DEF Request
  <2> HIDE DEF k
  <2>. QED BY <2>1, <2>2, <2>3, <2>4, BeginTyped
<1>8. CASE FindRow(c)
  <2>1. Forget /\ at[c].pc \in {"row", "reread"} BY <1>8 DEF FindRow, Apart
  <2>2. /\ at[c].path \in Names /\ at[c].op \in {"expose", "put", "data"} /\ call[c] \in Call
        /\ call[c].path # None => at[c].path = call[c].path
    BY <1>2, <2>1, ExposuresAssumption DEF Good, OnPath
  <2>3. at[c].pc = "row" => at[c].op = "expose" BY <1>2 DEF Good
  <2>4. ASSUME NEW i \in RowOf(at[c].path), at' = [at EXCEPT ![c].pc = "resolve", ![c].id = i]
        PROVE  Typed
    <3> DEFINE l == [at[c] EXCEPT !.pc = "resolve", !.id = i]
    <3>1. i \in Id /\ row[i] = at[c].path /\ row[i] # None
      BY <2>2, <2>4, RegistryAssumption DEF RowOf, Paths
    <3>2. l \in Local /\ l.pc = "resolve" /\ l.op = at[c].op /\ l.path = at[c].path /\ l.id = i
      BY <1>2, <3>1 DEF Local, Step
    <3>3. at' = [at EXCEPT ![c] = l] BY <1>1, <2>4
    <3> HIDE DEF l
    <3>4. i <= ids BY <1>1, <3>1 DEF Rows
    <3>5. Good(l, call[c]) BY <1>2, <2>2, <3>1, <3>2 DEF Good, OnPath
    <3>6. Points(l, call[c], row', ids') BY <1>3, <2>2, <3>1, <3>2, <3>4 DEF Points
    <3>. QED BY <2>1, <3>2, <3>3, <3>5, <3>6, GoesOn
  <2>5. CASE Return(c) BY <2>1, <2>5, ReturnMoves
  <2>6. CASE Go(c, "register") /\ at[c].pc = "row" BY <2>1, <2>2, <2>3, <2>6, GoMoves
  <2>. QED BY <1>8, <2>4, <2>5, <2>6 DEF FindRow
<1>9. CASE Resolve(c)
  <2> DEFINE i == at[c].id
  <2>1. Forget /\ at[c].pc = "resolve" BY <1>9 DEF Resolve, Apart
  <2>2. i \in Id /\ call[c] \in Call /\ at[c].op \in {"expose", "put", "data"}
    BY <1>2, <2>1 DEF Good
  <2>3. CASE row[i] = None BY <1>9, <2>1, <2>3, ReturnMoves DEF Resolve
  <2>4. CASE row[i] # None
    <3> DEFINE l == [at[c] EXCEPT !.pc = "open", !.path = row[i]]
    <3>1. row[i] \in Paths /\ i <= ids BY <1>1, <2>2, <2>4 DEF Store, Rows
    <3>2. l \in Local /\ l.pc = "open" /\ l.op = at[c].op /\ l.path = row[i] /\ l.id = i
      BY <1>2, <3>1 DEF Local, Step
    <3>3. at' = [at EXCEPT ![c] = l] BY <1>1, <1>9, <2>4 DEF Resolve
    <3>4. call[c].path # None => row[i] = call[c].path
      BY <1>2, <2>1, <2>2, <2>4, ExposuresAssumption DEF Points
    <3> HIDE DEF l
    <3>5. Good(l, call[c]) BY <2>2, <3>1, <3>2, <3>4 DEF Good
    <3>6. Points(l, call[c], row', ids') BY <1>3, <3>1, <3>2 DEF Points
    <3>. QED BY <2>1, <3>2, <3>3, <3>5, <3>6, GoesOn
  <2>. QED BY <2>3, <2>4
<1>10. CASE Open(c)
  <2> DEFINE p == at[c].path
  <2>1. Forget /\ at[c].pc = "open" BY <1>10 DEF Open, Apart
  <2>2. p \in Paths /\ at[c].op \in {"expose", "put", "data"} BY <1>2, <2>1 DEF Good
  <2>3. CASE file[p] = NoFile BY <1>10, <2>1, <2>3, ReturnMoves DEF Open
  <2>4. CASE file[p] # NoFile
    <3> DEFINE l == [at[c] EXCEPT !.pc = "use", !.file = file[p]]
    <3>1. file[p] \in File BY <1>1, <2>2, <2>4 DEF Store
    <3>2. l \in Local /\ l.pc = "use" /\ l.op = at[c].op /\ l.path = p /\ l.id = at[c].id
          /\ l.file = file[p]
      BY <1>2, <3>1 DEF Local, Step
    <3>3. at' = [at EXCEPT ![c] = l] BY <1>1, <1>10, <2>4 DEF Open
    <3> HIDE DEF l
    <3>4. Good(l, call[c]) BY <1>2, <2>1, <2>2, <3>1, <3>2 DEF Good, OnPath
    <3>5. Points(l, call[c], row', ids') BY <1>2, <1>3, <2>1, <3>2 DEF Points
    <3>. QED BY <2>1, <3>2, <3>3, <3>4, <3>5, GoesOn
  <2>. QED BY <2>3, <2>4
<1>11. CASE Finish(c) BY <1>11, ReturnMoves DEF Finish, Apart
<1>. QED BY <1>4, <1>5, <1>6, <1>7, <1>8, <1>9, <1>10, <1>11 DEF RequestStep

LEMMA NextTyped ==
  ASSUME Base, Next
  PROVE  Base'
<1>1. Catalogued' /\ RowsGrow BY StoreStep
<1>2. ids' \in Nat BY <1>1, Numbers DEF Catalogued, Store
<1>3. Typed
  <2>1. CASE Databases /\ Apart BY <1>1, <1>2, <2>1, DatabasesTyped
  <2>2. CASE Removal /\ Cascade BY <1>1, <1>2, <2>2, RemovalTyped
  <2>3. ASSUME NEW c \in Clients, RequestStep(c) PROVE Typed BY <1>1, <1>2, <2>3, RequestTyped
  <2>4. ASSUME NEW c \in Clients, InsertApi(c) \/ UpdateApi(c) PROVE Typed
    BY <1>1, <1>2, <2>4, ReturnMoves DEF InsertApi, UpdateApi
  <2>5. ASSUME NEW a \in Aliases, DeleteApi(a) \/ RotateToken(a) PROVE Typed
    <3>1. UNCHANGED <<at, call>> BY <2>5 DEF DeleteApi, RotateToken
    <3>. QED BY <1>1, <1>2, <3>1, NoMove DEF Typed
  <2>. QED BY <2>1, <2>2, <2>3, <2>4, <2>5, Kinds
<1>. QED BY <1>1, <1>3 DEF Base, Typed, Catalogued, Store, TypeOK, RegistryTypeOK

LEMMA InitBase == Init => Base
<1> SUFFICES ASSUME Init PROVE Base
  OBVIOUS
<1>1. TypeOK
  BY IdleFacts, RegistryAssumption DEF Init, RegistryInit, TypeOK, RegistryTypeOK
<1>2. Rows BY DEF Init, RegistryInit, Rows
<1>3. Requests BY IdleFacts DEF Init, RegistryInit, Requests
<1>. QED BY <1>1, <1>2, <1>3 DEF Base

LEMMA BaseStutters == Base /\ UNCHANGED vars => Base'
BY DEF Base, TypeOK, RegistryTypeOK, Rows, Requests, vars

LEMMA BaseStep == Base /\ [Next]_vars => Base'
BY NextTyped, BaseStutters

\* Every variable keeps its type.
THEOREM TypeCorrect == Spec => []TypeOK
<1>1. Base => TypeOK BY DEF Base
<1>. QED BY <1>1, InitBase, BaseStep, PTL DEF Spec

\* A request works on the file at the path that its API was for when it was
\* admitted, whatever rows are removed and inserted before it gets there.
THEOREM RequestsStayOnTheirDatabase == Spec => []ServesItsDatabase
<1>1. Base => ServesItsDatabase
  BY ExposuresAssumption DEF Base, Requests, Good, OnPath, ServesItsDatabase
<1>. QED BY <1>1, InitBase, BaseStep, PTL DEF Spec

-----------------------------------------------------------------------------
(***************************************************************************)
(* Tokens.                                                                 *)
(***************************************************************************)
\* No token is live twice, dead and live, or dead and still to be issued.
Tokens ==
  /\ \A a \in Live : api[a].token <= issued /\ api[a].token \notin dead
  /\ \A a, b \in Live : a # b => api[a].token # api[b].token
  /\ \A t \in dead : t <= issued

LEMMA TokensStep ==
  ASSUME Base, Tokens, Next
  PROVE  Tokens'
<1>1. Store BY BaseStore DEF Catalogued
<1>2. /\ issued \in Nat /\ dead \subseteq Nat
      /\ \A a \in Live : a \in Aliases /\ api[a] \in Api /\ api[a].token \in Nat
  <2>1. issued \in Nat /\ dead \subseteq Nat BY <1>1, Numbers DEF Store
  <2>2. \A a \in Live : a \in Aliases /\ api[a] \in Api /\ api[a].token \in Token
    BY <1>1, ApiFacts
  <2>. QED BY <2>1, <2>2, Numbers
<1>3. ASSUME UNCHANGED <<api, issued, dead>> PROVE Tokens'
  BY <1>3 DEF Tokens, Live
<1>4. CASE Databases /\ Apart BY <1>3, <1>4 DEF Apart
<1>5. CASE Removal /\ Cascade
  <2>1. /\ \A a \in Live' : a \in Live /\ api'[a] = api[a]
        /\ \A t \in dead' : t \in dead \/ \E a \in Live \ Live' : t = api[a].token
        /\ issued' = issued
    BY <1>1, <1>5 DEF Cascade, Store, Live
  <2>2. \A a \in Live' : api'[a].token <= issued' /\ api'[a].token \notin dead'
    BY <2>1 DEF Tokens
  <2>3. \A t \in dead' : t <= issued' BY <2>1 DEF Tokens
  <2>4. \A a, b \in Live' : a # b => api'[a].token # api'[b].token BY <2>1 DEF Tokens
  <2>. QED BY <2>2, <2>3, <2>4 DEF Tokens
<1>6. ASSUME NEW c \in Clients, RequestStep(c) PROVE Tokens'
  BY <1>3, <1>6, RequestFrame
<1>7. ASSUME NEW c \in Clients, InsertApi(c) PROVE Tokens'
  <2> DEFINE b == call[c].alias
  <2>1. issued' = issued + 1 BY <1>1, <1>7, InsertApiFacts, NewTokenFacts
  <2>2. /\ b \notin Live /\ dead' = dead /\ api'[b].token = issued'
        /\ \A a \in Live' : a = b \/ (a \in Live /\ api'[a] = api[a])
    <3> DEFINE x == [id |-> at[c].id, scope |-> call[c].scope,
                     token |-> issued', checked |-> at[c].file]
    <3>1. api' = [api EXCEPT ![b] = x] /\ b \in Aliases /\ b \notin Live /\ dead' = dead
      BY <1>7, InsertApiFacts
    <3>2. x.token = issued' OBVIOUS
    <3> HIDE DEF x, b
    <3>. QED BY <1>1, <3>1, <3>2 DEF Store, Live
  <2> HIDE DEF b
  <2>3. \A a \in Live' : api'[a].token <= issued' /\ api'[a].token \notin dead'
    BY <1>2, <2>1, <2>2 DEF Tokens
  <2>4. \A a, d \in Live' : a # d => api'[a].token # api'[d].token
    BY <1>2, <2>1, <2>2 DEF Tokens
  <2>5. \A t \in dead' : t <= issued' BY <1>2, <2>1, <2>2 DEF Tokens
  <2>. QED BY <2>3, <2>4, <2>5 DEF Tokens
<1>8. ASSUME NEW c \in Clients, UpdateApi(c) PROVE Tokens'
  <2> DEFINE b == call[c].alias
  <2>1. PICK x \in Api : /\ api' = [api EXCEPT ![b] = x]
                         /\ x.token = api[b].token
    BY <1>8, UpdateApiFacts
  <2>2. UNCHANGED <<issued, dead>> /\ b \in Live BY <1>8, UpdateApiFacts
  <2> HIDE DEF b
  <2>3. \A a \in Live' : a \in Live /\ api'[a].token = api[a].token
    BY <1>1, <2>1, <2>2 DEF Store, Live
  <2>4. \A a \in Live' : api'[a].token <= issued' /\ api'[a].token \notin dead'
    BY <2>2, <2>3 DEF Tokens
  <2>5. \A a, d \in Live' : a # d => api'[a].token # api'[d].token BY <2>3 DEF Tokens
  <2>. QED BY <2>2, <2>4, <2>5 DEF Tokens
<1>9. ASSUME NEW b \in Aliases, DeleteApi(b) PROVE Tokens'
  <2>1. /\ b \in Live /\ issued' = issued /\ dead' = dead \cup {api[b].token}
        /\ \A a \in Live' : a # b /\ a \in Live /\ api'[a] = api[a]
    BY <1>1, <1>9 DEF DeleteApi, Store, Live
  <2>2. \A a \in Live' : api'[a].token <= issued' /\ api'[a].token \notin dead'
    BY <1>2, <2>1 DEF Tokens
  <2>3. \A a, d \in Live' : a # d => api'[a].token # api'[d].token BY <2>1 DEF Tokens
  <2>4. \A t \in dead' : t <= issued' BY <2>1 DEF Tokens
  <2>. QED BY <2>2, <2>3, <2>4 DEF Tokens
<1>10. ASSUME NEW b \in Aliases, RotateToken(b) PROVE Tokens'
  <2>1. issued' = issued + 1 BY <1>1, <1>10, NewTokenFacts DEF RotateToken
  <2>2. api' = [api EXCEPT ![b] = [api[b] EXCEPT !.token = issued']]
    BY <1>1, <1>10 DEF RotateToken, Store
  <2>3. b \in Live /\ api[b] \in Api /\ dead' = dead \cup {api[b].token}
    BY <1>2, <1>10 DEF RotateToken
  <2>4. [api[b] EXCEPT !.token = issued'].token = issued' BY <2>3 DEF Api
  <2>5. /\ api'[b].token = issued'
        /\ \A a \in Live' : a = b \/ (a \in Live /\ api'[a] = api[a])
    BY <1>1, <1>10, <2>2, <2>4 DEF Store, Live
  <2>6. \A a \in Live' : api'[a].token <= issued' /\ api'[a].token \notin dead'
    BY <1>2, <2>1, <2>3, <2>5 DEF Tokens
  <2>7. \A a, d \in Live' : a # d => api'[a].token # api'[d].token
    BY <1>2, <2>1, <2>3, <2>5 DEF Tokens
  <2>8. \A t \in dead' : t <= issued' BY <1>2, <2>1, <2>3 DEF Tokens
  <2>. QED BY <2>6, <2>7, <2>8 DEF Tokens
<1>. QED BY <1>4, <1>5, <1>6, <1>7, <1>8, <1>9, <1>10, Kinds

\* A token that was rotated or revoked never opens an API again.
THEOREM TokensStayRevoked == Spec => []RevokedForever
<1>1. Init => Tokens BY DEF Init, Tokens, Live
<1>2. Base /\ Tokens /\ [Next]_vars => Tokens'
  <2>1. UNCHANGED vars /\ Tokens => Tokens' BY DEF vars, Tokens, Live
  <2>. QED BY <2>1, TokensStep
<1>3. Tokens => RevokedForever BY DEF Tokens, RevokedForever
<1>. QED BY <1>1, <1>2, <1>3, InitBase, BaseStep, PTL DEF Spec

-----------------------------------------------------------------------------
(***************************************************************************)
(* Files, rows and APIs.                                                   *)
(***************************************************************************)
Unregistering(n) == \E c \in Clients : at[c].path = n /\ at[c].pc = "unregister"

Creating(n) ==
  \E c \in Clients : /\ at[c].path = n /\ at[c].op = "create"
                     /\ at[c].pc \in {"register", "upsert", "rollback"}

\* A request that is about to undo the difference stands behind every
\* difference between the files and the rows of managed databases.
Matched ==
  \A n \in Names \ spoilt :
    /\ file[n] # NoFile /\ RowOf(n) = {} => Creating(n)
    /\ file[n] = NoFile /\ RowOf(n) # {} => Unregistering(n)

\* Nobody but c has moved.
Alone(c) == \A d \in Clients \ {c} : at'[d] = at[d]

LEMMA AloneFacts ==
  ASSUME Base, NEW c \in Clients
  PROVE  /\ Return(c) => Alone(c) /\ at'[c] = Idle
         /\ \A l : at' = [at EXCEPT ![c] = l] => Alone(c) /\ at'[c] = l
         /\ \A pc \in Step : Go(c, pc) =>
              /\ Alone(c) /\ at'[c].pc = pc /\ at'[c].path = at[c].path
              /\ at'[c].op = at[c].op
<1>1. at \in [Clients -> Local] BY DEF Base, TypeOK, RegistryTypeOK
<1>2. \A pc \in Step : Go(c, pc) => Alone(c) BY <1>1 DEF Go, Alone
<1>3. ASSUME NEW pc \in Step, Go(c, pc)
      PROVE  at'[c].pc = pc /\ at'[c].path = at[c].path /\ at'[c].op = at[c].op
  <2>1. PICK l \in Local : /\ at' = [at EXCEPT ![c] = l]
                           /\ l.pc = pc /\ l.op = at[c].op /\ l.path = at[c].path
    BY <1>3, GoFacts
  <2>. QED BY <1>1, <2>1
<1>. QED BY <1>1, <1>2, <1>3 DEF Return, Alone

LEMMA UnregisteringStays ==
  ASSUME NEW n, Unregistering(n), NEW c \in Clients, Alone(c),
         at[c].path = n => at[c].pc # "unregister"
  PROVE  Unregistering(n)'
BY DEF Unregistering, Alone

LEMMA CreatingStays ==
  ASSUME NEW n, Creating(n), NEW c \in Clients, Alone(c),
         at[c].path = n /\ at[c].op = "create" => at[c].pc \notin {"register", "upsert", "rollback"}
  PROVE  Creating(n)'
BY DEF Creating, Alone

\* Rows of other paths.
LEMMA OtherRows ==
  ASSUME NEW n, UNCHANGED row
  PROVE  RowOf(n)' = RowOf(n)
BY DEF RowOf

LEMMA InsertedRows ==
  ASSUME Base, NEW p \in Paths, InsertRow(p)
  PROVE  RowOf(p)' # {} /\ \A n \in Paths : n # p => RowOf(n)' = RowOf(n)
<1>1. /\ ids' \in Id /\ row[ids'] = None
      /\ \A i \in Id : row'[i] = IF i = ids' THEN p ELSE row[i]
  BY InsertRowFacts
<1>. QED BY <1>1, RegistryAssumption DEF RowOf

\* The steps of requests for APIs have no part in it.
LEMMA MatchedApart ==
  ASSUME Base, Matched, UNCHANGED <<file, row, spoilt>>, NEW c \in Clients, Alone(c),
         at[c].pc \notin {"unregister", "rollback"},
         at[c].pc \in {"register", "upsert"} => at[c].op # "create"
  PROVE  Matched'
<1>1. ASSUME NEW n \in Names \ spoilt
      PROVE  /\ file[n] # NoFile /\ RowOf(n) = {} => Creating(n)'
             /\ file[n] = NoFile /\ RowOf(n) # {} => Unregistering(n)'
  BY CreatingStays, UnregisteringStays DEF Matched
<1>. QED BY <1>1, OtherRows DEF Matched

\* A step on one name leaves the others as they are.
LEMMA OnOneName ==
  ASSUME Matched, NEW c \in Clients, Alone(c), NEW m \in Names, at[c].path \in {m, None},
         spoilt \subseteq spoilt',
         \A n \in Names : n # m => file'[n] = file[n] /\ RowOf(n)' = RowOf(n),
         m \notin spoilt' =>
           /\ file'[m] # NoFile /\ RowOf(m)' = {} => Creating(m)'
           /\ file'[m] = NoFile /\ RowOf(m)' # {} => Unregistering(m)',
         None \notin Names
  PROVE  Matched'
<1>1. ASSUME NEW n \in Names \ spoilt', n # m
      PROVE  /\ file'[n] # NoFile /\ RowOf(n)' = {} => Creating(n)'
             /\ file'[n] = NoFile /\ RowOf(n)' # {} => Unregistering(n)'
  <2>1. at[c].path # n BY <1>1
  <2>2. Creating(n) => Creating(n)' BY <2>1, CreatingStays
  <2>3. Unregistering(n) => Unregistering(n)' BY <2>1, UnregisteringStays
  <2>. QED BY <1>1, <2>2, <2>3 DEF Matched
<1>2. ASSUME NEW n \in Names \ spoilt'
      PROVE  /\ file'[n] # NoFile /\ RowOf(n)' = {} => Creating(n)'
             /\ file'[n] = NoFile /\ RowOf(n)' # {} => Unregistering(n)'
  <2>1. CASE n = m BY <2>1
  <2>2. CASE n # m BY <1>1, <2>2
  <2>. QED BY <2>1, <2>2
<1>. QED BY <1>2 DEF Matched

\* Nobody has moved, and nothing of managed databases has changed.
LEMMA OnNoName ==
  ASSUME Matched, at' = at, spoilt' = spoilt,
         \A n \in Names : file'[n] = file[n] /\ RowOf(n)' = RowOf(n)
  PROVE  Matched'
BY DEF Matched, Creating, Unregistering

LEMMA SpoiltGrows ==
  ASSUME Store, NEW p, Spoil(p)
  PROVE  spoilt \subseteq spoilt' /\ (p \in Names => p \in spoilt')
BY DEF Spoil

LEMMA DatabasesMatched ==
  ASSUME Base, Matched, Databases, Apart
  PROVE  Matched'
<1>1. Store /\ at \in [Clients -> Local]
  BY BaseStore DEF Catalogued, Base, TypeOK, RegistryTypeOK
<1>2. None \notin Names /\ Names \subseteq Paths /\ \A n \in Names : n \notin Others
  BY RegistryAssumption DEF Paths
<1>3. \A c \in Clients : Good(at[c], call[c]) BY DEF Base, Requests
<1>4. \A c \in Clients : at[c].pc \in {"register", "upsert", "rollback", "drop", "unregister"}
                           => at[c].path \in Names
  BY <1>3 DEF Good
<1>5. ASSUME UNCHANGED row PROVE \A n \in Names : RowOf(n)' = RowOf(n) BY <1>5, OtherRows
<1>6. ASSUME NEW c \in Clients, NEW n \in Names, CreateDatabase(c, n) PROVE Matched'
  <2> DEFINE l == [Idle EXCEPT !.pc = "register", !.op = "create", !.path = n, !.file = made']
  <2>1. l.pc = "register" /\ l.op = "create" /\ l.path = n BY DEF Idle
  <2>2. at' = [at EXCEPT ![c] = l] /\ at[c] = Idle /\ UNCHANGED <<row, spoilt>>
    BY <1>6 DEF CreateDatabase
  <2> HIDE DEF l
  <2>3. Alone(c) /\ at'[c] = l BY <2>2, AloneFacts
  <2>4. Creating(n)' BY <2>1, <2>3 DEF Creating
  <2>5. /\ file'[n] \in File /\ \A m \in Names : m # n => file'[m] = file[m]
    BY <1>1, <1>2, <1>6, NewFileFacts DEF CreateDatabase
  <2>6. file'[n] # NoFile BY <2>5, Numbers
  <2>. QED BY <1>2, <1>5, <2>2, <2>3, <2>4, <2>5, <2>6, IdleFacts, OnOneName
<1>7. ASSUME NEW c \in Clients, NEW n \in Names, CreateFails(c, n) PROVE Matched'
  <2>1. UNCHANGED <<row, at>> /\ Spoil(n) /\ at[c] = Idle BY <1>7 DEF CreateFails
  <2>2. Alone(c) BY <2>1 DEF Alone
  <2>3. \A m \in Names : m # n => file'[m] = file[m]
    BY <1>1, <1>2, <1>7, NewFileFacts DEF CreateFails
  <2>4. spoilt \subseteq spoilt' /\ n \in spoilt' BY <1>1, <2>1, SpoiltGrows
  <2>. QED BY <1>2, <1>5, <2>1, <2>2, <2>3, <2>4, IdleFacts, OnOneName
<1>8. ASSUME NEW c \in Clients, NEW n \in Names, FindDatabase(c, n) PROVE Matched'
  <2>1. at[c] = Idle /\ Alone(c) /\ UNCHANGED <<file, row, spoilt>>
    BY <1>8, AloneFacts DEF FindDatabase
  <2>. QED BY <2>1, IdleFacts, MatchedApart
<1>9. ASSUME NEW c \in Clients, Stat(c) PROVE Matched'
  <2>0. PICK n \in Names : n = at[c].path BY <1>4, <1>9 DEF Stat
  <2> DEFINE l == [at[c] EXCEPT !.pc = "upsert", !.file = file[n]]
  <2>1. at[c].pc = "register" /\ n \in Names /\ at[c] \in Local /\ file[n] # NoFile
        /\ UNCHANGED <<file, row, spoilt>>
    BY <2>0, <1>1, <1>4, <1>9 DEF Stat
  <2>2. file[n] \in File BY <1>1, <1>2, <2>1 DEF Store
  <2>3. l.pc = "upsert" /\ l.op = at[c].op /\ l.path = n BY <2>0, <2>1, <2>2 DEF Local
  <2>4. at' = [at EXCEPT ![c] = l] BY <2>0, <1>1, <1>9 DEF Stat
  <2> HIDE DEF l
  <2>5. Alone(c) /\ at'[c] = l BY <2>4, AloneFacts
  <2>6. Creating(n) => Creating(n)'
    <3>1. CASE at[c].op = "create" BY <2>3, <2>5, <3>1 DEF Creating
    <3>2. CASE at[c].op # "create" BY <2>5, <3>2, CreatingStays
    <3>. QED BY <3>1, <3>2
  <2>. QED BY <2>0, <1>2, <1>5, <2>1, <2>5, <2>6, OnOneName DEF Matched
<1>10. ASSUME NEW c \in Clients, Upsert(c) PROVE Matched'
  <2>0. PICK n \in Names : n = at[c].path BY <1>4, <1>10 DEF Upsert
  <2>1. at[c].pc = "upsert" /\ n \in Names /\ UNCHANGED file
    BY <1>4, <1>10 DEF Upsert
  <2>2. Alone(c) BY <1>10, AloneFacts DEF Upsert, Step
  <2>3. RowOf(n)' # {} /\ \A m \in Names : m # n => RowOf(m)' = RowOf(m)
    <3>1. CASE RowOf(n) # {} /\ UNCHANGED row BY <1>5, <2>1, <3>1
    <3>2. CASE InsertRow(n) BY <1>2, <2>1, <3>2, InsertedRows
    <3>. QED BY <2>0, <1>10, <3>1, <3>2 DEF Upsert
  <2>4. spoilt \subseteq spoilt' /\ (file[n] = NoFile => n \in spoilt')
    BY <2>0, <1>1, <1>10, <2>1, SpoiltGrows DEF Upsert
  <2>. QED BY <2>0, <1>2, <2>1, <2>2, <2>3, <2>4, OnOneName
<1>11. ASSUME NEW c \in Clients, RegisterFails(c) PROVE Matched'
  <2>0. PICK n \in Names : n = at[c].path BY <1>4, <1>11 DEF RegisterFails
  <2>1. at[c].pc \in {"register", "upsert"} /\ n \in Names /\ UNCHANGED <<file, row, spoilt>>
    BY <1>4, <1>11 DEF RegisterFails
  <2>2. CASE at[c].op = "create"
    <3>1. Alone(c) /\ at'[c].pc = "rollback" /\ at'[c].path = n /\ at'[c].op = "create"
      BY <2>0, <1>11, <2>2, AloneFacts DEF RegisterFails, Step
    <3>2. Creating(n)' BY <3>1 DEF Creating
    <3>3. Unregistering(n) => Unregistering(n)' BY <2>1, <3>1, UnregisteringStays
    <3>. QED BY <2>0, <1>2, <1>5, <2>1, <3>1, <3>2, <3>3, OnOneName DEF Matched
  <2>3. CASE at[c].op # "create"
    <3>1. Alone(c) BY <1>11, <2>3, AloneFacts DEF RegisterFails
    <3>. QED BY <2>1, <2>3, <3>1, MatchedApart
  <2>. QED BY <2>2, <2>3
<1>12. ASSUME NEW c \in Clients, Rollback(c) PROVE Matched'
  <2>0. PICK n \in Names : n = at[c].path BY <1>4, <1>12 DEF Rollback
  <2>1. n \in Names /\ UNCHANGED row /\ Alone(c) /\ file' = [file EXCEPT ![n] = NoFile]
    BY <2>0, <1>4, <1>12, AloneFacts DEF Rollback
  <2>2. file'[n] = NoFile /\ \A m \in Names : m # n => file'[m] = file[m]
    BY <1>1, <1>2, <2>1 DEF Store
  <2>3. spoilt \subseteq spoilt' /\ (RowOf(n) # {} => n \in spoilt')
    BY <2>0, <1>1, <1>12, <2>1, SpoiltGrows DEF Rollback
  <2>. QED BY <2>0, <1>2, <1>5, <2>1, <2>2, <2>3, OnOneName
<1>13. ASSUME NEW c \in Clients, RollbackFails(c) \/ UnregisterFails(c) PROVE Matched'
  <2>0. PICK n \in Names : n = at[c].path BY <1>4, <1>13 DEF RollbackFails, UnregisterFails
  <2>1. n \in Names /\ UNCHANGED <<file, row>> /\ Alone(c) /\ Spoil(n)
    BY <2>0, <1>4, <1>13, AloneFacts DEF RollbackFails, UnregisterFails
  <2>2. spoilt \subseteq spoilt' /\ n \in spoilt' BY <1>1, <2>1, SpoiltGrows
  <2>. QED BY <2>0, <1>2, <1>5, <2>1, <2>2, OnOneName
<1>14. ASSUME NEW c \in Clients, DropDatabase(c) PROVE Matched'
  <2>0. PICK n \in Names : n = at[c].path BY <1>4, <1>14 DEF DropDatabase
  <2>1. n \in Names /\ UNCHANGED <<row, spoilt>> /\ file' = [file EXCEPT ![n] = NoFile]
        /\ Go(c, "unregister")
    BY <2>0, <1>4, <1>14 DEF DropDatabase
  <2>2. Alone(c) /\ at'[c].pc = "unregister" /\ at'[c].path = n
    BY <2>0, <2>1, AloneFacts DEF Step
  <2>3. file'[n] = NoFile /\ \A m \in Names : m # n => file'[m] = file[m]
    BY <1>1, <1>2, <2>1 DEF Store
  <2>4. Unregistering(n)' BY <2>2 DEF Unregistering
  <2>. QED BY <2>0, <1>2, <1>5, <2>1, <2>2, <2>3, <2>4, OnOneName
<1>15. ASSUME NEW c \in Clients, DropFails(c) PROVE Matched'
  <2>1. at[c].pc = "drop" /\ UNCHANGED <<file, row, spoilt>> /\ Alone(c)
    BY <1>15, AloneFacts DEF DropFails
  <2>. QED BY <2>1, MatchedApart
<1>16. ASSUME NEW p \in Others, ScanUpsert(p) PROVE Matched'
  <2>1. UNCHANGED <<file, at, spoilt>> /\ InsertRow(p) /\ p \in Paths
    BY <1>16 DEF ScanUpsert, Paths
  <2>2. \A n \in Names : RowOf(n)' = RowOf(n) BY <1>2, <2>1, InsertedRows
  <2>. QED BY <2>1, <2>2, OnNoName
<1>17. ASSUME NEW p \in Others, ApplicationFile(p) PROVE Matched'
  <2>1. UNCHANGED <<row, at, spoilt>> /\ p \in Paths BY <1>17 DEF ApplicationFile, Paths
  <2>2. \A n \in Names : file'[n] = file[n]
    BY <1>1, <1>2, <1>17, <2>1, NewFileFacts DEF ApplicationFile, Store
  <2>. QED BY <1>5, <2>1, <2>2, OnNoName
<1>. QED BY <1>6, <1>7, <1>8, <1>9, <1>10, <1>11, <1>12, <1>13, <1>14, <1>15, <1>16, <1>17
         DEF Databases

LEMMA RemovalMatched ==
  ASSUME Base, Matched, Removal
  PROVE  Matched'
<1>1. Store BY BaseStore DEF Catalogued
<1>2. None \notin Names /\ Names \subseteq Paths BY RegistryAssumption DEF Paths
<1>3. ASSUME NEW c \in Clients, Unregister(c) PROVE Matched'
  <2>1. PICK n \in Names : n = at[c].path
    <3>1. Good(at[c], call[c]) BY DEF Base, Requests
    <3>. QED BY <1>3, <3>1 DEF Unregister, Good
  <2>2. UNCHANGED file /\ Alone(c) BY <1>3, AloneFacts DEF Unregister
  <2>3. RowOf(n)' = {} /\ \A m \in Names : m # n => RowOf(m)' = RowOf(m)
    BY <1>2, <1>3, <2>1 DEF Unregister, RowOf
  <2>4. spoilt \subseteq spoilt' /\ (file[n] # NoFile => n \in spoilt')
    BY <1>1, <1>3, <2>1, SpoiltGrows DEF Unregister
  <2>. QED BY <1>2, <2>1, <2>2, <2>3, <2>4, OnOneName
<1>4. ASSUME NEW i \in Id, DeleteDiscovered(i) PROVE Matched'
  <2>1. UNCHANGED <<file, at>> /\ row[i] # None /\ row' = [row EXCEPT ![i] = None] /\ Spoil(row[i])
    BY <1>4 DEF DeleteDiscovered
  <2>2. spoilt \subseteq spoilt' /\ (row[i] \in Names => row[i] \in spoilt')
    BY <1>1, <2>1, SpoiltGrows
  <2>3. \A n \in Names \ spoilt' : RowOf(n)' = RowOf(n)
    BY <1>1, <1>2, <2>1, <2>2 DEF RowOf, Store
  <2>. QED BY <2>1, <2>2, <2>3 DEF Matched, Creating, Unregistering
<1>. QED BY <1>3, <1>4 DEF Removal

LEMMA MatchedStep ==
  ASSUME Base, Matched, Next
  PROVE  Matched'
<1>1. CASE Databases /\ Apart BY <1>1, DatabasesMatched
<1>2. CASE Removal /\ Cascade BY <1>2, RemovalMatched
<1>3. ASSUME NEW c \in Clients, RequestStep(c) \/ InsertApi(c) \/ UpdateApi(c) PROVE Matched'
  <2>1. UNCHANGED <<file, row, spoilt>>
    BY <1>3, RequestFrame DEF InsertApi, UpdateApi
  <2>2. at[c] = Idle \/ at[c].pc \in {"row", "reread", "resolve", "open", "use"}
    BY <1>3 DEF RequestStep, ExposeManaged, ExposeDiscovered, ChangeApi, Request, Begin, FindRow,
                Resolve, Open, Finish, InsertApi, UpdateApi
  <2>3. Alone(c)
    <3>1. at \in [Clients -> Local] BY DEF Base, TypeOK, RegistryTypeOK
    <3>. QED BY <1>3, <3>1 DEF RequestStep, ExposeManaged, ExposeDiscovered, ChangeApi, Request,
                Begin, FindRow, Resolve, Open, Finish, InsertApi, UpdateApi, Return, Go, Alone
  <2>. QED BY <2>1, <2>2, <2>3, IdleFacts, MatchedApart
<1>4. ASSUME NEW a \in Aliases, DeleteApi(a) \/ RotateToken(a) PROVE Matched'
  <2>1. UNCHANGED <<file, row, at, spoilt>> BY <1>4 DEF DeleteApi, RotateToken
  <2>. QED BY <2>1, OtherRows, OnNoName
<1>. QED BY <1>1, <1>2, <1>3, <1>4, Kinds

LEMMA InitMatched == Init => Matched
BY RegistryAssumption DEF Init, RegistryInit, Matched, RowOf, Paths

LEMMA MatchedStutters == Matched /\ UNCHANGED vars => Matched'
BY DEF vars, Matched, RowOf, Creating, Unregistering

\* A managed database that nobody is creating or dropping has a row exactly
\* when it has a file, in whatever order creations and drops ran and failed.
THEOREM RowsAndFilesAgree == Spec => []CatalogMatchesFiles
<1>1. Matched => CatalogMatchesFiles
  BY DEF Matched, CatalogMatchesFiles, Changing, Creating, Unregistering
<1>2. Base /\ Matched /\ [Next]_vars => Matched' BY MatchedStep, MatchedStutters
<1>. QED BY <1>1, <1>2, InitBase, InitMatched, BaseStep, PTL DEF Spec

-----------------------------------------------------------------------------
\* File f is the one that row i leads to, so far as the row is of a managed
\* database that is not spoilt or about to lose its row.
Held(i, f) ==
  row[i] \in Names \ spoilt => Unregistering(row[i]) \/ f = file[row[i]]

\* APIs and requests that are about to store one have the right file.
Checked ==
  /\ \A a \in Live : /\ row[api[a].id] # None
                     /\ a \in strayed \/ Held(api[a].id, api[a].checked)
  /\ \A c \in Clients : at[c].pc = "use" => Held(at[c].id, at[c].file)

\* A file that a row leads to is replaced only under a request that is about
\* to remove the row, or the name is spoilt.
LEMMA HeldByDatabases ==
  ASSUME Base, Databases, NEW n \in Names \ spoilt', RowOf(n) # {}, NEW f \in File,
         Unregistering(n) \/ f = file[n]
  PROVE  Unregistering(n)' \/ f = file'[n]
<1>1. Store /\ at \in [Clients -> Local]
  BY BaseStore DEF Catalogued, Base, TypeOK, RegistryTypeOK
<1>2. n \in Paths /\ Names \subseteq Paths /\ n \notin Others /\ f # NoFile
  BY RegistryAssumption, Numbers DEF Paths
<1>3. ASSUME file'[n] = file[n], NEW c \in Clients, Alone(c),
             at[c].path = n => at[c].pc # "unregister"
      PROVE  Unregistering(n)' \/ f = file'[n]
  BY <1>3, UnregisteringStays
<1>4. ASSUME file'[n] = file[n], at' = at
      PROVE  Unregistering(n)' \/ f = file'[n]
  BY <1>4 DEF Unregistering
<1>5. ASSUME NEW c \in Clients, NEW m \in Names,
             CreateDatabase(c, m) \/ CreateFails(c, m) \/ FindDatabase(c, m)
      PROVE  Unregistering(n)' \/ f = file'[n]
  <2>1. at[c].pc = "idle" /\ Alone(c)
    BY <1>5, IdleFacts, AloneFacts DEF CreateDatabase, CreateFails, FindDatabase, Alone
  <2>2. CASE file'[n] = file[n] BY <1>3, <2>1, <2>2
  <2>3. CASE file'[n] # file[n]
    <3>1. NewFile(m) BY <1>5, <2>3 DEF CreateDatabase, CreateFails, FindDatabase
    <3>2. m = n BY <1>1, <1>2, <2>3, <3>1, NewFileFacts
    <3>3. file[n] = NoFile BY <1>5, <2>3, <3>2 DEF CreateDatabase, CreateFails, FindDatabase
    <3>4. Unregistering(n) BY <1>2, <3>3
    <3>. QED BY <2>1, <3>4, UnregisteringStays
  <2>. QED BY <2>2, <2>3
<1>6. ASSUME NEW c \in Clients, Stat(c) \/ Upsert(c) \/ RegisterFails(c) \/ RollbackFails(c) \/ DropFails(c)
      PROVE  Unregistering(n)' \/ f = file'[n]
  <2>1. UNCHANGED file /\ at[c].pc # "unregister"
    BY <1>6 DEF Stat, Upsert, RegisterFails, RollbackFails, DropFails
  <2>2. Alone(c)
    BY <1>1, <1>6, AloneFacts
    DEF Stat, Upsert, RegisterFails, RollbackFails, DropFails, Go, Alone
  <2>. QED BY <1>3, <2>1, <2>2
<1>7. ASSUME NEW c \in Clients, Rollback(c) PROVE Unregistering(n)' \/ f = file'[n]
  <2>1. at[c].path # n BY <1>1, <1>7, SpoiltGrows DEF Rollback
  <2>2. Alone(c) /\ file'[n] = file[n]
    BY <1>1, <1>2, <1>7, <2>1, AloneFacts DEF Rollback, Store
  <2>. QED BY <1>3, <2>1, <2>2
<1>8. ASSUME NEW c \in Clients, DropDatabase(c) PROVE Unregistering(n)' \/ f = file'[n]
  <2>1. Alone(c) /\ at'[c].pc = "unregister" /\ at'[c].path = at[c].path /\ at[c].pc = "drop"
    BY <1>8, AloneFacts DEF DropDatabase, Step
  <2>2. CASE at[c].path = n BY <2>1, <2>2 DEF Unregistering
  <2>3. CASE at[c].path # n
    <3>1. file'[n] = file[n] BY <1>1, <1>2, <1>8, <2>3 DEF DropDatabase, Store
    <3>. QED BY <1>3, <2>1, <2>3, <3>1
  <2>. QED BY <2>2, <2>3
<1>9. ASSUME NEW c \in Clients, UnregisterFails(c) PROVE Unregistering(n)' \/ f = file'[n]
  <2>1. at[c].path # n BY <1>1, <1>9, SpoiltGrows DEF UnregisterFails
  <2>2. Alone(c) /\ UNCHANGED file BY <1>9, AloneFacts DEF UnregisterFails
  <2>. QED BY <1>3, <2>1, <2>2
<1>10. ASSUME NEW p \in Others, ScanUpsert(p) \/ ApplicationFile(p)
       PROVE  Unregistering(n)' \/ f = file'[n]
  <2>1. at' = at /\ p # n /\ p \in Paths BY <1>2, <1>10 DEF ScanUpsert, ApplicationFile, Paths
  <2>2. file'[n] = file[n]
    BY <1>1, <1>2, <1>10, <2>1, NewFileFacts DEF ScanUpsert, ApplicationFile, Store
  <2>. QED BY <1>4, <2>1, <2>2
<1>. QED BY <1>5, <1>6, <1>7, <1>8, <1>9, <1>10 DEF Databases

LEMMA HeldByRemoval ==
  ASSUME Base, Removal, NEW n \in Names, NEW i \in Id, row'[i] = n, NEW f \in File,
         Unregistering(n) \/ f = file[n]
  PROVE  Unregistering(n)' \/ f = file'[n]
<1>1. Store BY BaseStore DEF Catalogued
<1>2. n # None BY RegistryAssumption DEF Paths
<1>3. ASSUME NEW c \in Clients, Unregister(c) PROVE Unregistering(n)' \/ f = file'[n]
  <2>1. at[c].path # n BY <1>1, <1>2, <1>3 DEF Unregister, Store
  <2>2. Alone(c) /\ UNCHANGED file BY <1>3, AloneFacts DEF Unregister
  <2>. QED BY <2>1, <2>2, UnregisteringStays
<1>4. ASSUME NEW j \in Id, DeleteDiscovered(j) PROVE Unregistering(n)' \/ f = file'[n]
  BY <1>4 DEF DeleteDiscovered, Unregistering
<1>. QED BY <1>3, <1>4 DEF Removal

\* The other steps leave files alone, and whoever is about to remove a row.
Elsewhere ==
  /\ UNCHANGED <<file, row, ids, spoilt>>
  /\ at' = at \/ \E c \in Clients : Alone(c) /\ at[c].pc # "unregister"

LEMMA ElsewhereFacts ==
  ASSUME Base,
         \/ \E c \in Clients : RequestStep(c) \/ InsertApi(c) \/ UpdateApi(c)
         \/ \E a \in Aliases : DeleteApi(a) \/ RotateToken(a)
  PROVE  Elsewhere
<1>1. at \in [Clients -> Local] BY DEF Base, TypeOK, RegistryTypeOK
<1>2. ASSUME NEW c \in Clients, RequestStep(c) PROVE Elsewhere
  <2>1. at[c].pc # "unregister"
    BY <1>2, IdleFacts DEF RequestStep, ExposeManaged, ExposeDiscovered, ChangeApi, Request, Begin,
       FindRow, Resolve, Open, Finish
  <2>2. Alone(c)
    BY <1>1, <1>2 DEF RequestStep, ExposeManaged, ExposeDiscovered, ChangeApi, Request, Begin,
       FindRow, Resolve, Open, Finish, Return, Go, Alone
  <2>. QED BY <1>2, <2>1, <2>2, RequestFrame DEF Elsewhere
<1>3. ASSUME NEW c \in Clients, InsertApi(c) \/ UpdateApi(c) PROVE Elsewhere
  BY <1>3, AloneFacts DEF InsertApi, UpdateApi, Elsewhere
<1>4. ASSUME NEW a \in Aliases, DeleteApi(a) \/ RotateToken(a) PROVE Elsewhere
  BY <1>4 DEF DeleteApi, RotateToken, Elsewhere
<1>. QED BY <1>2, <1>3, <1>4

LEMMA SpoiltStays ==
  ASSUME Base, Next
  PROVE  spoilt \subseteq spoilt'
<1>1. CASE Databases
  BY <1>1 DEF Databases, CreateDatabase, CreateFails, FindDatabase, Stat, Upsert, RegisterFails,
     Rollback, RollbackFails, DropDatabase, DropFails, UnregisterFails, ScanUpsert,
     ApplicationFile, Spoil
<1>2. CASE Removal BY <1>2 DEF Removal, Unregister, DeleteDiscovered, Spoil
<1>. QED BY <1>1, <1>2, Kinds, ElsewhereFacts DEF Elsewhere

LEMMA HeldStays ==
  ASSUME Base, Next, NEW i \in Id, i <= ids, NEW f \in File, Held(i, f)
  PROVE  Held(i, f)'
<1> SUFFICES ASSUME NEW n \in Names \ spoilt', row'[i] = n
             PROVE  Unregistering(n)' \/ f = file'[n]
  BY DEF Held
<1>1. row[i] = n /\ n # None
  BY StoreStep, RegistryAssumption DEF RowsGrow, Paths
<1>2. n \notin spoilt BY SpoiltStays
<1>3. RowOf(n) # {} /\ (Unregistering(n) \/ f = file[n]) BY <1>1, <1>2 DEF RowOf, Held
<1>4. CASE Databases BY <1>3, <1>4, HeldByDatabases
<1>5. CASE Removal BY <1>3, <1>5, HeldByRemoval
<1>6. CASE Elsewhere
  <2>1. CASE at' = at BY <1>3, <1>6, <2>1 DEF Elsewhere, Unregistering
  <2>2. CASE \E c \in Clients : Alone(c) /\ at[c].pc # "unregister"
    BY <1>3, <1>6, <2>2, UnregisteringStays DEF Elsewhere
  <2>. QED BY <1>6, <2>1, <2>2 DEF Elsewhere
<1>. QED BY <1>4, <1>5, <1>6, Kinds, ElsewhereFacts

\* A request gets to use a file by opening it.
LEMMA UsedByOpening ==
  ASSUME Base, Next, NEW d \in Clients, at'[d].pc = "use", at'[d] # at[d]
  PROVE  /\ at[d].pc = "open" /\ UNCHANGED <<file, row, ids, spoilt>>
         /\ at'[d].id = at[d].id /\ at'[d].path = at[d].path /\ at'[d].file = file[at[d].path]
<1>1. at \in [Clients -> Local] /\ at[d] \in Local BY DEF Base, TypeOK, RegistryTypeOK
<1>2. ASSUME NEW c \in Clients, Alone(c), at'[c].pc # "use" PROVE FALSE
  BY <1>2 DEF Alone
<1>3. \A c \in Clients : Return(c) => FALSE BY <1>2, AloneFacts, IdleFacts
<1>4. \A c \in Clients, pc \in Step \ {"use"} : Go(c, pc) => FALSE BY <1>2, AloneFacts
<1>5. \A c \in Clients : \A l : at' = [at EXCEPT ![c] = l] /\ l.pc # "use" => FALSE
  BY <1>2, AloneFacts
<1>6. at' # at OBVIOUS
<1>7. CASE Databases
  <2>1. ASSUME NEW c \in Clients, NEW n \in Names, CreateDatabase(c, n) \/ FindDatabase(c, n)
        PROVE  FALSE
    <3> DEFINE l == [Idle EXCEPT !.pc = "register", !.op = "create", !.path = n, !.file = made']
               m == [Idle EXCEPT !.pc = "drop", !.op = "drop", !.path = n]
    <3>1. at' = [at EXCEPT ![c] = l] \/ at' = [at EXCEPT ![c] = m]
      BY <2>1 DEF CreateDatabase, FindDatabase
    <3>2. l.pc # "use" /\ m.pc # "use" BY DEF Idle
    <3> HIDE DEF l, m
    <3>. QED BY <1>5, <3>1, <3>2
  <2>2. ASSUME NEW c \in Clients, Stat(c) PROVE FALSE
    <3> DEFINE l == [at[c] EXCEPT !.pc = "upsert", !.file = file[at[c].path]]
    <3>1. at' = [at EXCEPT ![c] = l] BY <1>1, <2>2 DEF Stat
    <3>2. at[c] \in Local BY <1>1
    <3>3. l.pc # "use" BY <3>2 DEF Local
    <3>. QED BY <1>5, <3>1, <3>3
  <2>3. ASSUME NEW c \in Clients,
               \/ Upsert(c) \/ RegisterFails(c) \/ Rollback(c) \/ RollbackFails(c)
               \/ DropDatabase(c) \/ DropFails(c) \/ UnregisterFails(c)
        PROVE  FALSE
    BY <1>3, <1>4, <2>3 DEF Upsert, RegisterFails, Rollback, RollbackFails, DropDatabase,
       DropFails, UnregisterFails, Step
  <2>. QED BY <1>6, <1>7, <2>1, <2>2, <2>3 DEF Databases, CreateFails, ScanUpsert, ApplicationFile
<1>8. CASE Removal BY <1>3, <1>6, <1>8 DEF Removal, Unregister, DeleteDiscovered
<1>9. ASSUME NEW c \in Clients, RequestStep(c) PROVE Open(c)
  <2>1. ASSUME NEW op, NEW pc \in Step \ {"use"}, NEW i, NEW path, NEW k, Begin(c, op, pc, i, path, k)
        PROVE  FALSE
    BY <1>5, <2>1 DEF Begin, Idle
  <2>2. \A a, s, n : ExposeManaged(c, a, s, n) => FALSE BY <2>1 DEF ExposeManaged, Step
  <2>3. \A a, s, i : ExposeDiscovered(c, a, s, i) => FALSE BY <2>1 DEF ExposeDiscovered, Step
  <2>4. \A a, s : ChangeApi(c, a, s) => FALSE BY <2>1 DEF ChangeApi, Step
  <2>5. \A a, t, x : Request(c, a, t, x) => FALSE BY <2>1 DEF Request, Step
  <2>6. ~FindRow(c)
    <3>1. ASSUME NEW i, at' = [at EXCEPT ![c].pc = "resolve", ![c].id = i] PROVE FALSE
      <4> DEFINE l == [at[c] EXCEPT !.pc = "resolve", !.id = i]
      <4>1. at' = [at EXCEPT ![c] = l] /\ at[c] \in Local BY <1>1, <3>1
      <4>2. l.pc # "use" BY <4>1 DEF Local
      <4>. QED BY <1>5, <4>1, <4>2
    <3>. QED BY <1>3, <1>4, <3>1 DEF FindRow, Step
  <2>7. ~Resolve(c)
    <3>1. ASSUME NEW p, at' = [at EXCEPT ![c].pc = "open", ![c].path = p] PROVE FALSE
      <4> DEFINE l == [at[c] EXCEPT !.pc = "open", !.path = p]
      <4>1. at' = [at EXCEPT ![c] = l] /\ at[c] \in Local BY <1>1, <3>1
      <4>2. l.pc # "use" BY <4>1 DEF Local
      <4>. QED BY <1>5, <4>1, <4>2
    <3>. QED BY <1>3, <3>1 DEF Resolve
  <2>8. ~Finish(c) BY <1>3 DEF Finish
  <2>. QED BY <1>9, <2>2, <2>3, <2>4, <2>5, <2>6, <2>7, <2>8 DEF RequestStep
<1>10. ASSUME NEW c \in Clients, Open(c)
       PROVE  /\ at[d].pc = "open" /\ UNCHANGED <<file, row, ids, spoilt>>
              /\ at'[d].id = at[d].id /\ at'[d].path = at[d].path /\ at'[d].file = file[at[d].path]
  <2> DEFINE l == [at[c] EXCEPT !.pc = "use", !.file = file[at[c].path]]
  <2>1. at' = [at EXCEPT ![c] = l] /\ at[c] \in Local BY <1>1, <1>3, <1>10 DEF Open
  <2>2. l.id = at[c].id /\ l.path = at[c].path /\ l.file = file[at[c].path] BY <2>1 DEF Local
  <2>3. d = c /\ at'[c] = l
    <3> HIDE DEF l
    <3>. QED BY <2>1, AloneFacts DEF Alone
  <2>. QED BY <1>10, <2>2, <2>3 DEF Open
<1>11. ASSUME NEW c \in Clients, InsertApi(c) \/ UpdateApi(c) PROVE FALSE
  BY <1>3, <1>11 DEF InsertApi, UpdateApi
<1>12. ASSUME NEW a \in Aliases, DeleteApi(a) \/ RotateToken(a) PROVE FALSE
  BY <1>6, <1>12 DEF DeleteApi, RotateToken
<1>. QED BY <1>7, <1>8, <1>9, <1>10, <1>11, <1>12, Kinds

\* Rows that are there stay, but for a removal.
LEMMA RowsStay ==
  ASSUME Base, Databases \/ Elsewhere, NEW i \in Id, row[i] # None
  PROVE  row'[i] = row[i]
<1>1. Store /\ Rows BY BaseStore DEF Catalogued
<1>2. UNCHANGED row \/ \E p \in Paths : InsertRow(p)
  <2>1. \A c \in Clients : Good(at[c], call[c]) BY DEF Base, Requests
  <2>2. \A c \in Clients : at[c].pc = "upsert" => at[c].path \in Paths BY <2>1 DEF Good, Paths
  <2>3. CASE Databases
    BY <2>2, <2>3 DEF Databases, CreateDatabase, CreateFails, FindDatabase, Stat, Upsert,
       RegisterFails, Rollback, RollbackFails, DropDatabase, DropFails, UnregisterFails,
       ScanUpsert, ApplicationFile, Paths
  <2>. QED BY <2>3 DEF Elsewhere
<1>3. ASSUME NEW p \in Paths, InsertRow(p) PROVE row'[i] = row[i]
  BY <1>3, InsertRowFacts
<1>. QED BY <1>2, <1>3

LEMMA CheckedStep ==
  ASSUME Base, Checked, Next
  PROVE  Checked'
<1>1. Store /\ Rows /\ ids \in Nat
  <2>1. Store /\ Rows BY BaseStore DEF Catalogued
  <2>. QED BY <2>1, Numbers DEF Store
<1>2. \A c \in Clients : Good(at[c], call[c]) /\ Points(at[c], call[c], row, ids)
  BY DEF Base, Requests
<1>3. ASSUME NEW d \in Clients, at'[d].pc = "use" PROVE Held(at[d].id, at[d].file)'
  <2>1. CASE at'[d] = at[d]
    <3>1. PICK i, f : i = at[d].id /\ f = at[d].file OBVIOUS
    <3>2. i \in Id /\ f \in File /\ i <= ids BY <1>2, <1>3, <2>1, <3>1 DEF Good, Points
    <3>3. Held(i, f) BY <1>3, <2>1, <3>1 DEF Checked
    <3>4. Held(i, f)' BY <3>2, <3>3, HeldStays
    <3>. QED BY <2>1, <3>1, <3>4 DEF Held
  <2>2. CASE at'[d] # at[d]
    <3>1. /\ at[d].pc = "open" /\ UNCHANGED <<file, row, ids, spoilt>>
          /\ at'[d].id = at[d].id /\ at'[d].path = at[d].path /\ at'[d].file = file[at[d].path]
      BY <1>3, <2>2, UsedByOpening
    <3>2. row[at[d].id] \in {None, at[d].path} BY <1>2, <3>1 DEF Points
    <3>3. None \notin Names BY RegistryAssumption DEF Paths
    <3>. QED BY <3>1, <3>2, <3>3 DEF Held
  <2>. QED BY <2>1, <2>2
<1>4. ASSUME NEW a \in Live, a \in Live', NEW x \in Api, api'[a] = x, x.id = api[a].id,
             row'[x.id] # None,
             a \in strayed' \/ (a \notin strayed /\ x.checked = api[a].checked)
      PROVE  /\ row'[api'[a].id] # None
             /\ a \in strayed' \/ Held(api[a].id, api[a].checked)'
  <2>1. PICK i \in Id, f \in File : i = x.id /\ f = x.checked BY <1>4 DEF Api
  <2>2. CASE a \in strayed' BY <1>4, <2>2
  <2>3. CASE a \notin strayed'
    <3>1. row[i] # None BY <1>4, <2>1 DEF Checked
    <3>2. i <= ids BY <1>1, <3>1 DEF Rows
    <3>3. Held(i, f) BY <1>4, <2>1, <2>3 DEF Checked
    <3>4. Held(i, f)' BY <3>2, <3>3, HeldStays
    <3>. QED BY <1>4, <2>1, <3>4 DEF Held
  <2>. QED BY <2>2, <2>3
<1> DEFINE Right(a) == /\ row'[api'[a].id] # None
                       /\ a \in strayed' \/ Held(api[a].id, api[a].checked)'
<1>5. ASSUME NEW a \in Live', a \in Live, api'[a] = api[a], a \in strayed' <=> a \in strayed,
             row'[api[a].id] # None
      PROVE  Right(a)
  BY <1>1, <1>4, <1>5, ApiFacts
<1>6. \A a \in Live : row[api[a].id] # None /\ api[a].id \in Id
  BY <1>1, ApiFacts DEF Checked
<1>7. CASE (Databases \/ Elsewhere) /\ UNCHANGED <<api, strayed>>
  <2>1. \A a \in Live : row'[api[a].id] # None BY <1>6, <1>7, RowsStay
  <2>2. \A a \in Live' : Right(a) BY <1>5, <1>7, <2>1 DEF Live
  <2>. QED BY <1>3, <2>2 DEF Checked
<1>8. CASE Removal /\ Cascade
  <2>1. /\ strayed' = strayed
        /\ \A a \in Live' : a \in Live /\ api'[a] = api[a] /\ row'[api[a].id] # None
    BY <1>1, <1>8 DEF Cascade, Live, Store
  <2>2. \A a \in Live' : Right(a) BY <1>5, <2>1
  <2>. QED BY <1>3, <2>2 DEF Checked
<1>9. ASSUME NEW c \in Clients, InsertApi(c) PROVE Checked'
  <2>1. PICK b \in Aliases, i \in Id, f \in File : b = call[c].alias /\ i = at[c].id /\ f = at[c].file
    BY <1>2, <1>9, InsertApiFacts DEF Good
  <2> DEFINE x == [id |-> i, scope |-> call[c].scope, token |-> issued', checked |-> f]
  <2>2. /\ api' = [api EXCEPT ![b] = x] /\ b \notin Live /\ row[i] # None /\ UNCHANGED <<row, ids>>
        /\ strayed' = strayed \ {b} /\ at[c].pc = "use"
    BY <1>9, <2>1, InsertApiFacts
  <2>3. x.id = i /\ x.checked = f OBVIOUS
  <2> HIDE DEF x
  <2>4. i <= ids /\ Held(i, f) BY <1>1, <2>1, <2>2 DEF Rows, Checked
  <2>5. Held(i, f)' BY <2>4, HeldStays
  <2>6. api'[b] = x /\ \A a \in Live' : a = b \/ (a \in Live /\ api'[a] = api[a])
    BY <1>1, <2>2 DEF Live, Store
  <2>7. Right(b) BY <2>2, <2>3, <2>5, <2>6 DEF Held
  <2>8. \A a \in Live' : a # b => Right(a) BY <1>5, <1>6, <2>2, <2>6
  <2>. QED BY <1>3, <2>7, <2>8 DEF Checked
<1>10. ASSUME NEW c \in Clients, UpdateApi(c) PROVE Checked'
  <2>1. PICK b \in Live, i \in Id, f \in File : b = call[c].alias /\ i = at[c].id /\ f = at[c].file
    BY <1>2, <1>10, UpdateApiFacts DEF Good
  <2>2. PICK x \in Api : /\ api' = [api EXCEPT ![b] = x]
                         /\ x.id = api[b].id /\ x.checked = f
    BY <1>10, <2>1, UpdateApiFacts
  <2>3. /\ UNCHANGED <<row, ids>> /\ at[c].pc = "use"
        /\ strayed' = IF api[b].id = i THEN strayed ELSE strayed \cup {b}
    BY <1>10, <2>1, UpdateApiFacts
  <2>4. api'[b] = x /\ \A a \in Live' : a \in Live /\ (a # b => api'[a] = api[a])
    BY <1>1, <2>2 DEF Live, Store
  <2>5. row'[x.id] # None BY <1>6, <2>2, <2>3
  <2>6. Right(b)
    <3>1. CASE api[b].id # i BY <2>3, <2>4, <2>5, <3>1
    <3>2. CASE api[b].id = i
      <4>1. i <= ids /\ Held(i, f) BY <1>1, <1>6, <2>1, <2>3, <3>2 DEF Rows, Checked
      <4>2. Held(i, f)' BY <4>1, HeldStays
      <4>. QED BY <2>2, <2>4, <2>5, <3>2, <4>2 DEF Held
    <3>. QED BY <3>1, <3>2
  <2>7. \A a \in Live' : a # b => Right(a) BY <1>5, <1>6, <2>3, <2>4
  <2>. QED BY <1>3, <2>6, <2>7 DEF Checked
<1>11. ASSUME NEW b \in Aliases, DeleteApi(b) PROVE Checked'
  <2>1. UNCHANGED <<row, strayed>> /\ \A a \in Live' : a \in Live /\ api'[a] = api[a]
    BY <1>1, <1>11 DEF DeleteApi, Live, Store
  <2>2. \A a \in Live' : Right(a) BY <1>5, <1>6, <2>1
  <2>. QED BY <1>3, <2>2 DEF Checked
<1>12. ASSUME NEW b \in Aliases, RotateToken(b) PROVE Checked'
  <2>1. UNCHANGED <<row, strayed>> /\ b \in Live /\ api[b] \in Api /\ issued' \in Token
    BY <1>1, <1>12, ApiFacts, NewTokenFacts DEF RotateToken
  <2> DEFINE x == [api[b] EXCEPT !.token = issued']
  <2>2. x \in Api /\ x.id = api[b].id /\ x.checked = api[b].checked BY <2>1 DEF Api
  <2>3. api' = [api EXCEPT ![b] = x] BY <1>1, <1>12 DEF RotateToken, Store
  <2> HIDE DEF x
  <2>4. api'[b] = x /\ \A a \in Live' : a \in Live /\ (a # b => api'[a] = api[a])
    BY <1>1, <2>1, <2>3 DEF Live, Store
  <2>5. \A a \in Live' : a # b => Right(a) BY <1>5, <1>6, <2>1, <2>4
  <2>6. b \in Live' => Right(b) BY <1>4, <1>6, <2>1, <2>2, <2>4
  <2>. QED BY <1>3, <2>5, <2>6 DEF Checked
<1>13. CASE Databases /\ Apart BY <1>7, <1>13 DEF Apart
<1>14. ASSUME NEW c \in Clients, RequestStep(c) PROVE Checked'
  BY <1>7, <1>14, RequestFrame, ElsewhereFacts
<1>. QED BY <1>8, <1>9, <1>10, <1>11, <1>12, <1>13, <1>14, Kinds

LEMMA InitChecked == Init => Checked
BY IdleFacts DEF Init, RegistryInit, Checked, Live

LEMMA CheckedStutters == Checked /\ UNCHANGED vars => Checked'
BY DEF vars, Checked, Live, Held, Unregistering

\* An API on a managed database is for the file its allowlist was validated
\* against, whatever is dropped, created and stored late meanwhile.
THEOREM ApisAreForTheirFiles == Spec => []ApiServesItsFile
<1>1. Base /\ Checked => ApiServesItsFile
  BY DEF Checked, Held, Unregistering, ApiServesItsFile
<1>2. Base /\ Checked /\ [Next]_vars => Checked' BY CheckedStep, CheckedStutters
<1>. QED BY <1>1, <1>2, InitBase, InitChecked, BaseStep, PTL DEF Spec
=============================================================================
