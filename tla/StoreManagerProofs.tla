------------------------- MODULE StoreManagerProofs -------------------------
(***************************************************************************)
(* Proofs about StoreManager for any number of names, requests and         *)
(* entries: handles stay in step with the map and the data directory, and  *)
(* the manager implements ManagedFiles.                                    *)
(*                                                                         *)
(* OneHandlePerFile and HandleIsCurrent support each other.  That Drop     *)
(* closes the only handle of a name (and so leaves none on a removed file) *)
(* needs OneHandlePerFile; that Create finds no open handle of its name is *)
(* the same fact once the map slot is empty.  Handed says what a request   *)
(* knows while it runs without the lock: the entry it holds is a real one, *)
(* and no other goroutine gives that entry another name or file.           *)
(***************************************************************************)
EXTENDS StoreManager, TLAPS

Handed ==
  \A c \in Clients :
    /\ client[c].pc = "slow" => client[c].name \in Names
    /\ client[c].pc \in {"stamp", "holding", "running"} =>
         client[c].ent \in Entries /\ entry[client[c].ent].name \in Names

Mapped ==
  \A n \in Names : databases[n] # Nil => entry[databases[n]].name = n

IInv == TypeOK /\ Handed /\ Mapped /\ OneHandlePerFile /\ HandleIsCurrent

-----------------------------------------------------------------------------
\* NewManager starts without handles.
LEMMA InitInv == Init => IInv
<1> SUFFICES ASSUME Init PROVE IInv OBVIOUS
<1> USE StoreAssumption DEF Init
<1>1. /\ files \in [Names -> File]
      /\ disk \in [Names -> File]
  BY DEF File
<1>2. databases \in [Names -> Entries \cup {Nil}] OBVIOUS
<1>3. entry \in [Entries -> Handle] BY DEF Handle, File, Age
<1>4. client \in [Clients -> Request] BY DEF Request
<1>5. TypeOK BY <1>1, <1>2, <1>3, <1>4 DEF TypeOK
<1>6. Handed /\ Mapped BY DEF Handed, Mapped
<1>7. OneHandlePerFile /\ HandleIsCurrent BY DEF OneHandlePerFile, HandleIsCurrent
<1>. QED BY <1>5, <1>6, <1>7 DEF IInv

\* Closing a set of entries changes nothing else of any entry.
LEMMA CloseFacts ==
  ASSUME TypeOK, NEW S
  PROVE  /\ Close(S) \in [Entries -> Handle]
         /\ \A e \in Entries : /\ Close(S)[e].name = entry[e].name
                               /\ Close(S)[e].file = entry[e].file
                               /\ Close(S)[e].open => entry[e].open /\ e \notin S
<1>1. 0 \in Age BY StoreAssumption DEF Age
<1>2. \A e \in Entries : entry[e] \in Handle BY DEF TypeOK
<1>3. ASSUME NEW e \in Entries
      PROVE  /\ Close(S)[e] \in Handle
             /\ Close(S)[e].name = entry[e].name
             /\ Close(S)[e].file = entry[e].file
             /\ Close(S)[e].open => entry[e].open /\ e \notin S
  <2>1. CASE e \in S
    <3>1. Close(S)[e] = [entry[e] EXCEPT !.open = FALSE, !.age = 0]
      BY <2>1 DEF Close
    <3>. QED BY <1>1, <1>2, <2>1, <3>1 DEF Handle
  <2>2. CASE e \notin S
    <3>1. Close(S)[e] = entry[e] BY <2>2 DEF Close
    <3>. QED BY <1>2, <2>2, <3>1
  <2>. QED BY <2>1, <2>2
<1>4. Close(S) = [e \in Entries |-> Close(S)[e]] BY DEF Close
<1>. QED BY <1>3, <1>4

\* Get hands e to request c and touches no other request.
LEMMA ReturnFacts ==
  ASSUME TypeOK, NEW c \in Clients, client[c].pc # "idle", NEW e \in Entries
  PROVE  /\ Return(c, e) \in [Clients -> Request]
         /\ Return(c, e)[c].pc = "holding" /\ Return(c, e)[c].ent = e
         /\ \A d \in Clients \ {c} : Return(c, e)[d] = client[d]
<1>1. client[c] \in Request BY DEF TypeOK
<1>2. [client[c] EXCEPT !.pc = "holding", !.ent = e] \in Request
  BY <1>1 DEF Request
<1>3. Return(c, e) = [client EXCEPT ![c] = [client[c] EXCEPT !.pc = "holding", !.ent = e]]
  BY DEF Return, TypeOK
<1>. QED BY <1>1, <1>2, <1>3 DEF TypeOK, Request

\* Opening a fresh entry on a name without one and handing it out keeps the
\* invariant: the common part of Create and of Get's slow path.
LEMMA OpenKeeps ==
  ASSUME IInv, NEW n \in Names, NEW e \in Entries, NEW f \in File \ {0},
         databases[n] = Nil, Unreferenced(e), disk' = [disk EXCEPT ![n] = f],
         entry' = [entry EXCEPT ![e] = NewHandle(n, f)],
         databases' = [databases EXCEPT ![n] = e]
  PROVE  /\ entry' \in [Entries -> Handle]
         /\ databases' \in [Names -> Entries \cup {Nil}]
         /\ disk' \in [Names -> File]
         /\ Mapped' /\ OneHandlePerFile' /\ HandleIsCurrent'
         /\ \A d \in Entries : d # e => entry'[d] = entry[d]
         /\ entry'[e].name = n
<1> USE StoreAssumption DEF IInv, TypeOK
<1>1. NewHandle(n, f) \in Handle BY DEF NewHandle, Handle, Age, File
<1>2. entry' \in [Entries -> Handle] BY <1>1
<1>3. /\ databases' \in [Names -> Entries \cup {Nil}]
      /\ disk' \in [Names -> File]
  OBVIOUS
<1>4. \A d \in Entries : d # e => entry'[d] = entry[d] OBVIOUS
<1>5. entry'[e] = NewHandle(n, f) OBVIOUS
<1>6. \A m \in Names : databases[m] # e BY DEF Unreferenced
<1>7. Mapped' BY <1>4, <1>5, <1>6 DEF Mapped, NewHandle
<1>8. OneHandlePerFile' BY <1>4, <1>5 DEF OneHandlePerFile, NewHandle
<1>9. HandleIsCurrent'
  BY <1>4, <1>5 DEF OneHandlePerFile, HandleIsCurrent, NewHandle
<1>. QED BY <1>2, <1>3, <1>4, <1>5, <1>7, <1>8, <1>9 DEF NewHandle


\* Closing the entries of the names in N and dropping those names from the
\* map keeps the invariant, whatever happens to their files: Drop,
\* CloseIdle and CloseAll.
LEMMA CloseKeeps ==
  ASSUME IInv, NEW N \in SUBSET Names, entry' = Close(Held(N)),
         databases' = [n \in Names |-> IF n \in N THEN Nil ELSE databases[n]],
         disk' \in [Names -> File], \A n \in Names \ N : disk'[n] = disk[n],
         UNCHANGED client
  PROVE  /\ entry' \in [Entries -> Handle]
         /\ databases' \in [Names -> Entries \cup {Nil}]
         /\ Handed' /\ Mapped' /\ OneHandlePerFile' /\ HandleIsCurrent'
<1> USE StoreAssumption DEF IInv
<1>1. /\ entry' \in [Entries -> Handle]
      /\ \A e \in Entries : /\ entry'[e].name = entry[e].name
                            /\ entry'[e].file = entry[e].file
                            /\ entry'[e].open => entry[e].open /\ e \notin Held(N)
  BY CloseFacts
<1>2. databases' \in [Names -> Entries \cup {Nil}] BY DEF TypeOK
<1>3. ASSUME NEW e \in Entries, entry'[e].open
      PROVE  entry[e].name \in Names \ N
  <2>1. entry[e].name \in Names /\ databases[entry[e].name] = e
    BY <1>1, <1>3 DEF OneHandlePerFile
  <2>. QED BY <1>1, <1>3, <2>1 DEF Held
<1>4. Handed' BY <1>1 DEF Handed
<1>5. Mapped' BY <1>1 DEF Mapped, TypeOK
<1>6. OneHandlePerFile' BY <1>1, <1>3 DEF OneHandlePerFile
<1>7. HandleIsCurrent' BY <1>1, <1>3 DEF HandleIsCurrent
<1>. QED BY <1>1, <1>2, <1>4, <1>5, <1>6, <1>7

\* A step that leaves names, files and the map alone and opens no handle
\* keeps the invariant if what it hands to requests was theirs to have.
LEMMA AgeKeeps ==
  ASSUME IInv, UNCHANGED <<disk, databases>>,
         entry' \in [Entries -> Handle],
         \A e \in Entries : /\ entry'[e].name = entry[e].name
                            /\ entry'[e].file = entry[e].file
                            /\ entry'[e].open => entry[e].open
  PROVE  Mapped' /\ OneHandlePerFile' /\ HandleIsCurrent'
  BY StoreAssumption
  DEF IInv, TypeOK, Mapped, OneHandlePerFile, HandleIsCurrent

\* The entry of a name in the map is a real one and carries that name.
LEMMA MapEntry ==
  ASSUME IInv, NEW n \in Names, databases[n] # Nil
  PROVE  databases[n] \in Entries /\ entry[databases[n]].name = n
  BY DEF IInv, TypeOK, Mapped

-----------------------------------------------------------------------------
LEMMA CreateInv == ASSUME IInv, NEW c \in Clients, NEW n \in Names, Create(c, n)
                   PROVE  IInv'
<1> USE StoreAssumption DEF Create, CreateAllowed
<1>1. files[n] + 1 \in File \ {0} BY DEF IInv, TypeOK, File
<1>2. PICK e \in Entries :
        /\ Unreferenced(e)
        /\ entry' = [entry EXCEPT ![e] = NewHandle(n, files[n] + 1)]
        /\ databases' = [databases EXCEPT ![n] = e]
  OBVIOUS
<1>3. /\ entry' \in [Entries -> Handle]
      /\ databases' \in [Names -> Entries \cup {Nil}]
      /\ disk' \in [Names -> File]
      /\ Mapped' /\ OneHandlePerFile' /\ HandleIsCurrent'
      /\ \A d \in Entries : d # e => entry'[d] = entry[d]
  BY <1>1, <1>2, OpenKeeps
<1>4. Handed' BY <1>2, <1>3 DEF IInv, Handed, Unreferenced
<1>5. TypeOK' BY <1>1, <1>3 DEF IInv, TypeOK
<1>. QED BY <1>3, <1>4, <1>5 DEF IInv

LEMMA GetSlowOpenInv == ASSUME IInv, NEW c \in Clients, GetSlowOpen(c)
                        PROVE  IInv'
<1> USE StoreAssumption DEF GetSlowOpen
<1> DEFINE n == client[c].name
<1>1. n \in Names BY DEF IInv, Handed
<1>2. disk[n] \in File \ {0} /\ disk' = [disk EXCEPT ![n] = disk[n]]
  BY <1>1 DEF IInv, TypeOK
<1>3. PICK e \in Entries :
        /\ Unreferenced(e)
        /\ entry' = [entry EXCEPT ![e] = NewHandle(n, disk[n])]
        /\ databases' = [databases EXCEPT ![n] = e]
        /\ client' = Return(c, e)
  OBVIOUS
<1>4. /\ entry' \in [Entries -> Handle]
      /\ databases' \in [Names -> Entries \cup {Nil}]
      /\ disk' \in [Names -> File]
      /\ Mapped' /\ OneHandlePerFile' /\ HandleIsCurrent'
      /\ \A d \in Entries : d # e => entry'[d] = entry[d]
      /\ entry'[e].name = n
  BY <1>1, <1>2, <1>3, OpenKeeps
<1>5. /\ client' \in [Clients -> Request]
      /\ client'[c].pc = "holding" /\ client'[c].ent = e
      /\ \A d \in Clients \ {c} : client'[d] = client[d]
  BY <1>3, ReturnFacts DEF IInv
<1>6. Handed' BY <1>1, <1>3, <1>4, <1>5 DEF IInv, Handed, Unreferenced
<1>7. TypeOK' BY <1>4, <1>5 DEF IInv, TypeOK
<1>. QED BY <1>4, <1>6, <1>7 DEF IInv


LEMMA GetInv ==
  ASSUME IInv, NEW c \in Clients,
         \/ \E n \in Names : GetLookup(c, n)
         \/ GetStamp(c)
         \/ GetSlowHit(c)
         \/ GetSlowMissing(c)
  PROVE  IInv'
<1> USE StoreAssumption
<1>1. CASE \E n \in Names : GetLookup(c, n)
  <2>1. PICK n \in Names : GetLookup(c, n) BY <1>1
  <2>2. client' \in [Clients -> Request]
    BY <2>1, MapEntry DEF GetLookup, IInv, TypeOK, Request
  <2>3. Handed' BY <2>1, MapEntry DEF GetLookup, IInv, TypeOK, Handed, Request
  <2>4. Mapped' /\ OneHandlePerFile' /\ HandleIsCurrent'
    BY <2>1 DEF GetLookup, IInv, Mapped, OneHandlePerFile, HandleIsCurrent
  <2>. QED BY <2>1, <2>2, <2>3, <2>4 DEF GetLookup, IInv, TypeOK
<1>2. ASSUME NEW e \in Entries, entry[e].name \in Names, client[c].pc # "idle",
             entry' = [entry EXCEPT ![e].age = 0], client' = Return(c, e),
             UNCHANGED <<disk, files, databases, tracker, dormant, stopped>>
      PROVE  IInv'
  <2>1. entry' \in [Entries -> Handle] BY <1>2 DEF IInv, TypeOK, Handle, Age
  <2>2. \A d \in Entries : /\ entry'[d].name = entry[d].name
                           /\ entry'[d].file = entry[d].file
                           /\ entry'[d].open = entry[d].open
    BY <1>2 DEF IInv, TypeOK, Handle
  <2>3. Mapped' /\ OneHandlePerFile' /\ HandleIsCurrent' BY <1>2, <2>1, <2>2, AgeKeeps
  <2>4. /\ client' \in [Clients -> Request]
        /\ client'[c].pc = "holding" /\ client'[c].ent = e
        /\ \A d \in Clients \ {c} : client'[d] = client[d]
    BY <1>2, ReturnFacts DEF IInv
  <2>5. Handed' BY <1>2, <2>2, <2>4 DEF IInv, Handed
  <2>. QED BY <1>2, <2>1, <2>3, <2>4, <2>5 DEF IInv, TypeOK
<1>3. CASE GetStamp(c)
  BY <1>2, <1>3 DEF GetStamp, IInv, Handed
<1>4. CASE GetSlowHit(c)
  <2>1. client[c].name \in Names BY <1>4 DEF GetSlowHit, IInv, Handed
  <2>. QED BY <1>2, <1>4, <2>1, MapEntry DEF GetSlowHit
<1>5. CASE GetSlowMissing(c)
  <2>1. client' \in [Clients -> Request]
    BY <1>5 DEF GetSlowMissing, Finish, IInv, TypeOK, Request
  <2>2. Handed' BY <1>5 DEF GetSlowMissing, Finish, IInv, TypeOK, Handed, Request
  <2>3. Mapped' /\ OneHandlePerFile' /\ HandleIsCurrent'
    BY <1>5 DEF GetSlowMissing, IInv, Mapped, OneHandlePerFile, HandleIsCurrent
  <2>. QED BY <1>5, <2>1, <2>2, <2>3 DEF GetSlowMissing, IInv, TypeOK
<1>. QED BY <1>1, <1>3, <1>4, <1>5

LEMMA StatementInv ==
  ASSUME IInv, NEW c \in Clients,
         BeginStatement(c) \/ StatementRefused(c) \/ EndStatement(c)
  PROVE  IInv'
<1> USE StoreAssumption DEF BeginStatement, StatementRefused, EndStatement, Return, Finish
<1>1. UNCHANGED <<disk, files, databases, entry, tracker, dormant, stopped>>
  OBVIOUS
<1>2. client' \in [Clients -> Request] BY DEF IInv, TypeOK, Request
<1>3. Handed' BY DEF IInv, TypeOK, Handed, Request
<1>4. Mapped' /\ OneHandlePerFile' /\ HandleIsCurrent'
  BY <1>1 DEF IInv, Mapped, OneHandlePerFile, HandleIsCurrent
<1>. QED BY <1>1, <1>2, <1>3, <1>4 DEF IInv, TypeOK

LEMMA DropInv ==
  ASSUME IInv, NEW c \in Clients, NEW n \in Names, Drop(c, n) \/ DropCloseFails(c, n)
  PROVE  IInv'
<1> USE StoreAssumption
<1>1. CASE Drop(c, n)
  <2> DEFINE N == {n}
  <2>1. databases' = [m \in Names |-> IF m \in N THEN Nil ELSE databases[m]]
    BY <1>1 DEF Drop, IInv, TypeOK
  <2>2. 0 \in File BY DEF File
  <2>3. disk' \in [Names -> File] BY <1>1, <2>2 DEF Drop, IInv, TypeOK
  <2>4. \A m \in Names \ N : disk'[m] = disk[m] BY <1>1 DEF Drop, IInv, TypeOK
  <2>5. N \in SUBSET Names /\ entry' = Close(Held(N)) BY <1>1 DEF Drop
  <2> HIDE DEF N
  <2>6. /\ entry' \in [Entries -> Handle]
        /\ databases' \in [Names -> Entries \cup {Nil}]
        /\ Handed' /\ Mapped' /\ OneHandlePerFile' /\ HandleIsCurrent'
    BY <1>1, <2>1, <2>3, <2>4, <2>5, CloseKeeps DEF Drop
  <2>. QED BY <1>1, <2>3, <2>6 DEF Drop, IInv, TypeOK
<1>2. CASE DropCloseFails(c, n)
  <2> USE <1>2 DEF DropCloseFails
  <2> DEFINE e == databases[n]
  <2>e. e \in Entries /\ entry[e] \in Handle BY MapEntry DEF IInv, TypeOK
  <2>1. entry' \in [Entries -> Handle] BY <2>e DEF IInv, TypeOK, Handle
  <2>2. \A d \in Entries : /\ entry'[d].name = entry[d].name
                           /\ entry'[d].file = entry[d].file
                           /\ entry'[d].open => entry[d].open
    BY <2>e DEF IInv, TypeOK, Handle
  <2>3. Mapped' /\ OneHandlePerFile' /\ HandleIsCurrent' BY <2>1, <2>2, AgeKeeps
  <2>4. Handed' BY <2>2 DEF IInv, Handed
  <2>. QED BY <2>1, <2>3, <2>4 DEF IInv, TypeOK
<1>. QED BY <1>1, <1>2

LEMMA CreateFailsInv ==
  ASSUME IInv, NEW c \in Clients, NEW n \in Names, CreateFails(c, n)
  PROVE  IInv'
<1> USE StoreAssumption DEF CreateFails, CreateAllowed
<1>1. files[n] + 1 \in File BY DEF IInv, TypeOK, File
<1>2. TypeOK' BY <1>1 DEF IInv, TypeOK
<1>3. Handed' /\ Mapped' /\ OneHandlePerFile'
  BY DEF IInv, Handed, Mapped, OneHandlePerFile
<1>4. HandleIsCurrent' BY DEF IInv, TypeOK, OneHandlePerFile, HandleIsCurrent
<1>. QED BY <1>2, <1>3, <1>4 DEF IInv

LEMMA IdleInv ==
  ASSUME IInv, CloseIdle \/ SetDormant \/ CloseAll \/ Tick
  PROVE  IInv'
<1> USE StoreAssumption
<1>1. CASE CloseIdle
  <2> DEFINE idle == {n \in Active : entry[databases[n]].age > Timeout}
  <2>1. idle \in SUBSET Names BY DEF Active
  <2>2. disk' \in [Names -> File] BY <1>1 DEF CloseIdle, IInv, TypeOK
  <2>3. /\ entry' = Close(Held(idle))
        /\ databases' = [n \in Names |-> IF n \in idle THEN Nil ELSE databases[n]]
        /\ UNCHANGED <<disk, files, client, dormant, stopped>>
        /\ tracker' = "count"
    BY <1>1 DEF CloseIdle
  <2> HIDE DEF idle
  <2>4. /\ entry' \in [Entries -> Handle]
        /\ databases' \in [Names -> Entries \cup {Nil}]
        /\ Handed' /\ Mapped' /\ OneHandlePerFile' /\ HandleIsCurrent'
    BY <2>1, <2>2, <2>3, CloseKeeps
  <2>. QED BY <2>3, <2>4 DEF IInv, TypeOK
<1>2. CASE SetDormant
  <2>1. dormant' \in BOOLEAN BY <1>2 DEF SetDormant
  <2>2. TypeOK' BY <1>2, <2>1 DEF SetDormant, IInv, TypeOK
  <2>. QED
    BY <1>2, <2>2
    DEF SetDormant, IInv, Handed, Mapped, OneHandlePerFile, HandleIsCurrent
<1>3. CASE CloseAll
  <2>1. /\ databases' = [n \in Names |-> IF n \in Names THEN Nil ELSE databases[n]]
        /\ disk' \in [Names -> File]
    BY <1>3 DEF CloseAll, IInv, TypeOK
  <2>2. /\ entry' \in [Entries -> Handle]
        /\ databases' \in [Names -> Entries \cup {Nil}]
        /\ Handed' /\ Mapped' /\ OneHandlePerFile' /\ HandleIsCurrent'
    BY <1>3, <2>1, CloseKeeps DEF CloseAll
  <2>. QED BY <1>3, <2>2 DEF CloseAll, IInv, TypeOK
<1>4. CASE Tick
  <2>1. ASSUME NEW e \in Entries
        PROVE  /\ entry'[e] \in Handle
               /\ entry'[e].name = entry[e].name
               /\ entry'[e].file = entry[e].file
               /\ entry'[e].open = entry[e].open
    <3>1. entry[e] \in Handle BY DEF IInv, TypeOK
    <3>2. CASE e \in Held(Names) /\ entry[e].age <= Timeout
      <4>1. entry'[e] = [entry[e] EXCEPT !.age = @ + 1] BY <1>4, <3>2 DEF Tick
      <4>2. entry[e].age + 1 \in Age BY <3>1, <3>2 DEF Handle, Age
      <4>. QED BY <3>1, <4>1, <4>2 DEF Handle
    <3>3. CASE ~ (e \in Held(Names) /\ entry[e].age <= Timeout)
      <4>1. entry'[e] = entry[e] BY <1>4, <3>3 DEF Tick
      <4>. QED BY <3>1, <4>1
    <3>. QED BY <3>2, <3>3
  <2>2. entry' = [e \in Entries |-> entry'[e]] BY <1>4 DEF Tick
  <2>3. entry' \in [Entries -> Handle] BY <2>1, <2>2
  <2>4. Mapped' /\ OneHandlePerFile' /\ HandleIsCurrent'
    BY <1>4, <2>1, <2>3, AgeKeeps DEF Tick
  <2>5. Handed' BY <1>4, <2>1 DEF Tick, IInv, Handed
  <2>. QED BY <1>4, <2>3, <2>4, <2>5 DEF Tick, IInv, TypeOK
<1>. QED BY <1>1, <1>2, <1>3, <1>4

\* Every step of every goroutine keeps the invariant.
LEMMA StepInv == IInv /\ [Next]_vars => IInv'
<1> SUFFICES ASSUME IInv, [Next]_vars PROVE IInv' OBVIOUS
<1>1. CASE Next
  <2>1. ASSUME NEW c \in Clients, ClientStep(c) PROVE IInv'
    BY <2>1, CreateInv, CreateFailsInv, DropInv, GetInv, GetSlowOpenInv, StatementInv
    DEF ClientStep
  <2>. QED BY <1>1, <2>1, IdleInv DEF Next
<1>2. CASE UNCHANGED vars
  BY <1>2
  DEF vars, IInv, TypeOK, Handed, Mapped, OneHandlePerFile, HandleIsCurrent
<1>. QED BY <1>1, <1>2


-----------------------------------------------------------------------------
\* The state of the manager stays well typed under every interleaving of
\* requests, the idle loop and shutdown (internal/store/manager.go).
THEOREM TypeCorrect == Spec => []TypeOK
<1>1. IInv => TypeOK BY DEF IInv
<1>. QED BY InitInv, StepInv, <1>1, PTL DEF Spec

\* No handle escapes the map, so none is ever leaked: every open handle is
\* the one CloseIdle, Drop and CloseAll will find.
THEOREM NoHandleLeaks == Spec => []OneHandlePerFile
<1>1. IInv => OneHandlePerFile BY DEF IInv
<1>. QED BY InitInv, StepInv, <1>1, PTL DEF Spec

\* A handle is never left open on a file that Drop removed, however Get,
\* Create, Drop and the idle loop interleave.
THEOREM HandlesAreCurrent == Spec => []HandleIsCurrent
<1>1. IInv => HandleIsCurrent BY DEF IInv
<1>. QED BY InitInv, StepInv, <1>1, PTL DEF Spec

-----------------------------------------------------------------------------
(* The refinement of ManagedFiles.                                         *)

\* The entry a running statement uses is not reused and keeps its file, so a
\* step that starts and ends no statement is invisible to what statements
\* run on.
LEMMA SameServing ==
  ASSUME \A c \in Clients :
           /\ (client'[c].pc = "running") = (client[c].pc = "running")
           /\ client[c].pc = "running" =>
                LET e == client[c].ent IN
                /\ client'[c].ent = e
                /\ entry'[e].name = entry[e].name
                /\ entry'[e].file = entry[e].file
  PROVE  serving' = serving
  BY DEF serving

\* Opening an unreferenced entry leaves the entries of running statements.
LEMMA OpenServing ==
  ASSUME IInv, NEW e \in Entries, Unreferenced(e), NEW h,
         entry' = [entry EXCEPT ![e] = h],
         \A c \in Clients : /\ (client'[c].pc = "running") = (client[c].pc = "running")
                            /\ client[c].pc = "running" => client'[c] = client[c]
  PROVE  serving' = serving
<1>1. \A c \in Clients : client[c].pc = "running" => client[c].ent \in Entries \ {e}
  BY DEF IInv, Handed, Unreferenced
<1>2. \A d \in Entries \ {e} : entry'[d] = entry[d] BY DEF IInv, TypeOK
<1>. QED BY <1>1, <1>2, SameServing

\* A statement that starts runs on the file in the data directory.
LEMMA BeginRefines ==
  ASSUME IInv, NEW c \in Clients, BeginStatement(c)
  PROVE  Files!Next
<1> DEFINE e == client[c].ent
           n == entry[e].name
<1>1. e \in Entries /\ n \in Names BY DEF BeginStatement, IInv, Handed
<1>2. disk[n] = entry[e].file /\ disk[n] # 0
  BY <1>1 DEF BeginStatement, IInv, HandleIsCurrent
<1>3. serving[c] = Nil BY DEF BeginStatement, serving
<1>4. /\ client'[c].pc = "running" /\ client'[c].ent = e
      /\ \A d \in Clients \ {c} : client'[d] = client[d]
  BY DEF BeginStatement, IInv, TypeOK, Request
<1>5. serving'[c] = <<n, disk[n]>>
  BY <1>2, <1>4 DEF BeginStatement, serving
<1>6. \A d \in Clients \ {c} : serving'[d] = serving[d]
  BY <1>4 DEF BeginStatement, serving
<1>7. serving' = [serving EXCEPT ![c] = <<n, disk[n]>>]
  BY <1>5, <1>6 DEF serving
<1>8. Files!Begin(c, n)
  BY <1>2, <1>3, <1>7 DEF Files!Begin, BeginStatement
<1>. QED BY <1>1, <1>8 DEF Files!Next

LEMMA EndRefines ==
  ASSUME IInv, NEW c \in Clients, EndStatement(c)
  PROVE  Files!Next
<1>1. client[c].pc = "running" /\ client[c].ent \in Entries
  BY DEF EndStatement, IInv, Handed
<1>2. serving[c] \in Names \X (0 .. MaxFiles)
  BY <1>1 DEF IInv, Handed, TypeOK, Handle, File, serving
<1>3. serving[c] # Nil BY <1>2, StoreAssumption
<1>4. /\ client'[c].pc # "running"
      /\ \A d \in Clients \ {c} : client'[d] = client[d]
  BY <1>1, ReturnFacts DEF EndStatement, Finish, IInv, TypeOK
<1>5. serving' = [serving EXCEPT ![c] = Nil]
  BY <1>4 DEF EndStatement, serving
<1>6. Files!End(c) BY <1>3, <1>5 DEF Files!End, EndStatement
<1>. QED BY <1>6 DEF Files!Next

LEMMA FilesRefine ==
  ASSUME IInv, NEW c \in Clients, NEW n \in Names,
         Create(c, n) \/ CreateFails(c, n) \/ Drop(c, n) \/ DropCloseFails(c, n)
  PROVE  [Files!Next]_Files!vars
<1>1. CASE Create(c, n)
  <2>1. serving' = serving BY <1>1, OpenServing DEF Create
  <2>2. Files!Create(n) BY <1>1, <2>1 DEF Create, CreateAllowed, Files!Create
  <2>. QED BY <2>2 DEF Files!Next
<1>2. CASE CreateFails(c, n)
  <2>1. serving' = serving BY <1>2 DEF CreateFails, serving
  <2>2. Files!Create(n) BY <1>2, <2>1 DEF CreateFails, CreateAllowed, Files!Create
  <2>. QED BY <2>2 DEF Files!Next
<1>3. CASE Drop(c, n)
  <2>1. \A e \in Entries : entry'[e].name = entry[e].name /\ entry'[e].file = entry[e].file
    BY <1>3, CloseFacts DEF Drop, IInv
  <2>2. serving' = serving BY <1>3, <2>1, SameServing DEF Drop, IInv, Handed
  <2>3. Files!Drop(n) BY <1>3, <2>2 DEF Drop, Files!Drop
  <2>. QED BY <2>3 DEF Files!Next
<1>4. CASE DropCloseFails(c, n)
  <2>1. \A e \in Entries : entry'[e].name = entry[e].name /\ entry'[e].file = entry[e].file
    BY <1>4, MapEntry DEF DropCloseFails, IInv, TypeOK, Handle
  <2>2. serving' = serving BY <1>4, <2>1, SameServing DEF DropCloseFails, IInv, Handed
  <2>. QED BY <1>4, <2>2 DEF DropCloseFails, Files!vars
<1>. QED BY <1>1, <1>2, <1>3, <1>4


\* Looking an entry up, stamping it, or opening one is not visible: no file
\* appears and no statement starts or ends.
LEMMA GetRefines ==
  ASSUME IInv, NEW c \in Clients,
         \/ \E n \in Names : GetLookup(c, n)
         \/ GetStamp(c) \/ GetSlowHit(c) \/ GetSlowMissing(c) \/ GetSlowOpen(c)
         \/ StatementRefused(c)
  PROVE  UNCHANGED Files!vars
<1> SUFFICES serving' = serving
  BY DEF Files!vars, GetLookup, GetStamp, GetSlowHit, GetSlowMissing, GetSlowOpen,
         StatementRefused
<1>1. client[c] \in Request BY DEF IInv, TypeOK
<1>2. CASE \E n \in Names : GetLookup(c, n)
  BY <1>2 DEF GetLookup, IInv, TypeOK, serving
<1>3. CASE GetSlowMissing(c) \/ StatementRefused(c)
  BY <1>3 DEF GetSlowMissing, StatementRefused, Finish, IInv, TypeOK, serving
<1>4. ASSUME NEW e \in Entries, entry' = [entry EXCEPT ![e].age = 0],
             client' = Return(c, e), client[c].pc \notin {"idle", "running"}
      PROVE  serving' = serving
  <2>1. \A d \in Entries : entry'[d].name = entry[d].name /\ entry'[d].file = entry[d].file
    BY <1>4 DEF IInv, TypeOK, Handle
  <2>2. /\ client'[c].pc = "holding"
        /\ \A d \in Clients \ {c} : client'[d] = client[d]
    BY <1>4, ReturnFacts DEF IInv
  <2>. QED BY <1>4, <2>1, <2>2, SameServing DEF IInv, Handed
<1>5. CASE GetStamp(c)
  BY <1>4, <1>5 DEF GetStamp, IInv, Handed
<1>6. CASE GetSlowHit(c)
  <2>1. client[c].name \in Names BY <1>6 DEF GetSlowHit, IInv, Handed
  <2>. QED BY <1>4, <1>6, <2>1, MapEntry DEF GetSlowHit
<1>7. CASE GetSlowOpen(c)
  <2>1. PICK e \in Entries :
          /\ Unreferenced(e)
          /\ entry' = [entry EXCEPT ![e] = NewHandle(client[c].name, disk[client[c].name])]
          /\ client' = Return(c, e)
    BY <1>7 DEF GetSlowOpen
  <2>2. /\ client'[c].pc = "holding"
        /\ \A d \in Clients \ {c} : client'[d] = client[d]
    BY <1>7, <2>1, ReturnFacts DEF GetSlowOpen, IInv
  <2>. QED BY <1>7, <2>1, <2>2, OpenServing DEF GetSlowOpen
<1>. QED BY <1>2, <1>3, <1>5, <1>6, <1>7

\* Closing idle handles, shutting down and the clock are not visible either.
LEMMA IdleRefines ==
  ASSUME IInv, CloseIdle \/ SetDormant \/ CloseAll \/ Tick
  PROVE  UNCHANGED Files!vars
<1>1. /\ UNCHANGED <<disk, files, client>>
      /\ \A e \in Entries : entry'[e].name = entry[e].name /\ entry'[e].file = entry[e].file
  <2>1. CASE CloseIdle BY <2>1, CloseFacts DEF CloseIdle, IInv
  <2>2. CASE SetDormant BY <2>2 DEF SetDormant
  <2>3. CASE CloseAll BY <2>3, CloseFacts DEF CloseAll, IInv
  <2>4. CASE Tick BY <2>4 DEF Tick, IInv, TypeOK, Handle
  <2>. QED BY <2>1, <2>2, <2>3, <2>4
<1>2. serving' = serving BY <1>1, SameServing DEF IInv, Handed
<1>. QED BY <1>1, <1>2 DEF Files!vars

LEMMA StepRefines == IInv /\ [Next]_vars => [Files!Next]_Files!vars
<1> SUFFICES ASSUME IInv, [Next]_vars PROVE [Files!Next]_Files!vars OBVIOUS
<1>1. CASE Next
  <2>1. ASSUME NEW c \in Clients, ClientStep(c) PROVE [Files!Next]_Files!vars
    BY <2>1, FilesRefine, GetRefines, BeginRefines, EndRefines DEF ClientStep
  <2>. QED BY <1>1, <2>1, IdleRefines DEF Next
<1>2. CASE UNCHANGED vars BY <1>2 DEF vars, Files!vars, serving
<1>. QED BY <1>1, <1>2

\* Requests see files that are created and dropped atomically and never run
\* a statement on any other file, whatever the manager opens and closes.
THEOREM ManagerImplementsFiles == Spec => ImplementsManagedFiles
<1>1. Init => Files!Init BY DEF Init, Files!Init, serving
<1>. QED BY <1>1, InitInv, StepInv, StepRefines, PTL
  DEF Spec, ImplementsManagedFiles, Files!Spec
=============================================================================
