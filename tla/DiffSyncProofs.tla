--------------------------- MODULE DiffSyncProofs ---------------------------
(***************************************************************************)
(* What a differential sync does to the replica, for any tables, spellings *)
(* and orders of names, views, indexes, triggers, edits and failures.      *)
(*                                                                         *)
(* The invariant says at every step of a sync what the replica transaction *)
(* has written: the source's tables as far as the first loop got, without  *)
(* those the second loop has dropped, and the old replica elsewhere.  That *)
(* no name is in it twice is what the refusals of SQLite keep up.          *)
(***************************************************************************)
EXTENDS DiffSync, TLAPS

LEMMA TypeCorrectInit == Init => TypeOK
<1>1. Empty \in Database
  BY DEF Empty, Database, Entry
<1>2. Init => edits \in 0 .. MaxEdits /\ failures \in 0 .. MaxFailures
  BY SyncAssumption DEF Init
<1> QED
  BY <1>1, <1>2 DEF Init, TypeOK

\* The types are inductive: every variable of a sync keeps its type through
\* copies, removals, commits and roll-backs.
THEOREM TypeCorrect == Spec => []TypeOK
<1>0. MaxEdits \in Nat /\ MaxFailures \in Nat
  BY SyncAssumption
<1>1. Init => TypeOK
  BY TypeCorrectInit
<1>2. TypeOK /\ [Next]_vars => TypeOK'
  <2> SUFFICES ASSUME TypeOK, [Next]_vars
               PROVE  TypeOK'
    OBVIOUS
  <2> USE DEF TypeOK
  <2>1. Empty \in Database
    BY DEF Empty, Database, Entry
  <2>2. ASSUME NEW t \in Tables, NEW new \in Entry, Edit(t, new)
        PROVE  TypeOK'
    BY <1>0, <2>2 DEF Edit, Database, tx
  <2>3. CASE Begin
    BY <2>3 DEF Begin, Has, Present
  <2>4. ASSUME NEW t \in Tables, Keep(t) PROVE TypeOK'
    BY <2>4 DEF Keep, Pass
  <2>5. ASSUME NEW t \in Tables, Replace(t) PROVE TypeOK'
    <3>1. Without(work, t) \in Database
      BY DEF Without, Database, Entry
    <3>2. [Without(work, t) EXCEPT ![t] = snap[t]] \in Database
      BY <3>1 DEF Database
    <3> QED
      BY <2>5, <3>2 DEF Replace, Pass
  <2>6. ASSUME NEW t \in Tables, Refuse(t) PROVE TypeOK'
    BY <2>1, <2>6 DEF Refuse, Rollback, EndSync
  <2>7. ASSUME NEW t \in Tables, Remove(t) PROVE TypeOK'
    <3>1. Without(work, t) \in Database
      BY DEF Without, Database, Entry
    <3> QED
      BY <2>7, <3>1 DEF Remove
  <2>8. CASE Commit
    <3>1. missed' \in BOOLEAN
      BY <2>8 DEF Commit
    <3>2. failures' \in 0 .. MaxFailures
      BY <1>0, <2>8 DEF Commit
    <3> QED
      BY <2>1, <2>8, <3>1, <3>2 DEF Commit, EndSync
  <2>9. CASE Fail
    <3>1. failures' \in 0 .. MaxFailures
      BY <1>0, <2>9 DEF Fail
    <3> QED
      BY <2>1, <2>9, <3>1 DEF Fail, Rollback, EndSync
  <2>10. CASE UNCHANGED vars
    BY <2>10 DEF vars, tx
  <2> QED
    BY <2>2, <2>3, <2>4, <2>5, <2>6, <2>7, <2>8, <2>9, <2>10 DEF Next, Step
<1> QED
  BY <1>1, <1>2, PTL DEF Spec

-----------------------------------------------------------------------------
(* The invariant.                                                          *)

\* The tables the first loop has behind it, and those the second has dropped.
Done == Has(snap) \ todo
Gone == IF todo = {} THEN (Has(replica) \ Has(snap)) \ extra ELSE {}

Lists ==
  /\ todo \subseteq Has(snap)
  /\ extra \subseteq Has(replica) \ Done
  /\ todo # {} => extra = Has(replica) \ Done

Written ==
  \A t \in Tables :
    work[t] = IF \E u \in Gone : Same(t, u) THEN Absent
              ELSE IF t \in Done THEN snap[t]
              ELSE IF \E u \in Done : Same(t, u) THEN Absent
              ELSE replica[t]

Reported == changed = (Differences(replica, snap) \cap Done) \cup Gone

Progress == WellFormed(snap) /\ WellFormed(work) /\ Lists /\ Written /\ Reported

Inv ==
  /\ TypeOK
  /\ WellFormed(src) /\ WellFormed(replica)
  /\ running => Progress

-----------------------------------------------------------------------------
(* Names.                                                                  *)

LEMMA OnePerName ==
  ASSUME NEW db, WellFormed(db), NEW t \in Present(db), NEW u \in Present(db), Same(t, u)
  PROVE  t = u
<1>1. t \in NamesOf(db, t) /\ u \in NamesOf(db, u)
  BY DEF NamesOf
<1> QED
  BY <1>1 DEF WellFormed

\* A part of a database has no name twice either.
LEMMA PartWellFormed ==
  ASSUME NEW db, NEW part, WellFormed(db),
         \A t \in Present(part) : t \in Present(db) /\ part[t] = db[t]
  PROVE  WellFormed(part)
  BY DEF WellFormed, NamesOf

LEMMA WithoutFacts ==
  ASSUME NEW db, NEW t
  PROVE  \A u \in Present(Without(db, t)) :
           /\ u \in Present(db) /\ Without(db, t)[u] = db[u]
           /\ ~ Same(t, u) \/ db[u].kind = "view"
  BY DEF Without, Present

\* What SQLite lets a sync write has no name twice.
LEMMA PutWellFormed ==
  ASSUME TypeOK, WellFormed(snap), WellFormed(work), NEW t \in Has(snap), ~ Taken(t)
  PROVE  WellFormed([Without(work, t) EXCEPT ![t] = snap[t]])
<1> DEFINE rest == Without(work, t)
           put  == [rest EXCEPT ![t] = snap[t]]
<1>1. t \in Tables /\ t \in Present(snap)
  BY DEF Has, Present
<1>2. put[t] = snap[t] /\ \A u \in Tables : u # t => put[u] = rest[u]
  BY <1>1 DEF Without
<1>3. \A u \in Present(put) : u # t => u \in Present(rest) /\ put[u] = work[u]
  BY <1>2, WithoutFacts DEF Present
<1>4. ASSUME NEW u \in Present(put), u # t
      PROVE  ~ Collide(NamesOf(put, u), NamesOf(snap, t))
  BY <1>3, <1>4 DEF Taken, NamesOf
<1>5. ASSUME NEW u \in Present(put), NEW v \in Present(put),
             NEW a \in NamesOf(put, u), NEW b \in NamesOf(put, v), Same(a, b)
      PROVE  a = b /\ u = v
  <2>1. NamesOf(put, t) = NamesOf(snap, t)
    BY <1>2 DEF NamesOf
  <2>2. CASE u = t /\ v = t
    BY <1>1, <1>5, <2>1, <2>2 DEF WellFormed
  <2>3. CASE u # t /\ v # t
    <3>1. u \in Present(work) /\ v \in Present(work)
      BY <1>3, <2>3, WithoutFacts
    <3>2. a \in NamesOf(work, u) /\ b \in NamesOf(work, v)
      BY <1>3, <1>5, <2>3 DEF NamesOf
    <3> QED
      BY <1>5, <3>1, <3>2 DEF WellFormed
  <2>4. CASE u # t /\ v = t
    BY <1>4, <1>5, <2>1, <2>4 DEF Collide
  <2>5. CASE u = t /\ v # t
    BY <1>4, <1>5, <2>1, <2>5 DEF Collide, Same
  <2> QED
    BY <2>2, <2>3, <2>4, <2>5
<1> QED
  BY <1>5 DEF WellFormed

-----------------------------------------------------------------------------
(* The steps of a sync.                                                    *)

\* When both loops have ended, the transaction holds the result of a sync.
LEMMA WorkIsSynced ==
  ASSUME TypeOK, WellFormed(replica), Progress, todo = {}, extra = {}
  PROVE  work = Synced(replica, snap) /\ changed = Differences(replica, snap)
<1> USE DEF Progress, TypeOK
<1>1. Done = Has(snap) /\ Gone = Has(replica) \ Has(snap)
  BY DEF Done, Gone
<1>2. ASSUME NEW t \in Tables
      PROVE  work[t] = Synced(replica, snap)[t]
  <2>1. work[t] = IF \E u \in Gone : Same(t, u) THEN Absent
                  ELSE IF t \in Done THEN snap[t]
                  ELSE IF \E u \in Done : Same(t, u) THEN Absent
                  ELSE replica[t]
    BY DEF Written
  <2>2. Synced(replica, snap)[t] =
          IF t \in Has(snap)
          THEN IF \E u \in Has(replica) \ Has(snap) : Same(t, u) THEN Absent ELSE snap[t]
          ELSE IF t \in Has(replica) \/ \E u \in Has(snap) : Same(t, u) THEN Absent ELSE replica[t]
    BY Zenon DEF Synced
  <2>3. CASE t \in Has(snap)
    BY <1>1, <2>1, <2>2, <2>3
  <2>4. CASE t \notin Has(snap) /\ t \in Has(replica)
    <3>1. t \in Gone /\ Same(t, t)
      BY <1>1, <2>4 DEF Same
    <3> QED
      BY <2>1, <2>2, <2>4, <3>1
  <2>5. CASE t \notin Has(snap) /\ t \notin Has(replica) /\ \E u \in Has(snap) : Same(t, u)
    BY <1>1, <2>1, <2>2, <2>5
  <2>6. CASE t \notin Has(snap) /\ t \notin Has(replica) /\ ~ \E u \in Has(snap) : Same(t, u)
    <3>1. ASSUME NEW u \in Gone, Same(t, u)
          PROVE  replica[t] = Absent
      <4>1. u \in Has(replica) /\ u \in Present(replica)
        BY <1>1 DEF Has
      <4>2. t \notin Present(replica)
        BY <2>6, <3>1, <4>1, OnePerName
      <4> QED
        BY <4>2 DEF Present
    <3> QED
      BY <1>1, <2>1, <2>2, <2>6, <3>1
  <2> QED
    BY <2>3, <2>4, <2>5, <2>6
<1>3. work = Synced(replica, snap)
  <2>1. work = [t \in Tables |-> work[t]]
    BY DEF Database
  <2>2. Synced(replica, snap) = [t \in Tables |-> Synced(replica, snap)[t]]
    BY Zenon DEF Synced
  <2> QED
    BY <1>2, <2>1, <2>2
<1>4. changed = Differences(replica, snap)
  <2>1. changed = (Differences(replica, snap) \cap Has(snap)) \cup (Has(replica) \ Has(snap))
    BY <1>1 DEF Reported
  <2>2. \A t \in Has(replica) \ Has(snap) : replica[t] # snap[t]
    BY DEF Has, Present
  <2> QED
    BY <2>1, <2>2 DEF Differences
<1> QED
  BY <1>3, <1>4

\* The heart of the matter: what the table that is next looks like.
LEMMA NextTable ==
  ASSUME TypeOK, Progress, NEW t \in Tables, IsNext(t), WellFormed(replica)
  PROVE  /\ Gone = {}
         /\ work[t] = replica[t]
         /\ NeedsSync(t) <=> replica[t] # snap[t]
         /\ \A u \in Done : ~ Same(t, u)
<1> USE DEF Progress
<1>1. todo # {} /\ t \in todo /\ t \in Has(snap) /\ t \notin Done
  BY DEF IsNext, Lists, Done
<1>2. Gone = {}
  BY <1>1 DEF Gone
<1>3. ASSUME NEW u \in Done PROVE ~ Same(t, u)
  <2>1. u \in Present(snap) /\ t \in Present(snap) /\ u # t
    BY <1>1 DEF Done, Has
  <2> QED
    BY <2>1, OnePerName
<1>4. work[t] = replica[t]
  BY <1>1, <1>2, <1>3 DEF Written
<1>5. t \in extra <=> t \in Has(replica)
  BY <1>1 DEF Lists
<1>6. NeedsSync(t) <=> replica[t] # snap[t]
  <2>1. replica[t] = snap[t] => t \in Has(replica)
    BY <1>1 DEF Has, Present
  <2> QED
    BY <1>4, <1>5, <2>1 DEF NeedsSync
<1> QED
  BY <1>2, <1>3, <1>4, <1>6

\* The lists after the next table, kept or replaced.
LEMMA PassedTable ==
  ASSUME TypeOK, Progress, NEW t \in Tables, IsNext(t), Pass(t)
  PROVE  /\ Done' = Done \cup {t}
         /\ Gone' = {}
         /\ Lists'
<1> USE DEF Progress
<1>1. t \in todo /\ t \in Has(snap) /\ extra = Has(replica) \ Done
  BY DEF IsNext, Lists
<1>2. Has(snap)' = Has(snap) /\ Has(replica)' = Has(replica)
  BY DEF Pass, Has, Present
<1>3. Done' = Done \cup {t}
  BY <1>1, <1>2 DEF Pass, Done
<1>4. extra' = Has(replica) \ Done'
  BY <1>1, <1>3 DEF Pass
<1>5. Lists'
  BY <1>2, <1>4 DEF Pass, Lists
<1>6. Gone' = {}
  BY <1>2, <1>4, <1>5 DEF Gone, Done, Lists
<1> QED
  BY <1>3, <1>5, <1>6

LEMMA Start == ASSUME Init PROVE Inv
<1>1. TypeOK
  BY TypeCorrectInit
<1> QED
  BY <1>1 DEF Init, Inv

\* What a sync has done is a matter of its own variables and the replica.
LEMMA SameProgress ==
  ASSUME UNCHANGED <<replica, running, snap, work, todo, extra, changed>>, Progress
  PROVE  Progress'
<1>1. WellFormed(snap)' /\ WellFormed(work)'
  BY DEF Progress
<1>2. /\ Has(snap)' = Has(snap) /\ Has(replica)' = Has(replica)
      /\ Differences(replica, snap)' = Differences(replica, snap)
  BY DEF Has, Present, Differences
<1>3. Done' = Done /\ Gone' = Gone
  BY <1>2 DEF Done, Gone
<1> QED
  BY <1>1, <1>2, <1>3 DEF Progress, Lists, Written, Reported

LEMMA Steps == ASSUME Inv, TypeOK', [Next]_vars PROVE Inv'
<1> USE DEF Inv
<1>1. ASSUME EndSync, WellFormed(replica'), UNCHANGED src
      PROVE  Inv'
  BY <1>1 DEF EndSync
<1>2. ASSUME NEW t \in Tables, NEW new \in Entry, Edit(t, new)
      PROVE  Inv'
  <2>1. WellFormed(src)' /\ UNCHANGED <<replica, running, snap, work, todo, extra, changed>>
    BY <1>2 DEF Edit, tx
  <2>2. Progress => Progress'
    BY <2>1, SameProgress
  <2> QED
    BY <2>1, <2>2
<1>3. CASE Begin
  <2>1. Done' = {} /\ Gone' = {}
    BY <1>3 DEF Begin, Done, Gone, Has, Present
  <2>2. Lists'
    BY <1>3, <2>1 DEF Begin, Lists, Has, Present
  <2>3. Written'
    BY <1>3, <2>1 DEF Begin, Written
  <2>4. Reported'
    BY <1>3, <2>1 DEF Begin, Reported
  <2>5. WellFormed(src)' /\ WellFormed(replica)' /\ WellFormed(snap)' /\ WellFormed(work)'
    BY <1>3 DEF Begin
  <2> QED
    BY <2>2, <2>3, <2>4, <2>5 DEF Progress
<1>4. ASSUME NEW t \in Tables, Keep(t) \/ Replace(t)
      PROVE  Inv'
  <2>1. running /\ IsNext(t) /\ Pass(t) /\ Progress
    BY <1>4 DEF Keep, Replace
  <2>2. /\ Gone = {} /\ work[t] = replica[t]
        /\ NeedsSync(t) <=> replica[t] # snap[t]
        /\ \A u \in Done : ~ Same(t, u)
    BY <2>1, NextTable
  <2>3. Done' = Done \cup {t} /\ Gone' = {} /\ Lists'
    BY <2>1, PassedTable
  <2>4. src' = src /\ replica' = replica /\ snap' = snap
    BY <2>1 DEF Pass
  <2>5. WellFormed(src)' /\ WellFormed(replica)' /\ WellFormed(snap)' /\ WellFormed(work)'
    <3>1. t \in Has(snap)
      BY <2>1 DEF IsNext, Progress, Lists
    <3>2. CASE Keep(t)
      BY <2>1, <2>4, <3>2 DEF Keep, Progress
    <3>3. CASE Replace(t)
      BY <2>1, <2>4, <3>1, <3>3, PutWellFormed DEF Replace, Progress
    <3> QED
      BY <1>4, <3>2, <3>3
  <2>6. Written'
    <3>1. t \in Has(snap)
      BY <2>1 DEF IsNext, Progress, Lists
    <3>2. \A u \in Tables : u # t /\ Same(u, t) => u \notin Done
      BY <2>2 DEF Same
    <3>3. \A u \in Tables : Same(u, t) => ~ \E v \in Done : Same(u, v)
      BY <2>2 DEF Same
    <3>4. ASSUME NEW u \in Tables
          PROVE  work'[u] = IF u \in Done' THEN snap[u]
                            ELSE IF \E v \in Done' : Same(u, v) THEN Absent
                            ELSE replica[u]
      <4>1. CASE u = t
        BY <1>4, <2>2, <2>3, <4>1, DatabaseAssumption DEF Keep, Replace, TypeOK, Database, Without
      <4>2. CASE u # t /\ Same(u, t)
        <5>1. u \notin Done' /\ t \in Done'
          BY <2>3, <3>2, <4>2
        <5>2. CASE Replace(t)
          <6>1. Without(work, t)[u] = Absent
            <7> SUFFICES ASSUME Without(work, t)[u] # Absent PROVE FALSE
              OBVIOUS
            <7>1. u \in Present(Without(work, t))
              BY DEF Present
            <7>2. Collide(NamesOf(work, u), NamesOf(snap, t))
              BY <4>2 DEF Collide, NamesOf
            <7> QED
              BY <5>2, <7>1, <7>2 DEF Replace, Taken
          <6> QED
            BY <4>2, <5>1, <5>2, <6>1 DEF Replace, Same, TypeOK, Database
        <5>3. CASE Keep(t)
          <6>1. t \in Has(replica)
            BY <2>2, <3>1, <5>3 DEF Keep, Has, Present
          <6>2. replica[u] = Absent
            <7>1. u \notin Present(replica)
              BY <4>2, <6>1, OnePerName DEF Has
            <7> QED
              BY <7>1 DEF Present
          <6>3. work[u] = replica[u]
            BY <2>1, <2>2, <3>2, <3>3, <4>2 DEF Progress, Written
          <6> QED
            BY <4>2, <5>1, <5>3, <6>2, <6>3 DEF Keep
        <5> QED
          BY <1>4, <5>2, <5>3
      <4>3. CASE ~ Same(u, t)
        <5>1. work'[u] = work[u]
          BY <1>4, <4>3 DEF Keep, Replace, Without, Same, TypeOK, Database
        <5>2. u # t /\ (u \in Done' <=> u \in Done)
          BY <2>3, <4>3 DEF Same
        <5>3. (\E v \in Done' : Same(u, v)) <=> (\E v \in Done : Same(u, v))
          BY <2>3, <4>3
        <5> QED
          BY <2>1, <2>2, <5>1, <5>2, <5>3 DEF Progress, Written
      <4> QED
        BY <4>1, <4>2, <4>3 DEF Same
    <3> QED
      BY <2>3, <2>4, <3>4 DEF Written, Same
  <2>7. Reported'
    <3>0. /\ Differences(replica, snap)' = Differences(replica, snap)
          /\ t \in Differences(replica, snap) <=> replica[t] # snap[t]
      BY <2>1, <2>4 DEF IsNext, Progress, Lists, Differences, Has, Present
    <3>1. CASE Keep(t)
      BY <2>1, <2>2, <2>3, <3>0, <3>1 DEF Keep, Progress, Reported
    <3>2. CASE Replace(t)
      BY <2>1, <2>2, <2>3, <3>0, <3>2 DEF Replace, Progress, Reported
    <3> QED
      BY <1>4, <3>1, <3>2
  <2> QED
    BY <2>3, <2>5, <2>6, <2>7 DEF Progress
<1>5. ASSUME NEW t \in Tables, Refuse(t)
      PROVE  Inv'
  BY <1>1, <1>5 DEF Refuse, Rollback
<1>6. ASSUME NEW t \in Tables, Remove(t)
      PROVE  Inv'
  <2>1. src' = src /\ replica' = replica /\ snap' = snap /\ todo' = {} /\ todo = {}
        /\ t \in extra /\ Progress
    BY <1>6 DEF Remove
  <2>2. /\ Done' = Done /\ Done = Has(snap)
        /\ Has(replica)' = Has(replica) /\ Has(snap)' = Has(snap)
    BY <2>1 DEF Done, Has, Present
  <2>3. t \in Has(replica) \ Has(snap)
    BY <2>1, <2>2 DEF Progress, Lists
  <2>4. Gone' = Gone \cup {t}
    BY <1>6, <2>1, <2>2, <2>3 DEF Remove, Gone
  <2>5. Lists'
    BY <1>6, <2>1, <2>2 DEF Remove, Progress, Lists
  <2>6. WellFormed(src)' /\ WellFormed(replica)' /\ WellFormed(snap)' /\ WellFormed(work)'
    <3>1. WellFormed(Without(work, t))
      BY <2>1, WithoutFacts, PartWellFormed DEF Progress
    <3> QED
      BY <1>6, <2>1, <3>1 DEF Remove, Progress
  <2>7. Written'
    <3>1. ASSUME NEW u \in Tables
          PROVE  work'[u] = IF \E v \in Gone' : Same(u, v) THEN Absent
                            ELSE IF u \in Done THEN snap[u]
                            ELSE IF \E v \in Done : Same(u, v) THEN Absent
                            ELSE replica[u]
      <4>0. ASSUME Same(u, t), work[u] # Absent, work[u].kind = "view" PROVE FALSE
        <5>1. u \notin Done
          <6> SUFFICES ASSUME u \in Done PROVE FALSE
            OBVIOUS
          <6>1. work[u] = snap[u]
            BY <2>1, <4>0 DEF Progress, Written
          <6> QED
            BY <2>2, <4>0, <6>1 DEF Has
        <5>2. work[u] = replica[u]
          BY <2>1, <4>0, <5>1 DEF Progress, Written
        <5>3. u \in Present(replica) /\ t \in Present(replica)
          BY <2>3, <4>0, <5>2 DEF Has, Present
        <5>4. u = t
          BY <4>0, <5>3, OnePerName
        <5> QED
          BY <2>3, <4>0, <5>2, <5>4 DEF Has
      <4>1. work'[u] = IF Same(u, t) THEN Absent ELSE work[u]
        BY <1>6, <4>0 DEF Remove, Without, Same, Present
      <4>2. (\E v \in Gone' : Same(u, v)) <=> Same(u, t) \/ \E v \in Gone : Same(u, v)
        BY <2>4
      <4> QED
        BY <2>1, <4>1, <4>2 DEF Progress, Written
    <3> QED
      BY <2>1, <2>2, <3>1 DEF Written, Same
  <2>8. Reported'
    <3>1. Differences(replica, snap)' = Differences(replica, snap)
      BY <2>1, <2>2 DEF Differences
    <3> QED
      BY <1>6, <2>1, <2>2, <2>4, <3>1 DEF Remove, Progress, Reported
  <2> QED
    BY <2>5, <2>6, <2>7, <2>8 DEF Progress
<1>7. CASE Commit
  <2>1. Progress /\ todo = {} /\ extra = {} /\ EndSync /\ replica' = work /\ src' = src
    BY <1>7 DEF Commit
  <2>2. WellFormed(replica')
    BY <2>1 DEF Progress
  <2> QED
    BY <1>1, <2>1, <2>2
<1>8. CASE Fail
  BY <1>1, <1>8 DEF Fail, Rollback
<1>9. CASE UNCHANGED vars
  <2>1. UNCHANGED <<src, replica, running, snap, work, todo, extra, changed>>
    BY <1>9 DEF vars, tx
  <2>2. Progress => Progress'
    BY <2>1, SameProgress
  <2> QED
    BY <2>1, <2>2
<1> QED
  BY <1>2, <1>3, <1>4, <1>5, <1>6, <1>7, <1>8, <1>9 DEF Next, Step

LEMMA Invariance == Spec => []Inv
<1>1. Init => Inv
  BY Start
<1>2. Inv /\ TypeOK' /\ [Next]_vars => Inv'
  BY Steps
<1> QED
  BY <1>1, <1>2, TypeCorrect, PTL DEF Spec

-----------------------------------------------------------------------------
(* The properties.                                                         *)

\* The tables a sync returns are exactly those that differed.
THEOREM ReportIsExact == Spec => []ReportsDifferences
<1>1. Inv => ReportsDifferences
  BY WorkIsSynced DEF Inv, ReportsDifferences
<1> QED
  BY <1>1, Invariance, PTL

\* A sync is refused only where a name of a table, or of an index or trigger
\* on it, is that of something else in the replica.
THEOREM RefusalsExplained == Spec => []RefusalsAreMoves
<1>1. Inv => RefusalsAreMoves
  <2> SUFFICES ASSUME Inv, running, NEW t \in Tables, IsNext(t), Taken(t)
               PROVE  Moved(snap, replica)
    BY DEF RefusalsAreMoves
  <2>1. Progress /\ WellFormed(replica) /\ TypeOK
    BY DEF Inv
  <2>2. Gone = {}
    BY <2>1, NextTable
  <2>3. t \in Has(snap) /\ t \in Present(snap) /\ t \notin Done
    BY <2>1 DEF IsNext, Progress, Lists, Done, Has
  <2>4. PICK u \in Present(Without(work, t)) : Collide(NamesOf(work, u), NamesOf(snap, t))
    BY DEF Taken
  <2>5. u \in Tables /\ work[u] # Absent /\ (~ Same(t, u) \/ work[u].kind = "view")
    BY <2>4, WithoutFacts DEF Present
  <2>6. u \notin Done
    <3> SUFFICES ASSUME u \in Done PROVE FALSE
      OBVIOUS
    <3>1. work[u] = snap[u] /\ u \in Present(snap)
      BY <2>1, <2>2, <2>5 DEF Progress, Written, Done, Has
    <3>2. Collide(NamesOf(snap, u), NamesOf(snap, t))
      BY <2>4, <3>1 DEF NamesOf
    <3>3. u = t
      BY <2>1, <2>3, <3>1, <3>2 DEF Progress, WellFormed, Collide
    <3> QED
      BY <2>3, <3>3
  <2>7. work[u] = replica[u] /\ u \in Present(replica)
    BY <2>1, <2>2, <2>5, <2>6 DEF Progress, Written, Present
  <2>8. Collide(NamesOf(snap, t), NamesOf(replica, u))
    BY <2>4, <2>7 DEF Collide, NamesOf, Same
  <2> QED
    BY <2>3, <2>5, <2>7, <2>8 DEF Moved
<1> QED
  BY <1>1, Invariance, PTL

\* Readers of the replica see syncs as single steps, whatever happens in them.
THEOREM SyncIsAtomic == Spec => ImplementsAtomicReplica
<1> DEFINE held == IF running THEN snap ELSE Absent
<1>0. /\ Atomic!Database = Database
      /\ \A db : Atomic!WellFormed(db) <=> WellFormed(db)
      /\ \A r, s : Atomic!Synced(r, s) = Synced(r, s)
  <2> USE DEF Atomic!Has, Has, Atomic!Same, Same, Atomic!Present, Present
  <2>1. Atomic!Database = Database
    BY DEF Atomic!Database, Database, Atomic!Entry, Entry, Atomic!Table, Table,
           Atomic!View, View, Atomic!Virtual, Virtual, Atomic!Objects, Objects
  <2>2. \A db : Atomic!WellFormed(db) <=> WellFormed(db)
    BY DEF Atomic!WellFormed, WellFormed, Atomic!NamesOf, NamesOf
  <2>3. \A r, s : Atomic!Synced(r, s) = Synced(r, s)
    BY DEF Atomic!Synced, Synced
  <2> QED
    BY <2>1, <2>2, <2>3
<1>1. Init => Atomic!Init
  BY <1>0 DEF Init, Atomic!Init
<1>2. ASSUME Inv, TypeOK', [Next]_vars
      PROVE  [Atomic!Next]_<<src, replica, held>>
  <2>0. TypeOK /\ snap # Absent
    BY <1>2, DatabaseAssumption DEF Inv, TypeOK
  <2>1. ASSUME NEW t \in Tables, NEW new \in Entry, Edit(t, new)
        PROVE  Atomic!Edit
    BY <1>0, <1>2, <2>1 DEF Edit, tx, TypeOK, Atomic!Edit
  <2>2. CASE Begin
    BY <2>2 DEF Begin, Atomic!Begin, Atomic!Next
  <2>3. ASSUME NEW t \in Tables, Keep(t) \/ Replace(t) \/ Remove(t)
        PROVE  UNCHANGED <<src, replica, held>>
    BY <2>3 DEF Keep, Replace, Remove, Pass
  <2>4. ASSUME EndSync, running, UNCHANGED <<src, replica>>
        PROVE  Atomic!Abort
    BY <2>0, <2>4 DEF EndSync, Atomic!Abort
  <2>5. ASSUME NEW t \in Tables, Refuse(t)
        PROVE  Atomic!Abort
    BY <2>4, <2>5 DEF Refuse, Rollback
  <2>6. CASE Commit
    <3>1. replica' = Synced(replica, snap)
      BY <1>2, <2>6, WorkIsSynced DEF Commit, Inv
    <3> QED
      BY <1>0, <2>0, <2>6, <3>1 DEF Commit, EndSync, Atomic!Commit, Atomic!Next
  <2>7. CASE Fail
    BY <2>4, <2>7 DEF Fail, Rollback, Atomic!Next
  <2>8. CASE UNCHANGED vars
    BY <2>8 DEF vars, tx
  <2> QED
    BY <1>2, <2>1, <2>2, <2>3, <2>5, <2>6, <2>7, <2>8 DEF Next, Step, Atomic!Next
<1> QED
  BY <1>1, <1>2, TypeCorrect, Invariance, PTL DEF Spec, Atomic!Spec, ImplementsAtomicReplica
=============================================================================
