----------------------------- MODULE RulesProofs -----------------------------
(***************************************************************************)
(* What the rules of Rules promise holds for every input and, for the      *)
(* names, for every catalog that any number of changes leads to: not only  *)
(* for the small logs, schemas, tables and texts that MCRules enumerates.  *)
(* Each theorem follows from the invariant that the input is one of Inputs *)
(* (InputsAssumption says what they are) and that the names in the catalog *)
(* are apart.  A scan compares the text of paths, which is built by        *)
(* recursion from names: the section on scans shows that the comparisons   *)
(* of text compare the names, wherever these begin and end.                *)
(***************************************************************************)
EXTENDS RecordRulesProofs, FunctionTheorems

-----------------------------------------------------------------------------
(* Write-ahead logs.                                                       *)

\* The frames of a log: those of its generation, then what is left of earlier ones.
LEMMA LogFrames ==
  ASSUME NEW i, IsLog(i)
  PROVE  LET file == WalOf(i)
         IN  /\ Len(i.new) \in Nat
             /\ Len(file.frames) \in Nat /\ Len(file.frames) >= Len(i.new)
             /\ file.last = "part" => Len(file.frames) = Len(i.new) /\ Len(i.new) > 0
             /\ \A j \in 1 .. Len(i.new) : file.frames[j] = i.new[j] /\ file.frames[j].salt = "new"
             /\ \A j \in Len(i.new) + 1 .. Len(file.frames) : file.frames[j].salt # "new"
<1> DEFINE Fresh == [page: Nat \ {0}, commit: BOOLEAN, salt: {"new"}]
           Left  == [page: Nat \ {0}, commit: BOOLEAN, salt: STRING \ {"new"}]
           Each  == Fresh \cup Left
           n     == Len(i.new)
           m     == Len(i.old)
           rest  == SubSeq(i.old, n + 1, m)
           file  == WalOf(i)
<1>1. i.new \in Seq(Fresh) /\ i.old \in Seq(Left) /\ n \in Nat /\ m \in Nat
  BY DEF IsLog
<1>2. \A f \in Fresh : f.salt = "new"
  OBVIOUS
<1>3. \A f \in Left : f.salt # "new"
  OBVIOUS
<1>4. file.frames = i.new \o rest /\ file.last = IF n > m THEN i.last ELSE "whole"
  BY DEF WalOf
<1> HIDE DEF Fresh, Left, file
<1>5. \A j \in n + 1 .. m : i.old[j] \in Left
  BY <1>1
<1>6. /\ rest \in Seq(Left)
      /\ Len(rest) = IF n + 1 <= m THEN m - n ELSE 0
      /\ \A j \in 1 .. m - n : rest[j] = i.old[n + j]
  <2> DEFINE a == n + 1
  <2>1. a \in Int /\ m \in Int /\ \A j \in a .. m : i.old[j] \in Left
    BY <1>1, <1>5
  <2> HIDE DEF a
  <2>2. /\ SubSeq(i.old, a, m) \in Seq(Left)
        /\ Len(SubSeq(i.old, a, m)) = IF a <= m THEN m - a + 1 ELSE 0
        /\ \A j \in 1 .. m - a + 1 : SubSeq(i.old, a, m)[j] = i.old[a + j - 1]
    BY <2>1, SubSeqProperties
  <2>3. rest = SubSeq(i.old, a, m)
    BY DEF a
  <2> HIDE DEF rest, n, m
  <2>4. n \in Int /\ m \in Int
    BY <1>1
  <2>5. Len(rest) = IF n + 1 <= m THEN m - n ELSE 0
    BY <2>2, <2>3, <2>4 DEF a
  <2>6. ASSUME NEW j \in 1 .. m - n PROVE rest[j] = i.old[n + j]
    <3>1. j \in 1 .. m - a + 1 /\ a + j - 1 = n + j
      BY <2>4 DEF a
    <3> QED
      BY <2>2, <2>3, <3>1
  <2> QED
    BY <2>2, <2>3, <2>5, <2>6
<1>7. i.new \in Seq(Each) /\ rest \in Seq(Each)
  BY <1>1, <1>6, SeqMonotonic
<1> HIDE DEF n, m, rest
<1>8. /\ Len(file.frames) = n + Len(rest)
      /\ \A j \in 1 .. n + Len(rest) : file.frames[j] = IF j <= n THEN i.new[j] ELSE rest[j - n]
  BY <1>4, <1>7, ConcatProperties DEF n
<1>9. Len(rest) \in Nat
  BY <1>1, <1>6
<1>10. \A j \in 1 .. n : i.new[j] \in Fresh
  BY <1>1 DEF n
<1>11. \A j \in 1 .. Len(rest) : rest[j] \in Left
  BY <1>6
<1>12. \A j \in 1 .. n : file.frames[j] = i.new[j] /\ file.frames[j].salt = "new"
  BY SMTT(30), <1>1, <1>2, <1>8, <1>9, <1>10
<1>13. \A j \in n + 1 .. Len(file.frames) : file.frames[j].salt # "new"
  BY <1>1, <1>3, <1>8, <1>9, <1>11
<1>14. file.last = "part" => Len(rest) = 0 /\ n > 0
  BY <1>1, <1>4, <1>6
<1> QED
  BY <1>1, <1>8, <1>9, <1>12, <1>13, <1>14 DEF n, file

\* What is read is an interval of the generation.
LEMMA GenerationInterval ==
  ASSUME NEW i, IsLog(i), NEW start \in Nat
  PROVE  LET file  == WalOf(i)
             there == Len(i.new) - (IF file.last = "part" THEN 1 ELSE 0)
         IN  Generation(file, start) = (start + 1) .. there /\ there \in Nat /\ there <= Len(i.new)
<1> DEFINE file  == WalOf(i)
           n     == Len(i.new)
           torn  == IF file.last = "part" THEN 1 ELSE 0
           there == n - torn
<1>1. /\ n \in Nat /\ Len(file.frames) \in Nat /\ Len(file.frames) >= n
      /\ file.last = "part" => Len(file.frames) = n /\ n > 0
      /\ \A j \in 1 .. n : file.frames[j].salt = "new"
      /\ \A j \in n + 1 .. Len(file.frames) : file.frames[j].salt # "new"
  BY LogFrames
<1>2. file.salt = "new"
  BY DEF WalOf
<1>3. Readable(file) = Len(file.frames) - torn
  BY DEF Readable
<1>4. Generation(file, start) =
        {k \in (start + 1) .. Readable(file) : \A j \in (start + 1) .. k : file.frames[j].salt = "new"}
  BY <1>2 DEF Generation
<1>a. torn \in {0, 1} /\ (torn = 1 => Len(file.frames) = n /\ n > 0)
  BY <1>1
<1> HIDE DEF torn, file, n
<1>5. there \in Nat /\ there <= n /\ there <= Readable(file) /\ Readable(file) \in Nat
  BY <1>1, <1>3, <1>a
<1>6. n < Readable(file) => there = n
  BY <1>1, <1>3, <1>a
<1>7. Readable(file) <= Len(file.frames) /\ (Readable(file) <= n => Readable(file) = there)
  BY <1>1, <1>3, <1>a
<1> HIDE DEF file, n, there
<1>8. ASSUME NEW k \in (start + 1) .. there PROVE k \in Generation(file, start)
  BY <1>1, <1>4, <1>5
<1>9. ASSUME NEW k \in Generation(file, start) PROVE k \in (start + 1) .. there
  <2>1. k \in (start + 1) .. Readable(file) /\ file.frames[k].salt = "new"
    BY <1>4, <1>5
  <2>2. k <= n
    BY <1>1, <1>5, <1>7, <2>1
  <2> QED
    BY <1>1, <1>5, <1>6, <1>7, <2>1, <2>2
<1>10. Generation(file, start) = (start + 1) .. there
  BY <1>8, <1>9
<1> QED
  BY <1>5, <1>10 DEF file, n, there, torn

\* The frames, the commits and the pages that a reader gets are those of the interval.
LEMMA LogRead ==
  ASSUME NEW i, IsLog(i), i.header = "whole"
  PROVE  LET file   == WalOf(i)
             got    == ParseWAL(file, i.start)
             there  == Len(i.new) - (IF file.last = "part" THEN 1 ELSE 0)
             frames == SubSeq(i.new, IF i.start < 0 THEN 1 ELSE i.start + 1, there)
         IN  /\ got.frames = frames
             /\ got.commits = Cardinality({k \in DOMAIN frames : frames[k].commit})
             /\ got.changed = {frames[k].page : k \in DOMAIN frames}
<1> DEFINE Frame  == [page: Nat \ {0}, commit: BOOLEAN, salt: {"new"}]
           file   == WalOf(i)
           got    == ParseWAL(file, i.start)
           there  == Len(i.new) - (IF file.last = "part" THEN 1 ELSE 0)
           start  == StartFrame(i.start)
           read   == Generation(file, start)
           frames == SubSeq(i.new, start + 1, there)
           count  == IF start + 1 <= there THEN there - start ELSE 0
<1>1. start \in Nat /\ start + 1 = IF i.start < 0 THEN 1 ELSE i.start + 1
  BY DEF StartFrame, IsLog
<1>2. read = (start + 1) .. there /\ there \in Nat /\ there <= Len(i.new)
  BY <1>1, GenerationInterval
<1>3. /\ i.new \in Seq(Frame) /\ Len(i.new) \in Nat
      /\ \A j \in 1 .. Len(i.new) : file.frames[j] = i.new[j] /\ i.new[j] \in Frame
  <2>1. i.new \in Seq(Frame)
    BY DEF IsLog
  <2>2. Len(i.new) \in Nat /\ \A j \in 1 .. Len(i.new) : file.frames[j] = i.new[j]
    BY LogFrames
  <2> HIDE DEF Frame
  <2>3. \A j \in 1 .. Len(i.new) : i.new[j] \in Frame
    BY <2>1
  <2> QED
    BY <2>1, <2>2, <2>3
<1>4. /\ got.frames = [k \in 1 .. Cardinality(read) |-> file.frames[start + k]]
      /\ got.commits = Cardinality({k \in read : file.frames[k].commit})
      /\ got.changed = {file.frames[k].page : k \in read}
  BY DEF ParseWAL, WalOf
<1> HIDE DEF Frame, file, got, there, start, read
<1>5. /\ IsFiniteSet(read) /\ Cardinality(read) = count /\ count \in Nat
  <2>1. start + 1 \in Int /\ there \in Int
    BY <1>1, <1>2
  <2>2. IsFiniteSet(read) /\ Cardinality(read) = IF start + 1 <= there THEN there - (start + 1) + 1 ELSE 0
    BY <1>2, <2>1, FS_Interval
  <2> QED
    BY <1>1, <1>2, <2>2
<1>6. \A k \in 1 .. count : start + k \in read /\ file.frames[start + k] = i.new[start + k]
  BY <1>1, <1>2, <1>3
<1>7. /\ frames \in Seq(Frame) /\ Len(frames) = count /\ DOMAIN frames = 1 .. count
      /\ \A k \in 1 .. count : frames[k] = i.new[start + k]
  <2> DEFINE a == start + 1
  <2>1. a \in Int /\ there \in Int /\ \A j \in a .. there : i.new[j] \in Frame
    BY <1>1, <1>2, <1>3
  <2> HIDE DEF a
  <2>2. /\ SubSeq(i.new, a, there) \in Seq(Frame)
        /\ Len(SubSeq(i.new, a, there)) = IF a <= there THEN there - a + 1 ELSE 0
        /\ \A j \in 1 .. there - a + 1 : SubSeq(i.new, a, there)[j] = i.new[a + j - 1]
    BY <2>1, SubSeqProperties
  <2>3. frames = SubSeq(i.new, a, there)
    BY DEF a
  <2> HIDE DEF frames
  <2>4. Len(frames) = count
    BY <1>1, <1>2, <2>2, <2>3 DEF a
  <2>5. ASSUME NEW k \in 1 .. count PROVE frames[k] = i.new[start + k]
    <3>1. k \in 1 .. there - a + 1 /\ a + k - 1 = start + k
      BY <1>1, <1>2 DEF a
    <3> QED
      BY <2>2, <2>3, <3>1
  <2>6. DOMAIN frames = 1 .. count
    BY <2>2, <2>3, <2>4
  <2> QED
    BY <2>2, <2>3, <2>4, <2>5, <2>6
<1> HIDE DEF count, frames
<1>8. got.frames = frames
  <2>1. got.frames = [k \in 1 .. count |-> file.frames[start + k]]
    BY <1>4, <1>5
  <2>2. frames = [k \in 1 .. count |-> frames[k]]
    BY <1>7
  <2>3. \A k \in 1 .. count : file.frames[start + k] = frames[k]
    BY <1>6, <1>7
  <2> QED
    BY <2>1, <2>2, <2>3
<1>9. \A j \in read : j - start \in 1 .. count /\ start + (j - start) = j
  BY <1>1, <1>2 DEF count
<1>10. got.commits = Cardinality({k \in DOMAIN frames : frames[k].commit})
  <2> DEFINE A == {k \in DOMAIN frames : frames[k].commit}
             B == {k \in read : file.frames[k].commit}
             b == [k \in B |-> k - start]
  <2>1. \A k \in B : b[k] \in A
    BY <1>6, <1>7, <1>9
  <2>2. \A k, l \in B : b[k] = b[l] => k = l
    BY <1>9
  <2>3. ASSUME NEW k \in A PROVE \E l \in B : b[l] = k
    <3>1. start + k \in B
      BY <1>6, <1>7
    <3>2. b[start + k] = k
      BY <1>1, <1>5, <1>7, <3>1
    <3> QED
      BY <3>1, <3>2
  <2>4. b \in Bijection(B, A)
    BY <2>1, <2>2, <2>3 DEF Bijection, Injection, Surjection, IsInjective
  <2>5. IsFiniteSet(B)
    BY <1>5, FS_Subset
  <2>6. Cardinality(A) = Cardinality(B)
    BY <2>4, <2>5, FS_Bijection DEF ExistsBijection
  <2> QED
    BY <1>4, <2>6
<1>11. got.changed = {frames[k].page : k \in DOMAIN frames}
  <2>1. ASSUME NEW k \in read PROVE \E l \in DOMAIN frames : frames[l].page = file.frames[k].page
    BY <1>6, <1>7, <1>9
  <2>2. ASSUME NEW l \in DOMAIN frames PROVE \E k \in read : file.frames[k].page = frames[l].page
    BY <1>6, <1>7
  <2> QED
    BY <1>4, <2>1, <2>2
<1>12. SubSeq(i.new, IF i.start < 0 THEN 1 ELSE i.start + 1, there) = frames
  BY <1>1, Zenon DEF frames
<1> QED
  BY <1>8, <1>10, <1>11, <1>12, Zenon DEF got, there, file

LEMMA ReadsLog ==
  ASSUME input.rule = "wal", IsLog(input)
  PROVE  ReadsTheGeneration
<1> DEFINE file   == WalOf(input)
           got    == ParseWAL(file, input.start)
           there  == Len(input.new) - (IF file.last = "part" THEN 1 ELSE 0)
           frames == SubSeq(input.new, IF input.start < 0 THEN 1 ELSE input.start + 1, there)
           pages  == {frames[i].page : i \in DOMAIN frames}
<1>1. CASE input.header # "whole"
  <2>1. got.error = input.header
    BY <1>1 DEF ParseWAL, WalOf
  <2> QED
    BY <1>1, <2>1 DEF ReadsTheGeneration
<1>2. CASE input.header = "whole"
  <2>1. /\ got.frames = frames
        /\ got.commits = Cardinality({k \in DOMAIN frames : frames[k].commit})
        /\ got.changed = pages
    BY <1>2, LogRead
  <2> HIDE DEF got, frames
  <2>2. MapPagesToTables(got.changed, input.roots) =
          {input.roots[p] : p \in {p \in DOMAIN input.roots : p \in pages \/ 1 \in pages}}
    BY <2>1 DEF MapPagesToTables, Range
  <2> QED
    BY <1>2, <2>1, <2>2 DEF ReadsTheGeneration, got, frames
<1> QED
  BY <1>1, <1>2

-----------------------------------------------------------------------------
(* Names.                                                                  *)

\* A name with something behind it.
Joined(name, t) == name \o t

LEMMA JoinedNames ==
  ASSUME NEW name, IsName(name), NEW t, IsName(t)
  PROVE  /\ IsName(Joined(name, t)) /\ Len(Joined(name, t)) = Len(name) + Len(t)
         /\ \A i \in 1 .. Len(t) : Joined(name, t)[Len(name) + i] = t[i]
<1> DEFINE S == Range(name) \cup Range(t)
           u == name \o t
<1>1. name \in Seq(S) /\ t \in Seq(S) /\ Len(name) \in Nat /\ Len(t) \in Nat
  <2>1. /\ Len(name) \in Nat /\ DOMAIN name = 1 .. Len(name)
        /\ name = [i \in 1 .. Len(name) |-> name[i]]
    BY DEF IsName
  <2>2. /\ Len(t) \in Nat /\ DOMAIN t = 1 .. Len(t)
        /\ t = [i \in 1 .. Len(t) |-> t[i]]
    BY DEF IsName
  <2>3. (\A i \in 1 .. Len(name) : name[i] \in S) /\ (\A i \in 1 .. Len(t) : t[i] \in S)
    BY <2>1, <2>2 DEF Range
  <2> HIDE DEF S
  <2>4. name \in [1 .. Len(name) -> S] /\ t \in [1 .. Len(t) -> S]
    BY <2>1, <2>2, <2>3
  <2> QED
    BY <2>1, <2>2, <2>4, SeqDef
<1> HIDE DEF S
<1>2. /\ u \in Seq(S) /\ Len(u) = Len(name) + Len(t)
      /\ \A i \in 1 .. Len(name) + Len(t) : u[i] = IF i <= Len(name) THEN name[i] ELSE t[i - Len(name)]
  BY <1>1, ConcatProperties
<1>3. Len(u) \in Nat /\ u \in [1 .. Len(u) -> S]
  BY <1>2, LenProperties
<1> HIDE DEF u
<1>4. u = [i \in 1 .. Len(u) |-> u[i]]
  BY <1>3
<1>5. IsName(u)
  BY <1>3, <1>4 DEF IsName
<1>6. \A i \in 1 .. Len(t) : u[Len(name) + i] = t[i]
  BY SMTT(30), <1>1, <1>2
<1> QED
  BY <1>2, <1>5, <1>6 DEF u, Joined

\* What is put behind a name ends it.
LEMMA BehindTwo ==
  ASSUME NEW name, IsName(name), NEW a, NEW b
  PROVE  /\ IsName(name \o <<a, b>>) /\ Len(name \o <<a, b>>) = Len(name) + 2
         /\ (name \o <<a, b>>)[Len(name) + 2] = b
<1> DEFINE t == <<a, b>>
<1>1. IsName(t) /\ Len(t) = 2 /\ t[2] = b
  BY DEF IsName
<1> HIDE DEF t
<1>2. 2 \in 1 .. Len(t)
  BY <1>1
<1> DEFINE u == Joined(name, t)
<1>3. /\ IsName(u) /\ Len(u) = Len(name) + Len(t)
      /\ \A i \in 1 .. Len(t) : u[Len(name) + i] = t[i]
  <2>1. IsName(t)
    BY <1>1
  <2> QED
    BY ONLY <2>1, IsName(name), JoinedNames
<1> HIDE DEF u
<1>4. IsName(u) /\ Len(u) = Len(name) + 2 /\ u[Len(name) + 2] = b
  BY <1>1, <1>2, <1>3
<1> QED
  BY <1>4 DEF t, u, Joined

LEMMA BehindThree ==
  ASSUME NEW name, IsName(name), NEW a, NEW b, NEW n
  PROVE  /\ IsName(name \o <<a, b, n>>) /\ Len(name \o <<a, b, n>>) = Len(name) + 3
         /\ (name \o <<a, b, n>>)[Len(name) + 3] = n
<1> DEFINE t == <<a, b, n>>
<1>1. IsName(t) /\ Len(t) = 3 /\ t[3] = n
  BY DEF IsName
<1> HIDE DEF t
<1>2. 3 \in 1 .. Len(t)
  BY <1>1
<1> DEFINE u == Joined(name, t)
<1>3. /\ IsName(u) /\ Len(u) = Len(name) + Len(t)
      /\ \A i \in 1 .. Len(t) : u[Len(name) + i] = t[i]
  <2>1. IsName(t)
    BY <1>1
  <2> QED
    BY ONLY <2>1, IsName(name), JoinedNames
<1> HIDE DEF u
<1>4. IsName(u) /\ Len(u) = Len(name) + 3 /\ u[Len(name) + 3] = n
  BY <1>1, <1>2, <1>3
<1> QED
  BY <1>4 DEF t, u, Joined

\* Of more candidates than there are rows one is free, and the least such one is taken.
LEMMA FirstFreeIsFree ==
  ASSUME NEW rows, IsFiniteSet(DOMAIN rows), NEW path, NEW candidate, IsInjective(candidate),
         DOMAIN candidate \in SUBSET Nat, IsFiniteSet(DOMAIN candidate),
         Cardinality(DOMAIN rows) < Cardinality(DOMAIN candidate)
  PROVE  \E n \in DOMAIN candidate :
           FirstFree(rows, path, candidate) = candidate[n] /\ ~Taken(rows, candidate[n], path)
<1> DEFINE D == DOMAIN candidate
           Free == {n \in D : ~Taken(rows, candidate[n], path)}
           By(n) == CHOOSE p \in DOMAIN rows : rows[p] = candidate[n]
           f == [n \in D |-> By(n)]
<1>1. ASSUME Free = {} PROVE FALSE
  <2>1. \A n \in D : \E p \in DOMAIN rows : rows[p] = candidate[n]
    BY <1>1 DEF Taken
  <2>2. \A n \in D : By(n) \in DOMAIN rows /\ rows[By(n)] = candidate[n]
    BY <2>1
  <2> HIDE DEF By, D
  <2>3. f \in [D -> DOMAIN rows]
    BY <2>2
  <2>4. \E n, m \in D : n # m /\ f[n] = f[m]
    <3> HIDE DEF f
    <3> QED
      BY <2>3, FS_PigeonHole DEF D
  <2>5. PICK n \in D, m \in D : n # m /\ By(n) = By(m)
    BY <2>4
  <2>6. candidate[n] = candidate[m]
    BY <2>2, <2>5
  <2> QED
    BY <2>5, <2>6 DEF IsInjective, D
<1>2. PICK n \in Free : \A m \in Free : n <= m
  <2>1. Free # {} /\ Free \in SUBSET Nat
    BY <1>1
  <2> QED
    BY <2>1, LeastNumber
<1> DEFINE Is(k) == /\ ~Taken(rows, candidate[k], path)
                    /\ \A m \in DOMAIN candidate : m < k => Taken(rows, candidate[m], path)
<1>3. n \in D /\ Is(n)
  <2>1. \A m \in D : m < n => m \notin Free
    BY <1>2
  <2> QED
    BY <1>2, <2>1
<1> DEFINE least == CHOOSE k \in DOMAIN candidate : Is(k)
<1>4. least \in DOMAIN candidate /\ Is(least)
  <2> HIDE DEF Is
  <2> QED
    BY <1>3
<1>5. FirstFree(rows, path, candidate) = candidate[least]
  BY DEF FirstFree
<1> QED
  BY <1>4, <1>5

\* availableCatalogName finds a name that no other path has.
LEMMA CatalogNameIsFree ==
  ASSUME NEW rows, IsFiniteSet(DOMAIN rows), NEW path, NEW name, IsName(name)
  PROVE  /\ IsName(AvailableCatalogName(rows, name, path))
         /\ ~Taken(rows, AvailableCatalogName(rows, name, path), path)
<1> DEFINE size == Cardinality(DOMAIN rows)
           Numbered(n) == name \o <<"(", n>>
           candidate == [n \in 1 .. size + 1 |-> IF n = 1 THEN name ELSE Numbered(n)]
<1>1. size \in Nat
  BY FS_CardinalityType
<1>2. \A n : IsName(Numbered(n)) /\ Len(Numbered(n)) = Len(name) + 2 /\ Numbered(n)[Len(name) + 2] = n
  BY BehindTwo
<1>3. Len(name) \in Nat
  BY DEF IsName
<1>a. AvailableCatalogName(rows, name, path) = FirstFree(rows, path, candidate)
  BY DEF AvailableCatalogName
<1> HIDE DEF size, Numbered
<1>4. \A n, m \in DOMAIN candidate : candidate[n] = candidate[m] => n = m
  <2> SUFFICES ASSUME NEW n \in 1 .. size + 1, NEW m \in 1 .. size + 1, candidate[n] = candidate[m]
               PROVE  n = m
    OBVIOUS
  <2>1. \A k : Numbered(k) # name
    BY <1>2, <1>3
  <2>2. CASE n = 1 \/ m = 1
    BY <2>1, <2>2
  <2>3. CASE n # 1 /\ m # 1
    <3>1. Numbered(n) = Numbered(m)
      BY <2>3
    <3> QED
      BY <1>2, <3>1
  <2> QED
    BY <2>2, <2>3
<1>5. /\ DOMAIN candidate \in SUBSET Nat /\ IsFiniteSet(DOMAIN candidate)
      /\ size < Cardinality(DOMAIN candidate)
  <2>1. DOMAIN candidate = 1 .. size + 1
    OBVIOUS
  <2>2. IsFiniteSet(1 .. size + 1) /\ Cardinality(1 .. size + 1) = size + 1
    BY <1>1, FS_Interval
  <2> QED
    BY <1>1, <2>1, <2>2
<1>6. \A n \in DOMAIN candidate : IsName(candidate[n])
  BY <1>2
<1> HIDE DEF candidate
<1>7. IsInjective(candidate)
  BY <1>4 DEF IsInjective
<1>8. PICK n \in DOMAIN candidate :
        FirstFree(rows, path, candidate) = candidate[n] /\ ~Taken(rows, candidate[n], path)
  BY <1>5, <1>7, FirstFreeIsFree DEF size
<1> QED
  BY <1>6, <1>8, <1>a

\* availableDiscoveredName finds a name that no other path has.
LEMMA DiscoveredNameIsFree ==
  ASSUME NEW rows, IsFiniteSet(DOMAIN rows), NEW path, path \notin DOMAIN rows, NEW name, IsName(name)
  PROVE  /\ IsName(AvailableDiscoveredName(rows, name, path))
         /\ ~Taken(rows, AvailableDiscoveredName(rows, name, path), path)
<1> DEFINE size == Cardinality(DOMAIN rows)
           Hashed == name \o <<"#", Hash[path]>>
           Numbered(n) == name \o <<"#", Hash[path], n>>
           candidate == [n \in 0 .. size |->
                           CASE n = 0 -> name [] n = 1 -> Hashed [] OTHER -> Numbered(n)]
<1>1. size \in Nat
  BY FS_CardinalityType
<1>2. /\ IsName(Hashed) /\ Len(Hashed) = Len(name) + 2
      /\ \A n : IsName(Numbered(n)) /\ Len(Numbered(n)) = Len(name) + 3 /\ Numbered(n)[Len(name) + 3] = n
  BY BehindTwo, BehindThree
<1>3. Len(name) \in Nat
  BY DEF IsName
<1>a. AvailableDiscoveredName(rows, name, path) = FirstFree(rows, path, candidate)
  BY DEF AvailableDiscoveredName
<1> HIDE DEF size, Hashed, Numbered
<1>4. \A n, m \in DOMAIN candidate : candidate[n] = candidate[m] => n = m
  <2> SUFFICES ASSUME NEW n \in 0 .. size, NEW m \in 0 .. size, candidate[n] = candidate[m]
               PROVE  n = m
    OBVIOUS
  <2>1. Hashed # name /\ \A k : Numbered(k) # name /\ Numbered(k) # Hashed
    BY <1>2, <1>3
  <2>2. CASE n \in {0, 1} \/ m \in {0, 1}
    BY <2>1, <2>2
  <2>3. CASE n \notin {0, 1} /\ m \notin {0, 1}
    <3>1. Numbered(n) = Numbered(m)
      BY <2>3
    <3> QED
      BY <1>2, <3>1
  <2> QED
    BY <2>2, <2>3
<1>5. /\ DOMAIN candidate \in SUBSET Nat /\ IsFiniteSet(DOMAIN candidate)
      /\ size < Cardinality(DOMAIN candidate)
  <2>1. DOMAIN candidate = 0 .. size
    OBVIOUS
  <2>2. IsFiniteSet(0 .. size) /\ Cardinality(0 .. size) = size + 1
    BY <1>1, FS_Interval
  <2> QED
    BY <1>1, <2>1, <2>2
<1>6. \A n \in DOMAIN candidate : IsName(candidate[n])
  BY <1>2
<1> HIDE DEF candidate
<1>7. IsInjective(candidate)
  BY <1>4 DEF IsInjective
<1>8. PICK n \in DOMAIN candidate :
        FirstFree(rows, path, candidate) = candidate[n] /\ ~Taken(rows, candidate[n], path)
  BY <1>5, <1>7, FirstFreeIsFree DEF size
<1> QED
  BY <1>6, <1>8, <1>a

\* The catalog has finitely many rows, each with a name that no other has.
NamesApart(rows) ==
  /\ IsFiniteSet(DOMAIN rows) /\ IsInjective(rows)
  /\ \A p \in DOMAIN rows : IsName(rows[p])

Kept(before, after) == \A p \in DOMAIN before \cap DOMAIN after : after[p] = before[p]

\* A row that is added or updated leaves the names apart and the others as they are.
LEMMA UpsertKeepsNames ==
  ASSUME NEW rows, NamesApart(rows), NEW path, NEW name, IsName(name)
  PROVE  /\ NamesApart(UpsertDiscovered(rows, name, path))
         /\ Kept(rows, UpsertDiscovered(rows, name, path))
<1> DEFINE given == AvailableDiscoveredName(rows, name, path)
           after == UpsertDiscovered(rows, name, path)
<1>1. IsName(given) /\ ~Taken(rows, given, path)
  <2>1. CASE path \in DOMAIN rows
    <3>1. given = rows[path]
      BY <2>1 DEF AvailableDiscoveredName
    <3> QED
      BY <2>1, <3>1 DEF NamesApart, IsInjective, Taken
  <2>2. CASE path \notin DOMAIN rows
    BY <2>2, DiscoveredNameIsFree DEF NamesApart
  <2> QED
    BY <2>1, <2>2
<1>2. path \in DOMAIN rows => given = rows[path]
  BY DEF AvailableDiscoveredName
<1>3. /\ DOMAIN after = DOMAIN rows \cup {path}
      /\ after[path] = given
      /\ \A p \in DOMAIN rows \ {path} : after[p] = rows[p]
  BY DEF UpsertDiscovered
<1> HIDE DEF given, after
<1>4. IsFiniteSet(DOMAIN after)
  BY <1>3, FS_AddElement DEF NamesApart
<1>5. \A p, q \in DOMAIN after : after[p] = after[q] => p = q
  BY <1>1, <1>3 DEF NamesApart, IsInjective, Taken
<1>6. \A p \in DOMAIN after : IsName(after[p])
  BY <1>1, <1>3 DEF NamesApart
<1>7. NamesApart(after)
  BY <1>4, <1>5, <1>6 DEF NamesApart, IsInjective
<1>8. Kept(rows, after)
  BY <1>2, <1>3 DEF Kept
<1> QED
  BY <1>7, <1>8 DEF after

LEMMA DeleteKeepsNames ==
  ASSUME NEW rows, NamesApart(rows), NEW path
  PROVE  /\ NamesApart(DeleteDiscoveredByPath(rows, path))
         /\ Kept(rows, DeleteDiscoveredByPath(rows, path))
<1> DEFINE after == DeleteDiscoveredByPath(rows, path)
<1>1. /\ DOMAIN after = DOMAIN rows \ {path}
      /\ \A p \in DOMAIN after : after[p] = rows[p]
  BY DEF DeleteDiscoveredByPath, Restrict
<1> HIDE DEF after
<1>2. IsFiniteSet(DOMAIN after)
  BY <1>1, FS_Subset DEF NamesApart
<1>3. NamesApart(after) /\ Kept(rows, after)
  BY <1>1, <1>2 DEF NamesApart, IsInjective, Kept
<1> QED
  BY <1>3 DEF after

\* Each change of the catalog leaves the names apart.
LEMMA ChangeKeepsNames ==
  ASSUME NamesApart(catalog), NEW p \in Paths, Discover(p) \/ Register(p) \/ Delete(p)
  PROVE  NamesApart(catalog)' /\ Kept(catalog, catalog')
<1>1. IsName(FileName[p])
  BY NamesAssumption
<1>2. CASE Discover(p)
  <2>1. catalog' = UpsertDiscovered(catalog, FileName[p], p)
    BY <1>2 DEF Discover
  <2> QED
    BY <1>1, <2>1, UpsertKeepsNames DEF NamesApart
<1>3. CASE Register(p)
  <2> DEFINE name == AvailableCatalogName(catalog, FileName[p], p)
  <2>1. IsName(name)
    BY <1>1, CatalogNameIsFree DEF NamesApart
  <2>2. catalog' = UpsertDiscovered(catalog, name, p)
    BY <1>3 DEF Register, RegisterDatabase
  <2> HIDE DEF name
  <2> QED
    BY <2>1, <2>2, UpsertKeepsNames DEF NamesApart
<1>4. CASE Delete(p)
  BY <1>4, DeleteKeepsNames DEF Delete, NamesApart
<1> QED
  BY <1>2, <1>3, <1>4

-----------------------------------------------------------------------------
(* Schemas.                                                                *)

\* Pieces that say the same are one piece when they have been normalized.
LEMMA SenseNormalized ==
  ASSUME NEW p, NEW q, IsPiece(p), IsPiece(q), Sense(p) = Sense(q)
  PROVE  NormalizeForCompare(p) = NormalizeForCompare(q) /\ NormalizedPiece(p) = NormalizedPiece(q)
<1> DEFINE words(r) == [n \in DOMAIN r.def |-> r.def[n].word]
           senses(r) == [n \in DOMAIN r.def |->
                           IF r.def[n].gap = "layout" THEN Bare(r.def[n]) ELSE r.def[n]]
<1>1. ASSUME NEW r, IsPiece(r)
      PROVE  /\ Sense(r) = [verb |-> r.verb, name |-> r.name, glued |-> r.glued, def |-> senses(r)]
             /\ NormalizeForCompare(r) = [verb |-> r.verb, name |-> r.name, glued |-> r.glued, def |-> words(r)]
             /\ \A n \in DOMAIN r.def : senses(r)[n].word = words(r)[n]
  <2>1. r = [verb |-> r.verb, name |-> r.name, glued |-> r.glued, def |-> r.def]
    BY <1>1 DEF IsPiece
  <2>2. Sense(r) = [verb |-> r.verb, name |-> r.name, glued |-> r.glued, def |-> senses(r)]
    BY <2>1 DEF Sense
  <2>3. NormalizeForCompare(r) = [verb |-> r.verb, name |-> r.name, glued |-> r.glued, def |-> words(r)]
    BY <2>1 DEF NormalizeForCompare
  <2>4. \A n \in DOMAIN r.def : senses(r)[n].word = words(r)[n]
    BY <1>1 DEF IsPiece, Bare
  <2> QED BY <2>2, <2>3, <2>4
<1>2. p.verb = q.verb /\ p.name = q.name /\ p.glued = q.glued /\ senses(p) = senses(q)
  BY <1>1
<1>3. words(p) = words(q)
  <2>1. DOMAIN p.def = DOMAIN q.def
    BY <1>2
  <2>2. ASSUME NEW n \in DOMAIN p.def PROVE p.def[n].word = q.def[n].word
    <3>1. senses(p)[n].word = words(p)[n] /\ senses(q)[n].word = words(q)[n]
      <4> HIDE DEF words, senses
      <4> QED BY <1>1, <2>1
    <3>2. senses(p)[n].word = senses(q)[n].word
      <4> HIDE DEF senses
      <4> QED BY <1>2
    <3>3. words(p)[n] = p.def[n].word /\ words(q)[n] = q.def[n].word
      BY <2>1
    <3> HIDE DEF words, senses
    <3> QED BY <3>1, <3>2, <3>3
  <2> QED BY <2>1, <2>2
<1>4. NormalizeForCompare(p) = NormalizeForCompare(q)
  BY <1>1, <1>2, <1>3
<1>5. NormalizedPiece(p) = NormalizedPiece(q)
  <2>1. ASSUME NEW r, IsPiece(r)
        PROVE  NormalizedPiece(r) = [verb |-> r.verb, name |-> r.name, glued |-> r.glued,
                                     def |-> RemoveFirst(NormalizeForCompare(r).def, IfNotExists)]
    <3>1. r = [verb |-> r.verb, name |-> r.name, glued |-> r.glued, def |-> r.def]
      BY <2>1 DEF IsPiece
    <3> QED BY <3>1 DEF NormalizedPiece
  <2> QED BY <1>2, <1>4, <2>1
<1> QED BY <1>4, <1>5

\* No word of a piece is lost by normalizing it.
KeepsWords(p) == \A w \in Range(p.def) : w.gap # "literal" /\ w.word # IfNotExists

LEMMA PlainNormalized ==
  ASSUME NEW p, IsPiece(p), KeepsWords(p)
  PROVE  NormalizedPiece(p) = NormalizeForCompare(p)
<1> DEFINE words == [n \in DOMAIN p.def |-> p.def[n].word]
<1>1. p = [verb |-> p.verb, name |-> p.name, glued |-> p.glued, def |-> p.def]
  BY DEF IsPiece
<1>2. NormalizeForCompare(p) = [verb |-> p.verb, name |-> p.name, glued |-> p.glued, def |-> words]
  BY <1>1 DEF NormalizeForCompare
<1>3. DOMAIN words = 1 .. Len(p.def) /\ Len(p.def) \in Nat
  <2>1. DOMAIN p.def = 1 .. Len(p.def) /\ Len(p.def) \in Nat
    BY DEF IsPiece
  <2> QED BY <2>1
<1>4. Len(words) = Len(p.def)
  <2>1. words = [n \in 1 .. Len(p.def) |-> p.def[n].word]
    BY <1>3
  <2> QED BY <1>3, <2>1
<1>5. ~\E n \in 1 .. Len(words) : words[n] = IfNotExists
  BY <1>3, <1>4 DEF KeepsWords, Range
<1>6. RemoveFirst(words, IfNotExists) = words
  BY <1>5, Zenon DEF RemoveFirst
<1> QED BY <1>1, <1>2, <1>6 DEF NormalizedPiece

\* Pieces from which normalizing takes nothing but layout are the same then only if they say the same.
LEMMA PlainSense ==
  ASSUME NEW p, NEW q, IsPiece(p), IsPiece(q), KeepsWords(p), KeepsWords(q),
         NormalizeForCompare(p) = NormalizeForCompare(q)
  PROVE  Sense(p) = Sense(q)
<1> DEFINE words(r) == [n \in DOMAIN r.def |-> r.def[n].word]
           senses(r) == [n \in DOMAIN r.def |->
                           IF r.def[n].gap = "layout" THEN Bare(r.def[n]) ELSE r.def[n]]
           blank(r) == [n \in DOMAIN r.def |-> [word |-> r.def[n].word, gap |-> "blank"]]
<1>1. ASSUME NEW r, IsPiece(r), KeepsWords(r)
      PROVE  /\ Sense(r) = [verb |-> r.verb, name |-> r.name, glued |-> r.glued, def |-> blank(r)]
             /\ NormalizeForCompare(r) = [verb |-> r.verb, name |-> r.name, glued |-> r.glued, def |-> words(r)]
  <2>1. r = [verb |-> r.verb, name |-> r.name, glued |-> r.glued, def |-> r.def]
    BY <1>1 DEF IsPiece
  <2>2. Sense(r) = [verb |-> r.verb, name |-> r.name, glued |-> r.glued, def |-> senses(r)]
    BY <2>1 DEF Sense
  <2>3. NormalizeForCompare(r) = [verb |-> r.verb, name |-> r.name, glued |-> r.glued, def |-> words(r)]
    BY <2>1 DEF NormalizeForCompare
  <2>4. ASSUME NEW n \in DOMAIN r.def
        PROVE  (IF r.def[n].gap = "layout" THEN Bare(r.def[n]) ELSE r.def[n])
                 = [word |-> r.def[n].word, gap |-> "blank"]
    <3>1. n \in 1 .. Len(r.def)
      BY <1>1 DEF IsPiece
    <3>2. /\ r.def[n] = [word |-> r.def[n].word, gap |-> r.def[n].gap]
          /\ r.def[n].gap \in {"blank", "layout", "literal"}
      BY <1>1, <3>1 DEF IsPiece
    <3>3. r.def[n].gap # "literal"
      BY <1>1 DEF KeepsWords, Range
    <3> QED BY <3>2, <3>3 DEF Bare
  <2>5. senses(r) = blank(r)
    BY <2>4
  <2> QED BY <2>2, <2>3, <2>5
<1>2. p.verb = q.verb /\ p.name = q.name /\ p.glued = q.glued /\ words(p) = words(q)
  BY <1>1
<1>3. blank(p) = blank(q)
  <2>1. DOMAIN p.def = DOMAIN q.def
    BY <1>2
  <2>2. \A n \in DOMAIN p.def : p.def[n].word = q.def[n].word
    <3>1. \A n \in DOMAIN p.def : words(p)[n] = p.def[n].word /\ words(q)[n] = q.def[n].word
      BY <2>1
    <3> QED BY <1>2, <3>1
  <2> QED BY <2>1, <2>2
<1> QED BY <1>1, <1>2, <1>3

\* The parts of an object.
LEMMA ObjectFields ==
  ASSUME NEW o, IsObject(o)
  PROVE  /\ Len(o.text) \in Nat \ {0} /\ DOMAIN o.text = 1 .. Len(o.text)
         /\ \A n \in DOMAIN o.text : IsPiece(o.text[n])
         /\ Plain(o) => KeepsWords(o.text[1])
         /\ o.text[1] # End /\ (o.kind = "trigger" => o.text[Len(o.text)] = End)
<1>1. Len(o.text) \in Nat \ {0} /\ o.text = [n \in 1 .. Len(o.text) |-> o.text[n]]
  BY DEF IsObject
<1>2. DOMAIN o.text = 1 .. Len(o.text)
  BY <1>1
<1>3. o.text[1] # End
  BY DEF IsObject, End
<1> QED BY <1>1, <1>2, <1>3 DEF IsObject, Plain, KeepsWords, Last

\* Objects of one meaning have the same pieces in the same places.
LEMMA MeaningPieces ==
  ASSUME NEW a, NEW b, IsObject(a), IsObject(b), Meaning(a) = Meaning(b)
  PROVE  /\ a.kind = b.kind /\ a.name = b.name /\ DOMAIN a.text = DOMAIN b.text
         /\ \A n \in DOMAIN a.text : /\ NormalizeForCompare(a.text[n]) = NormalizeForCompare(b.text[n])
                                     /\ NormalizedPiece(a.text[n]) = NormalizedPiece(b.text[n])
<1> DEFINE senses(o) == [n \in DOMAIN o.text |-> Sense(o.text[n])]
<1>1. a.kind = b.kind /\ a.name = b.name /\ senses(a) = senses(b)
  BY DEF Meaning
<1>2. DOMAIN a.text = DOMAIN b.text
  BY <1>1
<1>3. ASSUME NEW n \in DOMAIN a.text PROVE Sense(a.text[n]) = Sense(b.text[n])
  <2>1. senses(a)[n] = Sense(a.text[n]) /\ senses(b)[n] = Sense(b.text[n])
    BY <1>2
  <2> QED BY <1>1, <2>1
<1> QED BY <1>1, <1>2, <1>3, SenseNormalized, ObjectFields

\* What a text names.
SameNames(a, b) ==
  a.text[1].verb = b.text[1].verb /\ a.text[1].name = b.text[1].name => a.name = b.name

\* Plain texts whose first pieces are the same when normalized have one meaning.
LEMMA PlainMeaning ==
  ASSUME NEW a, NEW b, IsObject(a), IsObject(b), Plain(a), Plain(b), SameNames(a, b),
         NormalizeForCompare(a.text[1]) = NormalizeForCompare(b.text[1])
  PROVE  Meaning(a) = Meaning(b)
<1>1. Sense(a.text[1]) = Sense(b.text[1])
  BY ObjectFields, PlainSense
<1>2. a.text[1].verb = b.text[1].verb /\ a.text[1].name = b.text[1].name
  <2>1. \A p : IsPiece(p) => NormalizeForCompare(p).verb = p.verb /\ NormalizeForCompare(p).name = p.name
    BY DEF NormalizeForCompare, IsPiece
  <2>2. IsPiece(a.text[1]) /\ IsPiece(b.text[1])
    BY ObjectFields
  <2> QED BY <2>1, <2>2
<1>3. a.name = b.name
  BY <1>2 DEF SameNames
<1>4. a.kind = b.kind
  BY <1>2 DEF IsObject
<1>5. Len(a.text) = Len(b.text) /\ Len(a.text) \in {1, 2}
      /\ (Len(a.text) = 2 => a.kind = "trigger" /\ b.kind = "trigger")
  <2>1. (a.kind = "trigger" => Len(a.text) = 2 /\ Len(b.text) = 2)
        /\ (a.kind # "trigger" => Len(a.text) = 1 /\ Len(b.text) = 1)
    BY <1>4 DEF Plain
  <2> QED BY <1>4, <2>1
<1>6. \A n \in 1 .. Len(a.text) : Sense(a.text[n]) = Sense(b.text[n])
  <2>1. CASE Len(a.text) = 1
    BY <1>1, <2>1
  <2>2. CASE Len(a.text) = 2
    <3>1. a.text[2] = End /\ b.text[2] = End
      BY <1>5, <2>2, ObjectFields
    <3>2. \A n \in 1 .. 2 : n = 1 \/ n = 2
      OBVIOUS
    <3> QED BY <1>1, <2>2, <3>1, <3>2
  <2> QED BY <1>5, <2>1, <2>2
<1>7. DOMAIN a.text = 1 .. Len(a.text) /\ DOMAIN b.text = 1 .. Len(a.text)
  BY <1>5, ObjectFields
<1>8. [n \in DOMAIN a.text |-> Sense(a.text[n])] = [n \in DOMAIN b.text |-> Sense(b.text[n])]
  BY <1>6, <1>7
<1> QED BY <1>3, <1>4, <1>8 DEF Meaning

\* A piece is somewhere in the texts.
LEMMA PieceAt ==
  ASSUME NEW schema, NEW p
  PROVE  p \in Pieces(schema) <=> \E o \in schema : \E n \in DOMAIN o.text : p = o.text[n]
BY DEF Pieces, ToSet

LEMMA PlaceAt ==
  ASSUME NEW schema, NEW p, NEW x
  PROVE  x \in Places(p, schema) <=>
           \E o \in schema : \E n \in DOMAIN o.text : x = <<o, n>> /\ NormalizedPiece(o.text[n]) = p
BY DEF Places

\* A piece has finitely many places in a schema.
LEMMA PlacesFinite ==
  ASSUME NEW schema, IsSchema(schema), NEW p
  PROVE  IsFiniteSet(Places(p, schema))
<1> DEFINE of(o) == {<<o, n>> : n \in {m \in DOMAIN o.text : NormalizedPiece(o.text[m]) = p}}
<1>1. ASSUME NEW o \in schema PROVE IsFiniteSet(of(o))
  <2> DEFINE there == {m \in DOMAIN o.text : NormalizedPiece(o.text[m]) = p}
  <2>1. DOMAIN o.text = 1 .. Len(o.text) /\ Len(o.text) \in Nat
    BY ObjectFields DEF IsSchema
  <2>2. IsFiniteSet(1 .. Len(o.text))
    BY <2>1, FS_Interval
  <2>3. IsFiniteSet(there)
    BY <2>1, <2>2, FS_Subset
  <2> HIDE DEF there
  <2> DEFINE place == [n \in there |-> <<o, n>>]
             T == {<<o, n>> : n \in there}
  <2>4. place \in [there -> T] /\ \A t \in T : \E n \in there : place[n] = t
    OBVIOUS
  <2>5. T = of(o)
    BY DEF there
  <2> HIDE DEF T, place
  <2>6. place \in Surjection(there, T)
    BY <2>4, Fun_IsSurj
  <2> QED BY <2>3, <2>5, <2>6, FS_Surjection
<1> HIDE DEF of
<1>2. IsFiniteSet({of(o) : o \in schema})
  <2> DEFINE each == [o \in schema |-> of(o)]
             T == {of(o) : o \in schema}
  <2>1. each \in [schema -> T] /\ \A t \in T : \E o \in schema : each[o] = t
    OBVIOUS
  <2> HIDE DEF T, each
  <2>2. each \in Surjection(schema, T)
    BY <2>1, Fun_IsSurj
  <2>3. IsFiniteSet(T)
    BY <2>2, FS_Surjection DEF IsSchema
  <2> QED BY <2>3 DEF T
<1>3. IsFiniteSet(UNION {of(o) : o \in schema})
  BY <1>1, <1>2, FS_UNION
<1> QED BY <1>3 DEF Places, of

\* In a schema that says the same a piece has as many places.
LEMMA SamePlaces ==
  ASSUME NEW old, NEW new, IsSchema(old), IsSchema(new), MeaningOf(old) = MeaningOf(new), NEW p
  PROVE  Cardinality(Places(p, old)) = Cardinality(Places(p, new))
<1> DEFINE A == Places(p, old)
           B == Places(p, new)
           twin(o) == CHOOSE n \in new : Meaning(n) = Meaning(o)
           f == [x \in A |-> <<twin(x[1]), x[2]>>]
<1>1. ASSUME NEW o \in old PROVE twin(o) \in new /\ Meaning(twin(o)) = Meaning(o)
  <2>1. \E n \in new : Meaning(n) = Meaning(o)
    <3>1. Meaning(o) \in MeaningOf(new)
      BY DEF MeaningOf
    <3> QED BY <3>1 DEF MeaningOf
  <2> QED BY <2>1
<1>2. ASSUME NEW n \in new PROVE \E o \in old : Meaning(o) = Meaning(n) /\ twin(o) = n
  <2>1. PICK o \in old : Meaning(o) = Meaning(n)
    <3>1. Meaning(n) \in MeaningOf(old)
      BY DEF MeaningOf
    <3> QED BY <3>1 DEF MeaningOf
  <2>2. twin(o) \in new /\ Meaning(twin(o)) = Meaning(n)
    BY <1>1, <2>1
  <2> HIDE DEF twin
  <2>3. twin(o).kind = n.kind /\ twin(o).name = n.name
    BY <2>2, MeaningPieces DEF IsSchema
  <2>4. twin(o) = n
    BY <2>2, <2>3 DEF IsSchema
  <2> QED BY <2>1, <2>4
<1>3. ASSUME NEW a \in old, NEW b \in old, twin(a) = twin(b) PROVE a = b
  <2>1. Meaning(a) = Meaning(b)
    BY <1>1, <1>3
  <2>2. a.kind = b.kind /\ a.name = b.name
    BY <2>1, MeaningPieces DEF IsSchema
  <2> QED BY <2>2 DEF IsSchema
<1> HIDE DEF twin
<1>4. f \in [A -> B]
  <2>1. ASSUME NEW x \in A PROVE <<twin(x[1]), x[2]>> \in B
    <3>1. PICK o \in old : \E n \in DOMAIN o.text : x = <<o, n>> /\ NormalizedPiece(o.text[n]) = p
      BY PlaceAt
    <3>2. PICK n \in DOMAIN o.text : x = <<o, n>> /\ NormalizedPiece(o.text[n]) = p
      BY <3>1
    <3>3. twin(o) \in new /\ Meaning(twin(o)) = Meaning(o)
      BY <1>1
    <3>4. n \in DOMAIN twin(o).text /\ NormalizedPiece(twin(o).text[n]) = p
      BY <3>2, <3>3, MeaningPieces DEF IsSchema
    <3>5. <<twin(o), n>> \in B
      BY <3>3, <3>4, PlaceAt
    <3> QED BY <3>2, <3>5
  <2> HIDE DEF A, B
  <2> QED BY <2>1
<1>5. \A x, y \in A : f[x] = f[y] => x = y
  <2> SUFFICES ASSUME NEW x \in A, NEW y \in A, f[x] = f[y] PROVE x = y
    OBVIOUS
  <2>1. PICK o \in old : \E n \in DOMAIN o.text : x = <<o, n>> /\ NormalizedPiece(o.text[n]) = p
    BY PlaceAt
  <2>2. PICK q \in old : \E n \in DOMAIN q.text : y = <<q, n>> /\ NormalizedPiece(q.text[n]) = p
    BY PlaceAt
  <2>3. PICK n : x = <<o, n>>
    BY <2>1
  <2>4. PICK m : y = <<q, m>>
    BY <2>2
  <2>5. f[x] = <<twin(o), n>> /\ f[y] = <<twin(q), m>>
    BY <2>3, <2>4
  <2>6. twin(o) = twin(q) /\ n = m
    BY <2>5
  <2> QED BY <1>3, <2>3, <2>4, <2>6
<1>6. \A y \in B : \E x \in A : f[x] = y
  <2> SUFFICES ASSUME NEW y \in B PROVE \E x \in A : f[x] = y
    OBVIOUS
  <2>1. PICK n \in new : \E m \in DOMAIN n.text : y = <<n, m>> /\ NormalizedPiece(n.text[m]) = p
    BY PlaceAt
  <2>2. PICK m \in DOMAIN n.text : y = <<n, m>> /\ NormalizedPiece(n.text[m]) = p
    BY <2>1
  <2>3. PICK o \in old : Meaning(o) = Meaning(n) /\ twin(o) = n
    BY <1>2
  <2>4. m \in DOMAIN o.text /\ NormalizedPiece(o.text[m]) = p
    BY <2>2, <2>3, MeaningPieces DEF IsSchema
  <2>5. <<o, m>> \in A
    BY <2>4, PlaceAt
  <2>6. f[<<o, m>>] = y
    BY <2>2, <2>3, <2>5
  <2> QED BY <2>5, <2>6
<1> HIDE DEF A, B, f
<1>7. f \in Bijection(A, B)
  BY <1>4, <1>5, <1>6, Fun_IsBij
<1>8. IsFiniteSet(A)
  BY PlacesFinite DEF A
<1>9. Cardinality(B) = Cardinality(A)
  BY <1>7, <1>8, FS_Bijection DEF ExistsBijection
<1> QED BY <1>9 DEF A, B

\* Schemas that say the same have one hash.
LEMMA SameHash ==
  ASSUME NEW old, NEW new, IsSchema(old), IsSchema(new), MeaningOf(old) = MeaningOf(new)
  PROVE  NormalizeSchema(old) = NormalizeSchema(new)
<1> DEFINE texts(s) == {NormalizedPiece(q) : q \in Pieces(s)}
<1>1. ASSUME NEW a, NEW b, IsSchema(a), IsSchema(b), MeaningOf(a) = MeaningOf(b), NEW t \in texts(a)
      PROVE  t \in texts(b)
  <2>1. PICK o \in a : \E n \in DOMAIN o.text : t = NormalizedPiece(o.text[n])
    BY PieceAt
  <2>2. PICK n \in DOMAIN o.text : t = NormalizedPiece(o.text[n])
    BY <2>1
  <2>3. PICK c \in b : Meaning(c) = Meaning(o)
    <3>1. Meaning(o) \in MeaningOf(b)
      BY <1>1 DEF MeaningOf
    <3> QED BY <3>1 DEF MeaningOf
  <2>4. n \in DOMAIN c.text /\ NormalizedPiece(c.text[n]) = t
    BY <1>1, <2>2, <2>3, MeaningPieces DEF IsSchema
  <2>5. c.text[n] \in Pieces(b)
    BY <2>4, PieceAt
  <2> QED BY <2>4, <2>5
<1>2. texts(old) = texts(new)
  <2>1. texts(old) \subseteq texts(new)
    BY <1>1
  <2>2. texts(new) \subseteq texts(old)
    BY <1>1
  <2> HIDE DEF texts
  <2> QED BY <2>1, <2>2
<1>3. \A t : Cardinality(Places(t, old)) = Cardinality(Places(t, new))
  BY SamePlaces
<1> HIDE DEF texts
<1>4. [t \in texts(old) |-> Cardinality(Places(t, old))] = [t \in texts(new) |-> Cardinality(Places(t, new))]
  BY <1>2, <1>3
<1> QED BY <1>4 DEF NormalizeSchema, texts

\* Every object of plain schemas is told by its first piece.
LEMMA PlainPieces ==
  ASSUME NEW schema, IsSchema(schema), \A o \in schema : Plain(o), NEW p \in Pieces(schema)
  PROVE  p = End \/ \E o \in schema : p = o.text[1]
<1>1. PICK o \in schema : \E n \in DOMAIN o.text : p = o.text[n]
  BY PieceAt
<1>2. PICK n \in DOMAIN o.text : p = o.text[n]
  BY <1>1
<1>3. /\ IsObject(o) /\ DOMAIN o.text = 1 .. Len(o.text)
      /\ (o.kind = "trigger" => o.text[Len(o.text)] = End)
  BY ObjectFields DEF IsSchema
<1>4. Len(o.text) = IF o.kind = "trigger" THEN 2 ELSE 1
  BY DEF Plain
<1>5. n = 1 \/ (n = 2 /\ o.text[2] = End)
  BY <1>3, <1>4
<1> QED BY <1>2, <1>5

LEMMA FirstPieceAt ==
  ASSUME NEW schema, IsSchema(schema), NEW o \in schema
  PROVE  /\ o.text[1] \in Pieces(schema) /\ IsPiece(o.text[1])
         /\ NormalizeForCompare(o.text[1]) # End
<1>1. 1 \in DOMAIN o.text /\ IsPiece(o.text[1]) /\ IsObject(o)
  BY ObjectFields DEF IsSchema
<1>2. \A q : IsPiece(q) => NormalizeForCompare(q).verb = q.verb /\ NormalizeForCompare(q).name = q.name
  BY DEF NormalizeForCompare, IsPiece
<1>3. o.text[1].verb # End.verb \/ o.text[1].name # End.name
  BY <1>1 DEF IsObject, End
<1> QED BY <1>1, <1>2, <1>3, PieceAt

LEMMA EndPiece == IsPiece(End) /\ KeepsWords(End) /\ NormalizeForCompare(End) = End /\ NormalizedPiece(End) = End
<1>1. End.def = <<>> /\ End = [verb |-> "other", name |-> "END", glued |-> FALSE, def |-> <<>>]
  BY DEF End
<1>2. IsPiece(End) /\ KeepsWords(End)
  BY <1>1 DEF IsPiece, KeepsWords, Range
<1>3. [n \in DOMAIN End.def |-> End.def[n].word] = <<>>
  BY <1>1
<1>4. NormalizeForCompare(End) = End
  BY <1>1, <1>3 DEF NormalizeForCompare
<1> QED BY <1>2, <1>4, PlainNormalized

\* Plain schemas that have one hash say the same.
PlainChange(old, new) ==
  /\ IsSchema(old) /\ IsSchema(new)
  /\ \A a, b \in old \cup new : SameNames(a, b)
  /\ \A o \in old \cup new : Plain(o)

LEMMA MeaningFound ==
  ASSUME NEW old, NEW new, PlainChange(old, new), NEW o \in old, NEW q \in Pieces(new),
         NormalizeForCompare(q) = NormalizeForCompare(o.text[1])
  PROVE  \E n \in new : q = n.text[1] /\ Meaning(n) = Meaning(o)
<1>1. q # End
  BY FirstPieceAt, EndPiece DEF PlainChange
<1>2. PICK n \in new : q = n.text[1]
  BY <1>1, PlainPieces DEF PlainChange
<1>3. IsObject(o) /\ IsObject(n) /\ Plain(o) /\ Plain(n) /\ SameNames(n, o)
  BY DEF PlainChange, IsSchema
<1> QED BY <1>2, <1>3, PlainMeaning

LEMMA HashTells ==
  ASSUME NEW old, NEW new, PlainChange(old, new), NormalizeSchema(old) = NormalizeSchema(new)
  PROVE  MeaningOf(old) = MeaningOf(new)
<1> DEFINE texts(s) == {NormalizedPiece(q) : q \in Pieces(s)}
<1>1. texts(old) = texts(new)
  <2>1. DOMAIN NormalizeSchema(old) = texts(old) /\ DOMAIN NormalizeSchema(new) = texts(new)
    BY DEF NormalizeSchema
  <2> HIDE DEF texts
  <2> QED BY <2>1
<1>2. ASSUME NEW a, NEW b, PlainChange(a, b), texts(a) \subseteq texts(b), NEW o \in a
      PROVE  Meaning(o) \in MeaningOf(b)
  <2>1. IsSchema(a) /\ IsSchema(b) /\ Plain(o) /\ (\A n \in b : Plain(n)) /\ IsObject(o)
    BY <1>2 DEF PlainChange, IsSchema
  <2>2. o.text[1] \in Pieces(a) /\ IsPiece(o.text[1]) /\ KeepsWords(o.text[1])
    BY <2>1, FirstPieceAt, ObjectFields
  <2>3. NormalizedPiece(o.text[1]) \in texts(a)
    BY <2>2
  <2>4. PICK q \in Pieces(b) : NormalizedPiece(q) = NormalizedPiece(o.text[1])
    BY <1>2, <2>3
  <2>5. IsPiece(q) /\ KeepsWords(q)
    <3>1. CASE q = End
      BY <3>1, EndPiece
    <3>2. CASE q # End
      <4>1. PICK n \in b : q = n.text[1]
        BY <2>1, <3>2, PlainPieces
      <4>2. IsObject(n) /\ Plain(n) /\ IsPiece(n.text[1])
        BY <2>1, FirstPieceAt DEF IsSchema
      <4> QED BY <4>1, <4>2, ObjectFields
    <3> QED BY <3>1, <3>2
  <2>6. NormalizeForCompare(q) = NormalizeForCompare(o.text[1])
    BY <2>2, <2>4, <2>5, PlainNormalized
  <2>7. \E n \in b : Meaning(n) = Meaning(o)
    BY <1>2, <2>6, MeaningFound
  <2> QED BY <2>7 DEF MeaningOf
<1> HIDE DEF texts
<1>3. PlainChange(new, old)
  BY DEF PlainChange
<1>4. \A o \in old : Meaning(o) \in MeaningOf(new)
  BY <1>1, <1>2
<1>5. \A o \in new : Meaning(o) \in MeaningOf(old)
  BY <1>1, <1>2, <1>3
<1> QED BY <1>4, <1>5 DEF MeaningOf

\* A baseline adds its schema to the versions unless it is the last one.
LEMMA NextVersion ==
  ASSUME NEW versions, NEW db, \A o \in db : IsObject(o)
  PROVE  RecordVersion(versions, db) =
           IF versions # <<>> /\ NormalizeSchema(versions[Len(versions)]) = NormalizeSchema(db)
           THEN versions ELSE Append(versions, db)
<1>1. ExtractSchema(db) = db
  BY DEF ExtractSchema, IsObject
<1> QED
  BY <1>1 DEF RecordVersion, HashSchema, Last

\* Three baselines record the versions that the schema went through.
LEMMA VersionsHold ==
  ASSUME NEW i, IsChange(i)
  PROVE  LET first == RecordVersion(<<>>, i.old)
             next  == RecordVersion(first, i.new)
             again == RecordVersion(next, i.old)
         IN  /\ MeaningOf(i.old) = MeaningOf(i.new) => again = <<i.old>>
             /\ /\ MeaningOf(i.old) # MeaningOf(i.new)
                /\ \A o \in i.old \cup i.new : Plain(o)
                => again = <<i.old, i.new, i.old>>
<1> DEFINE old == i.old
           new == i.new
           Same(a, b) == NormalizeSchema(a) = NormalizeSchema(b)
<1>0. IsSchema(old) /\ IsSchema(new) /\ (\A o \in old : IsObject(o)) /\ (\A o \in new : IsObject(o))
  BY DEF IsChange, IsSchema
<1>1. RecordVersion(<<>>, old) = <<old>>
  <2>1. RecordVersion(<<>>, old) = Append(<<>>, old)
    BY <1>0, NextVersion
  <2> QED
    BY <2>1
<1>2. RecordVersion(<<old>>, new) = IF Same(old, new) THEN <<old>> ELSE <<old, new>>
  BY <1>0, NextVersion
<1>3. RecordVersion(<<old>>, old) = <<old>>
  BY <1>0, NextVersion
<1>4. RecordVersion(<<old, new>>, old) = IF Same(new, old) THEN <<old, new>> ELSE <<old, new, old>>
  BY <1>0, SMTT(30), NextVersion
<1>5. MeaningOf(old) = MeaningOf(new) => Same(old, new)
  BY <1>0, SameHash
<1>6. MeaningOf(old) # MeaningOf(new) /\ (\A o \in old \cup new : Plain(o)) => ~Same(old, new)
  <2>1. (\A o \in old \cup new : Plain(o)) => PlainChange(old, new)
    BY DEF IsChange, PlainChange, SameNames
  <2> QED BY <2>1, HashTells
<1>7. CASE MeaningOf(old) = MeaningOf(new)
  <2>1. RecordVersion(<<old>>, new) = <<old>>
    BY <1>2, <1>5, <1>7
  <2> QED BY <1>1, <1>3, <1>7, <2>1
<1>8. CASE MeaningOf(old) # MeaningOf(new)
  <2> SUFFICES ASSUME \A o \in old \cup new : Plain(o)
               PROVE  RecordVersion(RecordVersion(RecordVersion(<<>>, old), new), old) = <<old, new, old>>
    BY <1>8
  <2>1. ~Same(old, new) /\ ~Same(new, old)
    BY <1>6, <1>8
  <2>2. RecordVersion(<<old>>, new) = <<old, new>>
    BY <1>2, <2>1
  <2> HIDE DEF Same
  <2> QED BY <1>1, <1>4, <2>1, <2>2
<1> QED BY <1>7, <1>8

\* An object of a text is told by its piece, and has its name from it.
LEMMA Objects ==
  ASSUME NEW schema
  PROVE  LET objs == ParseSchemaObjects(schema)
         IN  /\ \A p \in Pieces(schema) : \E o \in objs : o.sql = p
             /\ \A o \in objs : o.sql \in Pieces(schema) /\ o.name = ExtractName(o.sql)
<1>1. \A p : ObjectOf(p).sql = p /\ ObjectOf(p).name = ExtractName(p)
  BY DEF ObjectOf
<1> QED
  BY <1>1 DEF ParseSchemaObjects

\* The name of what the code knows does not depend on the layout.
LEMMA NameFromWords ==
  ASSUME NEW p, NEW q, IsPiece(p), IsPiece(q), p.verb # "other",
         NormalizeForCompare(p) = NormalizeForCompare(q)
  PROVE  ExtractName(p) = ExtractName(q)
<1> DEFINE words(r) == [n \in DOMAIN r.def |-> r.def[n].word]
<1>1. \A r : IsPiece(r) => NormalizeForCompare(r) =
                [verb |-> r.verb, name |-> r.name, glued |-> r.glued, def |-> words(r)]
  <2>1. ASSUME NEW r, IsPiece(r)
        PROVE  NormalizeForCompare(r) =
                 [verb |-> r.verb, name |-> r.name, glued |-> r.glued, def |-> words(r)]
    <3>1. r = [verb |-> r.verb, name |-> r.name, glued |-> r.glued, def |-> r.def]
      BY <2>1 DEF IsPiece
    <3> QED BY <3>1 DEF NormalizeForCompare
  <2> QED BY <2>1
<1>2. p.verb = q.verb /\ p.name = q.name /\ p.glued = q.glued /\ words(p) = words(q)
  <2> HIDE DEF words
  <2> QED BY <1>1
<1>3. DOMAIN p.def = DOMAIN q.def
  BY <1>2
<1>4. CASE 1 \notin DOMAIN p.def
  BY <1>2, <1>3, <1>4 DEF ExtractName
<1>5. CASE 1 \in DOMAIN p.def
  <2>1. words(p)[1] = p.def[1].word /\ words(q)[1] = q.def[1].word
    BY <1>3, <1>5
  <2>2. ASSUME NEW r, IsPiece(r), 1 \in DOMAIN r.def
        PROVE  Bare(r.def[1]) = [word |-> r.def[1].word, gap |-> "blank"]
    <3>1. DOMAIN r.def = 1 .. Len(r.def)
      BY <2>2 DEF IsPiece
    <3>2. r.def[1] = [word |-> r.def[1].word, gap |-> r.def[1].gap]
      BY <2>2, <3>1 DEF IsPiece
    <3> QED BY <3>2 DEF Bare
  <2>3. Bare(p.def[1]) = Bare(q.def[1])
    <3> HIDE DEF words
    <3> QED BY <1>2, <1>3, <1>5, <2>1, <2>2
  <2> HIDE DEF words
  <2> QED BY <1>2, <1>3, <1>5, <2>3 DEF ExtractName
<1> QED BY <1>4, <1>5

\* Plain schemas without virtual tables.
KnownChange(old, new) ==
  /\ PlainChange(old, new) /\ OneEach(old) /\ OneEach(new)
  /\ \A o \in old \cup new : o.text[1].verb # "other"

\* One side of the difference: the objects of a text that the other has not, or has changed.
Dropped(old, new) ==
  {o \in ParseSchemaObjects(old) : Named(ParseSchemaObjects(new), o.name) = {}}

Changed(old, new) ==
  {o \in ParseSchemaObjects(old) :
     \E n \in ParseSchemaObjects(new) :
       o.name = n.name /\ NormalizeForCompare(o.sql) # NormalizeForCompare(n.sql)}

Texts(objs) == {o.sql : o \in objs}

\* The texts of the objects that another schema has not.
OnlyIn(old, new) == {o.text[1] : o \in {p \in old : Meaning(p) \notin MeaningOf(new)}}

LEMMA Reported ==
  ASSUME NEW old, NEW new, KnownChange(old, new)
  PROVE  (Texts(Dropped(old, new)) \cup Texts(Changed(old, new))) \ {End} = OnlyIn(old, new)
<1> DEFINE olds == ParseSchemaObjects(old)
           news == ParseSchemaObjects(new)
           got  == (Texts(Dropped(old, new)) \cup Texts(Changed(old, new))) \ {End}
           want == OnlyIn(old, new)
<1>1. /\ \A p \in Pieces(old) : \E o \in olds : o.sql = p
      /\ \A p \in Pieces(new) : \E n \in news : n.sql = p
      /\ \A o \in olds : o.sql \in Pieces(old) /\ o.name = ExtractName(o.sql)
      /\ \A n \in news : n.sql \in Pieces(new) /\ n.name = ExtractName(n.sql)
  BY Objects
<1>2. \A n, m \in news : n.name = m.name => n = m
  BY DEF KnownChange, OneEach
<1>3. /\ Dropped(old, new) = {o \in olds : ~\E n \in news : n.name = o.name}
      /\ Changed(old, new) = {o \in olds : \E n \in news :
                                  /\ o.name = n.name
                                  /\ NormalizeForCompare(o.sql) # NormalizeForCompare(n.sql)}
  BY DEF Named, Dropped, Changed
<1>4. IsSchema(old) /\ IsSchema(new) /\ (\A o \in old \cup new : Plain(o) /\ IsObject(o) /\ o.text[1].verb # "other")
  BY DEF KnownChange, PlainChange, IsSchema
<1> HIDE DEF olds, news
<1>5. ASSUME NEW s \in got PROVE s \in want
  <2>1. PICK o \in olds : /\ s = o.sql
                         /\ \/ ~\E n \in news : n.name = o.name
                            \/ \E n \in news : /\ o.name = n.name
                                              /\ NormalizeForCompare(o.sql) # NormalizeForCompare(n.sql)
    BY <1>3 DEF Texts
  <2>2. s \in Pieces(old) /\ s # End
    BY <1>1, <2>1
  <2>3. PICK a \in old : s = a.text[1]
    BY <1>4, <2>2, PlainPieces
  <2>4. ASSUME Meaning(a) \in MeaningOf(new) PROVE FALSE
    <3>1. PICK b \in new : Meaning(b) = Meaning(a)
      BY <2>4 DEF MeaningOf
    <3>2. 1 \in DOMAIN a.text /\ IsPiece(a.text[1]) /\ IsPiece(b.text[1]) /\ b.text[1] \in Pieces(new)
      BY <1>4, ObjectFields, FirstPieceAt
    <3>3. NormalizeForCompare(a.text[1]) = NormalizeForCompare(b.text[1])
      BY <1>4, <3>1, <3>2, MeaningPieces
    <3>4. PICK n \in news : n.sql = b.text[1]
      BY <1>1, <3>2
    <3>5. n.name = o.name
      <4>1. ExtractName(a.text[1]) = ExtractName(b.text[1])
        BY <1>4, <3>2, <3>3, NameFromWords
      <4>2. n.name = ExtractName(n.sql) /\ o.name = ExtractName(o.sql)
        BY <1>1
      <4> QED BY <2>1, <2>3, <3>4, <4>1, <4>2
    <3>6. PICK m \in news : o.name = m.name /\ NormalizeForCompare(o.sql) # NormalizeForCompare(m.sql)
      BY <2>1, <3>5
    <3>7. m = n
      BY <1>2, <3>5, <3>6
    <3> QED BY <2>1, <2>3, <3>3, <3>4, <3>6, <3>7
  <2> QED BY <2>3, <2>4 DEF OnlyIn
<1>6. ASSUME NEW s \in want PROVE s \in got
  <2>1. PICK a \in old : s = a.text[1] /\ Meaning(a) \notin MeaningOf(new)
    BY DEF OnlyIn
  <2>2. s \in Pieces(old) /\ IsPiece(s) /\ NormalizeForCompare(s) # End
    BY <1>4, <2>1, FirstPieceAt
  <2>3. PICK o \in olds : o.sql = s
    BY <1>1, <2>2
  <2>4. ASSUME NEW n \in news PROVE NormalizeForCompare(n.sql) # NormalizeForCompare(s)
    <3>1. n.sql \in Pieces(new)
      BY <1>1
    <3> QED BY <2>1, <3>1, MeaningFound DEF KnownChange, MeaningOf
  <2>5. s # End
    BY <2>2, EndPiece
  <2>6. o \in Dropped(old, new) \/ o \in Changed(old, new)
    BY <1>3, <2>3, <2>4
  <2> QED BY <2>3, <2>5, <2>6 DEF Texts
<1> QED BY <1>5, <1>6

LEMMA ChangeReported ==
  ASSUME NEW old, NEW new, KnownChange(old, new)
  PROVE  LET diff == DiffSchemas(old, new)
         IN  /\ (Texts(diff.dropped) \cup {m.old.sql : m \in diff.modified}) \ {End} = OnlyIn(old, new)
             /\ (Texts(diff.added) \cup {m.new.sql : m \in diff.modified}) \ {End} = OnlyIn(new, old)
<1> DEFINE diff == DiffSchemas(old, new)
<1>1. diff.added = Dropped(new, old) /\ diff.dropped = Dropped(old, new)
  BY DEF DiffSchemas, Dropped
<1>2. diff.modified = {m \in [old: ParseSchemaObjects(old), new: ParseSchemaObjects(new)] :
                         /\ m.old.name = m.new.name
                         /\ NormalizeForCompare(m.old.sql) # NormalizeForCompare(m.new.sql)}
  BY DEF DiffSchemas, Modified
<1> HIDE DEF diff
<1>3. {m.old.sql : m \in diff.modified} = Texts(Changed(old, new))
  <2>1. ASSUME NEW m \in diff.modified PROVE m.old \in Changed(old, new)
    BY <1>2 DEF Changed
  <2>2. ASSUME NEW o \in Changed(old, new) PROVE \E m \in diff.modified : m.old = o
    <3>1. PICK n \in ParseSchemaObjects(new) :
                 o.name = n.name /\ NormalizeForCompare(o.sql) # NormalizeForCompare(n.sql)
      BY DEF Changed
    <3>2. [old |-> o, new |-> n] \in diff.modified
      BY <1>2, <3>1 DEF Changed
    <3> QED BY <3>2
  <2> QED BY <2>1, <2>2 DEF Texts
<1>4. {m.new.sql : m \in diff.modified} = Texts(Changed(new, old))
  <2>1. ASSUME NEW m \in diff.modified PROVE m.new \in Changed(new, old)
    BY <1>2 DEF Changed
  <2>2. ASSUME NEW n \in Changed(new, old) PROVE \E m \in diff.modified : m.new = n
    <3>1. PICK o \in ParseSchemaObjects(old) :
                 o.name = n.name /\ NormalizeForCompare(o.sql) # NormalizeForCompare(n.sql)
      BY DEF Changed
    <3>2. [old |-> o, new |-> n] \in diff.modified
      BY <1>2, <3>1 DEF Changed
    <3> QED BY <3>2
  <2> QED BY <2>1, <2>2 DEF Texts
<1>5. KnownChange(new, old)
  BY DEF KnownChange, PlainChange
<1>6. /\ (Texts(diff.dropped) \cup {m.old.sql : m \in diff.modified}) \ {End} = OnlyIn(old, new)
      /\ (Texts(diff.added) \cup {m.new.sql : m \in diff.modified}) \ {End} = OnlyIn(new, old)
  BY <1>1, <1>3, <1>4, <1>5, Reported
<1> QED BY <1>6 DEF diff

LEMMA DiffExplains ==
  ASSUME NEW i, i.rule = "schema" => IsChange(i), i = input
  PROVE  DiffExplainsTheChange
<1> SUFFICES ASSUME i.rule = "schema", OneEach(i.old), OneEach(i.new),
                    \A o \in i.old \cup i.new : Plain(o) /\ o.text[1].verb # "other"
             PROVE  DiffExplainsTheChange
  BY DEF DiffExplainsTheChange
<1>1. KnownChange(i.old, i.new)
  BY DEF KnownChange, PlainChange, IsChange, SameNames
<1> QED BY <1>1, ChangeReported DEF DiffExplainsTheChange, Texts, OnlyIn

-----------------------------------------------------------------------------
(* Scans.                                                                  *)

\* What texts are made of; that a literal is a string is not among the provers' facts.
Letter == STRING \cup {Separator}

\* The recursion behind Spelled has a solution.
Spelling(loc, k, text) ==
  /\ text \in [0 .. k -> Seq(Letter)]
  /\ text[0] = <<>>
  /\ \A n \in 1 .. k : text[n] = Join(text[n - 1], loc[n])

\* The names of a location are words that are not empty.
LEMMA LocationParts ==
  ASSUME NEW loc \in Location
  PROVE  /\ Len(loc) \in Nat
         /\ \A n \in 1 .. Len(loc) :
              /\ loc[n] \in Seq(Letter) /\ Len(loc[n]) \in Nat \ {0}
              /\ \A j \in 1 .. Len(loc[n]) : loc[n][j] \in Letter /\ loc[n][j] # Separator
<1>1. Len(loc) \in Nat /\ loc \in [1 .. Len(loc) -> Entry]
  BY LenProperties DEF Location
<1>2. ASSUME NEW name \in Entry
      PROVE  /\ name \in Seq(Letter) /\ Len(name) \in Nat \ {0}
             /\ \A j \in 1 .. Len(name) : name[j] \in Letter /\ name[j] # Separator
  <2>1. name \in Seq(STRING \ {Separator}) /\ name # <<>>
    BY DEF Entry
  <2>2. Len(name) \in Nat /\ name \in [1 .. Len(name) -> STRING \ {Separator}]
    BY <2>1, LenProperties
  <2>3. name \in Seq(Letter)
    <3>1. STRING \ {Separator} \subseteq Letter
      BY DEF Letter
    <3> QED BY <2>1, <3>1, SeqMonotonic
  <2>4. Len(name) # 0
    BY <2>1, EmptySeq
  <2> QED BY <2>2, <2>3, <2>4 DEF Letter
<1> QED BY <1>1, <1>2

\* What a name adds to a text.
LEMMA JoinParts ==
  ASSUME NEW text \in Seq(Letter), NEW name \in Seq(Letter)
  PROVE  /\ Join(text, name) \in Seq(Letter)
         /\ Len(text) \in Nat /\ Len(name) \in Nat /\ Len(Join(text, name)) = Len(text) + 1 + Len(name)
         /\ \A j \in 1 .. Len(text) : Join(text, name)[j] = text[j]
         /\ Join(text, name)[Len(text) + 1] = Separator
         /\ \A j \in 1 .. Len(name) : Join(text, name)[Len(text) + 1 + j] = name[j]
<1> DEFINE c    == Separator
           sep  == <<c>>
           left == text \o sep
<1>1. c \in Letter
  BY DEF Letter
<1> HIDE DEF c
<1>2. sep \in Seq(Letter) /\ Len(sep) = 1 /\ sep[1] = c
  BY <1>1
<1>3. Len(text) \in Nat /\ Len(name) \in Nat
  BY LenProperties
<1> HIDE DEF sep
<1>4. left \in Seq(Letter) /\ Len(left) = Len(text) + Len(sep)
  BY <1>2, ConcatProperties
<1>5. Len(left) = Len(text) + 1
  BY <1>2, <1>4
<1>6. \A j \in 1 .. Len(left) : left[j] = IF j <= Len(text) THEN text[j] ELSE sep[j - Len(text)]
  BY <1>2, <1>4, ConcatProperties
<1> HIDE DEF left
<1> DEFINE whole == left \o name
<1>7. Join(text, name) = whole
  BY DEF Join, left, sep, c
<1>8. whole \in Seq(Letter) /\ Len(whole) = Len(left) + Len(name)
  BY <1>4, ConcatProperties
<1>9. \A j \in 1 .. Len(left) + Len(name) :
        whole[j] = IF j <= Len(left) THEN left[j] ELSE name[j - Len(left)]
  BY <1>4, ConcatProperties
<1> HIDE DEF whole
<1> DEFINE a == Len(text)
           b == Len(name)
<1>10. /\ a \in Nat /\ b \in Nat /\ Len(left) = a + 1
       /\ \A j \in 1 .. a + 1 : left[j] = IF j <= a THEN text[j] ELSE sep[j - a]
       /\ \A j \in 1 .. a + 1 + b : whole[j] = IF j <= a + 1 THEN left[j] ELSE name[j - (a + 1)]
  BY <1>3, <1>5, <1>6, <1>9
<1> HIDE DEF a, b
<1>11. \A j \in 1 .. a : whole[j] = text[j]
  BY <1>10
<1>12. whole[a + 1] = c
  BY <1>2, <1>10
<1>13. \A j \in 1 .. b : whole[a + 1 + j] = name[j]
  BY <1>10
<1> QED BY <1>3, <1>5, <1>7, <1>8, <1>11, <1>12, <1>13 DEF a, b, c

\* The recursion of Spelled has a solution up to each name.
LEMMA SpellingExists ==
  ASSUME NEW loc \in Location
  PROVE  \A k \in 0 .. Len(loc) : \E text : Spelling(loc, k, text)
<1> DEFINE Bad == {k \in 0 .. Len(loc) : ~\E text : Spelling(loc, k, text)}
<1>1. Len(loc) \in Nat
  BY LocationParts
<1>2. SUFFICES ASSUME Bad # {} PROVE FALSE
  OBVIOUS
<1>3. Bad \in SUBSET Nat
  BY <1>1
<1>4. PICK k \in Bad : \A m \in Bad : k <= m
  BY <1>2, <1>3, LeastNumber
<1>5. CASE k = 0
  <2>1. Spelling(loc, 0, [n \in 0 .. 0 |-> <<>>])
    BY EmptySeq DEF Spelling
  <2> QED BY <1>4, <1>5, <2>1
<1>6. CASE k # 0
  <2>1. k \in 0 .. Len(loc) /\ k - 1 \in 0 .. Len(loc) /\ k - 1 \notin Bad /\ k \in Nat \ {0}
    BY <1>1, <1>4, <1>6
  <2>2. PICK text : Spelling(loc, k - 1, text)
    BY <2>1
  <2> DEFINE more == [n \in 0 .. k |-> IF n = k THEN Join(text[k - 1], loc[k]) ELSE text[n]]
  <2>3. Join(text[k - 1], loc[k]) \in Seq(Letter)
    <3>1. text[k - 1] \in Seq(Letter)
      BY <2>1, <2>2 DEF Spelling
    <3>2. loc[k] \in Seq(Letter)
      BY <2>1, LocationParts
    <3> QED BY <3>1, <3>2, JoinParts
  <2>4. Spelling(loc, k, more)
    <3>1. more \in [0 .. k -> Seq(Letter)]
      <4>1. ASSUME NEW n \in 0 .. k, n # k PROVE text[n] \in Seq(Letter)
        BY <2>1, <2>2, <4>1 DEF Spelling
      <4> QED BY <2>3, <4>1
    <3>2. more[0] = <<>>
      BY <2>1, <2>2 DEF Spelling
    <3>3. ASSUME NEW n \in 1 .. k PROVE more[n] = Join(more[n - 1], loc[n])
      <4>1. more[n - 1] = text[n - 1]
        BY <2>1
      <4>2. CASE n = k
        BY <4>1, <4>2, <2>1
      <4>3. CASE n # k
        BY <4>1, <4>3, <2>1, <2>2 DEF Spelling
      <4> QED BY <4>2, <4>3
    <3> QED BY <3>1, <3>2, <3>3 DEF Spelling
  <2> QED BY <1>4, <2>4
<1> QED BY <1>5, <1>6

\* Spelled is the last text of such a solution.
LEMMA SpelledSteps ==
  ASSUME NEW loc \in Location
  PROVE  \E text : Spelling(loc, Len(loc), text) /\ Spelled(loc) = text[Len(loc)]
<1> DEFINE k == Len(loc)
           G  == CHOOSE g : g = [n \in 0 .. Len(loc) |->
                                   IF n = 0 THEN <<>> ELSE Join(g[n - 1], loc[n])]
<1>1. k \in Nat
  BY LocationParts
<1>2. PICK text : Spelling(loc, k, text)
  BY <1>1, SpellingExists
<1>3. text = [n \in 0 .. k |-> IF n = 0 THEN <<>> ELSE Join(text[n - 1], loc[n])]
  <2>1. text = [n \in 0 .. k |-> text[n]]
    BY <1>2 DEF Spelling
  <2>2. ASSUME NEW n \in 0 .. k PROVE text[n] = IF n = 0 THEN <<>> ELSE Join(text[n - 1], loc[n])
    BY <1>1, <1>2 DEF Spelling
  <2> QED BY <2>1, <2>2, Zenon
<1>4. G = [n \in 0 .. Len(loc) |-> IF n = 0 THEN <<>> ELSE Join(G[n - 1], loc[n])]
  BY <1>3, Zenon
<1>5. Spelled(loc) = G[Len(loc)]
  BY Zenon DEF Spelled
<1> HIDE DEF G
<1> DEFINE Odd == {n \in 0 .. k : G[n] # text[n]}
<1>6. Odd = {}
  <2>1. SUFFICES ASSUME Odd # {} PROVE FALSE
    OBVIOUS
  <2>0. Odd \in SUBSET Nat
    BY <1>1
  <2>2. PICK n \in Odd : \A m \in Odd : n <= m
    BY <1>1, <2>1, <2>0, LeastNumber
  <2>3. CASE n = 0
    BY <1>1, <1>4, <1>2, <2>2, <2>3 DEF Spelling
  <2>4. CASE n # 0
    <3>1. n \in 1 .. k /\ n - 1 \in 0 .. k /\ n - 1 \notin Odd
      BY <1>1, <2>2, <2>4
    <3>2. G[n] = Join(G[n - 1], loc[n])
      BY <1>1, <1>4, <3>1
    <3>3. text[n] = Join(text[n - 1], loc[n])
      BY <1>2, <3>1 DEF Spelling
    <3> QED BY <3>1, <3>2, <3>3, <2>2
  <2> QED BY <2>3, <2>4
<1>7. G[k] = text[k]
  BY <1>1, <1>6
<1> QED BY <1>2, <1>5, <1>7

Spells(loc, text) == Spelling(loc, Len(loc), text) /\ Spelled(loc) = text[Len(loc)]

\* after is the text before with name behind it.
Follows(before, name, after) ==
  /\ before \in Seq(Letter) /\ name \in Seq(Letter) /\ after = Join(before, name) /\ after \in Seq(Letter)
  /\ Len(before) \in Nat /\ Len(name) \in Nat /\ Len(after) \in Nat
  /\ Len(after) = Len(before) + 1 + Len(name)
  /\ \A j \in 1 .. Len(before) : after[j] = before[j]
  /\ after[Len(before) + 1] = Separator
  /\ \A j \in 1 .. Len(name) : after[Len(before) + 1 + j] = name[j]

\* Each text of the solution is the one before with a name behind it.
LEMMA TextSteps ==
  ASSUME NEW loc \in Location, NEW text, Spells(loc, text), NEW n \in 1 .. Len(loc)
  PROVE  Follows(text[n - 1], loc[n], text[n])
<1>1. Len(loc) \in Nat /\ loc[n] \in Seq(Letter) /\ Len(loc[n]) \in Nat
  BY LocationParts
<1>2. text[n] = Join(text[n - 1], loc[n]) /\ text[n - 1] \in Seq(Letter) /\ text[n] \in Seq(Letter)
  <2>1. n - 1 \in 0 .. Len(loc) /\ n \in 0 .. Len(loc)
    BY <1>1
  <2> QED BY <2>1 DEF Spells, Spelling
<1> DEFINE before == text[n - 1]
           name   == loc[n]
           joined == Join(before, name)
<1>3. before \in Seq(Letter) /\ name \in Seq(Letter) /\ text[n] = joined
  BY <1>1, <1>2
<1> HIDE DEF before, name
<1>4. /\ Len(before) \in Nat /\ Len(joined) = Len(before) + 1 + Len(name)
      /\ \A j \in 1 .. Len(before) : joined[j] = before[j]
      /\ joined[Len(before) + 1] = Separator
      /\ \A j \in 1 .. Len(name) : joined[Len(before) + 1 + j] = name[j]
  BY <1>3, JoinParts
<1>5. Len(name) \in Nat
  BY <1>1 DEF name
<1> HIDE DEF joined
<1>6. Len(joined) \in Nat
  BY <1>4, <1>5
<1>7. Len(name) \in Nat
  BY <1>1 DEF name
<1>8. joined = Join(before, name) /\ joined \in Seq(Letter)
  BY <1>2, <1>3 DEF joined
<1>9. Follows(before, name, joined)
  BY <1>3, <1>4, <1>6, <1>7, <1>8 DEF Follows
<1> QED BY <1>3, <1>9 DEF before, name

\* The texts of the solution, the first of which is empty.
LEMMA TextStart ==
  ASSUME NEW loc \in Location, NEW text, Spells(loc, text)
  PROVE  text[0] = <<>> /\ Len(text[0]) = 0 /\ \A n \in 0 .. Len(loc) : text[n] \in Seq(Letter) /\ Len(text[n]) \in Nat
<1>1. text[0] = <<>> /\ \A n \in 0 .. Len(loc) : text[n] \in Seq(Letter)
  BY LocationParts DEF Spells, Spelling
<1>2. \A n \in 0 .. Len(loc) : Len(text[n]) \in Nat
  BY <1>1, LenProperties
<1>3. Len(<<>>) = 0
  BY EmptySeq
<1> QED BY <1>1, <1>2, <1>3

\* A text goes on from the texts of the directories above.
LEMMA TextGrows ==
  ASSUME NEW loc \in Location, NEW text, Spells(loc, text), NEW n \in 0 .. Len(loc)
  PROVE  \A m \in n .. Len(loc) : /\ Len(text[n]) <= Len(text[m])
                                  /\ \A j \in 1 .. Len(text[n]) : text[m][j] = text[n][j]
<1> DEFINE Good(m) == Len(text[n]) <= Len(text[m]) /\ \A j \in 1 .. Len(text[n]) : text[m][j] = text[n][j]
           Bad     == {m \in n .. Len(loc) : ~Good(m)}
<1>1. Len(loc) \in Nat /\ n \in Nat /\ Len(text[n]) \in Nat
  BY LocationParts, TextStart
<1>2. SUFFICES ASSUME Bad # {} PROVE FALSE
  OBVIOUS
<1>3. Bad \in SUBSET Nat
  BY <1>1
<1>4. PICK m \in Bad : \A l \in Bad : m <= l
  BY <1>2, <1>3, LeastNumber
<1>5. m # n
  BY <1>1, <1>4
<1>6. m \in 1 .. Len(loc) /\ m - 1 \in n .. Len(loc) /\ m - 1 \notin Bad
  BY <1>1, <1>4, <1>5
<1>7. Good(m - 1)
  BY <1>6
<1> DEFINE old == text[m - 1]
           new == text[m]
<1>8. /\ Len(old) \in Nat /\ Len(loc[m]) \in Nat /\ Len(new) = Len(old) + 1 + Len(loc[m])
      /\ \A j \in 1 .. Len(old) : new[j] = old[j]
  <2> HIDE DEF Good, Bad
  <2>1. Follows(old, loc[m], new)
    BY <1>6, TextSteps
  <2> HIDE DEF old, new
  <2> QED BY <2>1 DEF Follows
<1>9. Len(text[n]) <= Len(old) /\ \A j \in 1 .. Len(text[n]) : old[j] = text[n][j]
  BY <1>7
<1>10. Len(text[n]) <= Len(new) /\ \A j \in 1 .. Len(text[n]) : new[j] = text[n][j]
  <2> HIDE DEF old, new
  <2> DEFINE a == Len(text[n])
             b == Len(old)
             c == Len(loc[m])
  <2>1. a \in Nat /\ b \in Nat /\ c \in Nat /\ Len(new) = b + 1 + c /\ a <= b
        /\ (\A j \in 1 .. b : new[j] = old[j]) /\ (\A j \in 1 .. a : old[j] = text[n][j])
    BY <1>1, <1>8, <1>9
  <2> HIDE DEF a, b, c
  <2>2. a <= Len(new) /\ \A j \in 1 .. a : new[j] = text[n][j]
    BY <2>1
  <2> QED BY <2>2 DEF a
<1> QED BY <1>4, <1>10

\* Where the names are in a text.
Laid(loc, t, P) ==
  /\ P \in [0 .. Len(loc) -> Nat] /\ P[0] = 0
  /\ t \in Seq(Letter) /\ Len(t) = P[Len(loc)]
  /\ \A k \in 1 .. Len(loc) :
       /\ P[k] = P[k - 1] + 1 + Len(loc[k]) /\ P[k] <= Len(t)
       /\ t[P[k - 1] + 1] = Separator
       /\ \A j \in 1 .. Len(loc[k]) : t[P[k - 1] + 1 + j] = loc[k][j]

\* Where the names are: behind the text before them and a separator.
LEMMA TextLayout ==
  ASSUME NEW loc \in Location, NEW text, Spells(loc, text)
  PROVE  Laid(loc, Spelled(loc), [k \in 0 .. Len(loc) |-> Len(text[k])])
<1> DEFINE P == [k \in 0 .. Len(loc) |-> Len(text[k])]
           t == Spelled(loc)
<1>1. Len(loc) \in Nat /\ t = text[Len(loc)] /\ t \in Seq(Letter)
  BY LocationParts, TextStart DEF Spells
<1>2. P \in [0 .. Len(loc) -> Nat] /\ P[0] = 0 /\ Len(t) = P[Len(loc)]
  BY <1>1, TextStart
<1>3. ASSUME NEW k \in 1 .. Len(loc)
      PROVE  /\ P[k] = P[k - 1] + 1 + Len(loc[k]) /\ P[k] <= Len(t)
             /\ t[P[k - 1] + 1] = Separator
             /\ \A j \in 1 .. Len(loc[k]) : t[P[k - 1] + 1 + j] = loc[k][j]
  <2>1. P[k] = Len(text[k]) /\ P[k - 1] = Len(text[k - 1]) /\ k \in 0 .. Len(loc) /\ Len(loc) \in k .. Len(loc)
    BY <1>1
  <2>2. /\ Len(text[k - 1]) \in Nat /\ Len(loc[k]) \in Nat
        /\ Len(text[k]) = Len(text[k - 1]) + 1 + Len(loc[k])
        /\ text[k][Len(text[k - 1]) + 1] = Separator
        /\ \A j \in 1 .. Len(loc[k]) : text[k][Len(text[k - 1]) + 1 + j] = loc[k][j]
    <3> DEFINE before == text[k - 1]
               after  == text[k]
               name   == loc[k]
    <3>1. Follows(before, name, after)
      BY TextSteps
    <3> HIDE DEF before, after, name
    <3>2. /\ Len(before) \in Nat /\ Len(name) \in Nat /\ Len(after) = Len(before) + 1 + Len(name)
          /\ after[Len(before) + 1] = Separator
          /\ \A j \in 1 .. Len(name) : after[Len(before) + 1 + j] = name[j]
      BY <3>1 DEF Follows
    <3> QED BY <3>2 DEF before, after, name
  <2>3. Len(text[k]) <= Len(t) /\ \A j \in 1 .. Len(text[k]) : t[j] = text[k][j]
    BY <1>1, <2>1, TextGrows
  <2> DEFINE a == Len(text[k - 1])
             b == Len(text[k])
             c == Len(loc[k])
             l == Len(t)
  <2>4. /\ a \in Nat /\ c \in Nat /\ b = a + 1 + c /\ b <= l /\ text[k][a + 1] = Separator
        /\ \A j \in 1 .. c : text[k][a + 1 + j] = loc[k][j]
        /\ \A j \in 1 .. b : t[j] = text[k][j]
    <3> HIDE DEF P, t
    <3> QED BY <2>2, <2>3
  <2> HIDE DEF a, b, c, l
  <2>5. t[a + 1] = Separator /\ \A j \in 1 .. c : t[a + 1 + j] = loc[k][j]
    BY <2>4
  <2> HIDE DEF P, t
  <2> QED BY <2>1, <2>2, <2>3, <2>5 DEF a, b, c
<1> HIDE DEF P, t
<1>4. Laid(loc, t, P)
  BY <1>1, <1>2, <1>3 DEF Laid
<1> QED BY <1>4 DEF P, t

\* The path of a location has its names, each behind a separator.
LEMMA SpelledIsLaid ==
  ASSUME NEW loc \in Location
  PROVE  \E P : Laid(loc, Spelled(loc), P)
<1>1. PICK text : Spells(loc, text)
  BY SpelledSteps DEF Spells
<1> QED BY <1>1, TextLayout

Starts(s, t) == Len(s) \in Nat /\ Len(t) \in Nat /\ Len(s) <= Len(t) /\ \A j \in 1 .. Len(s) : t[j] = s[j]

\* A text begins another when it agrees with it as far as it goes.
LEMMA PrefixPoints ==
  ASSUME NEW S, NEW s \in Seq(S), NEW t \in Seq(S)
  PROVE  IsPrefix(s, t) <=> Starts(s, t)
<1> DEFINE n == Len(s)
           m == Len(t)
<1>1. n \in Nat /\ m \in Nat /\ s \in [1 .. n -> S] /\ t \in [1 .. m -> S]
  BY LenProperties
<1> HIDE DEF n, m
<1>2. IsPrefix(s, t) <=> n <= m /\ SubSeq(s, 1, n) = SubSeq(t, 1, n)
  BY DEF IsPrefix, n, m
<1>3. SubSeq(s, 1, n) = [j \in 1 .. n |-> s[j]] /\ SubSeq(t, 1, n) = [j \in 1 .. n |-> t[j]]
  <2>1. 1 .. (1 + n) - 1 = 1 .. n
    BY <1>1
  <2> QED BY <1>1 
<1>4. [j \in 1 .. n |-> s[j]] = [j \in 1 .. n |-> t[j]] <=> \A j \in 1 .. n : t[j] = s[j]
  OBVIOUS
<1> QED BY <1>1, <1>2, <1>3, <1>4 DEF Starts, n, m

\* Two names at the same place of two texts that agree.
TwoNames(p, la, lb, lx, lu, x, u, a, b) ==
  /\ p \in Nat /\ la \in Nat /\ lb \in Nat /\ lx \in Nat /\ lu \in Nat /\ lx <= lu /\ p + 1 + la <= lx
  /\ \A j \in 1 .. lx : u[j] = x[j]
  /\ \A j \in 1 .. la : x[p + 1 + j] = a[j] /\ a[j] # Separator
  /\ \A j \in 1 .. lb : u[p + 1 + j] = b[j] /\ b[j] # Separator
  /\ p + 1 + lb < lu => u[p + 1 + lb + 1] = Separator

\* If the text that goes on from the first agrees with the other, so do the names,
\* and they are equal if a separator follows the first.
LEMMA NameBegins ==
  ASSUME NEW p, NEW la, NEW lb, NEW lx, NEW lu, NEW x, NEW u, NEW a, NEW b,
         TwoNames(p, la, lb, lx, lu, x, u, a, b)
  PROVE  /\ la <= lb /\ \A j \in 1 .. la : b[j] = a[j]
         /\ p + 1 + la < lx /\ x[p + 1 + la + 1] = Separator => la = lb
<1>0. /\ p \in Nat /\ la \in Nat /\ lb \in Nat /\ lx \in Nat /\ lu \in Nat /\ lx <= lu /\ p + 1 + la <= lx
      /\ \A j \in 1 .. lx : u[j] = x[j]
      /\ \A j \in 1 .. la : x[p + 1 + j] = a[j] /\ a[j] # Separator
      /\ \A j \in 1 .. lb : u[p + 1 + j] = b[j] /\ b[j] # Separator
      /\ p + 1 + lb < lu => u[p + 1 + lb + 1] = Separator
  BY DEF TwoNames
<1>1. la <= lb
  <2>1. SUFFICES ASSUME lb < la PROVE FALSE
    BY <1>0
  <2> DEFINE j == lb + 1
  <2>2. j \in 1 .. la /\ p + 1 + j \in 1 .. lx /\ p + 1 + lb < lu /\ p + 1 + lb + 1 = p + 1 + j
    BY <1>0, <2>1
  <2>3. u[p + 1 + j] = Separator /\ x[p + 1 + j] = a[j] /\ a[j] # Separator /\ u[p + 1 + j] = x[p + 1 + j]
    BY <1>0, <2>2
  <2> QED BY <1>0, <2>3
<1>2. ASSUME NEW j \in 1 .. la PROVE b[j] = a[j]
  <2>1. j \in 1 .. lb /\ p + 1 + j \in 1 .. lx
    BY <1>0, <1>1
  <2> QED BY <1>0, <2>1
<1>3. ASSUME p + 1 + la < lx, x[p + 1 + la + 1] = Separator PROVE la = lb
  <2>1. SUFFICES ASSUME la < lb PROVE FALSE
    BY <1>0, <1>1
  <2> DEFINE j == la + 1
  <2>2. j \in 1 .. lb /\ p + 1 + j \in 1 .. lx /\ p + 1 + la + 1 = p + 1 + j
    BY <1>0, <1>3, <2>1
  <2>3. u[p + 1 + j] = b[j] /\ b[j] # Separator /\ u[p + 1 + j] = x[p + 1 + j] /\ x[p + 1 + j] = Separator
    BY <1>0, <1>3, <2>2
  <2> QED BY <1>0, <2>3
<1> QED BY <1>1, <1>2, <1>3

Word == Seq(STRING \ {Separator})

\* A word has no separator.
LEMMA WordParts ==
  ASSUME NEW w \in Word
  PROVE  /\ w \in Seq(Letter) /\ Len(w) \in Nat
         /\ \A j \in 1 .. Len(w) : w[j] \in Letter /\ w[j] # Separator
<1>1. w \in Seq(STRING \ {Separator})
  BY DEF Word
<1>2. Len(w) \in Nat /\ w \in [1 .. Len(w) -> STRING \ {Separator}]
  BY <1>1, LenProperties
<1>3. STRING \ {Separator} \subseteq Letter
  BY DEF Letter
<1>4. w \in Seq(Letter)
  BY <1>1, <1>3, SeqMonotonic
<1> QED BY <1>2, <1>3, <1>4

\* The name of an entry is a word.
LEMMA EntryIsWord == Entry \subseteq Word
BY DEF Entry, Word

\* What Join makes.
LEMMA JoinFollows ==
  ASSUME NEW text \in Seq(Letter), NEW name \in Seq(Letter)
  PROVE  Follows(text, name, Join(text, name))
<1> DEFINE after == Join(text, name)
<1>1. /\ after \in Seq(Letter)
      /\ Len(text) \in Nat /\ Len(name) \in Nat /\ Len(after) = Len(text) + 1 + Len(name)
      /\ \A j \in 1 .. Len(text) : after[j] = text[j]
      /\ after[Len(text) + 1] = Separator
      /\ \A j \in 1 .. Len(name) : after[Len(text) + 1 + j] = name[j]
  BY JoinParts
<1>2. after = Join(text, name)
  OBVIOUS
<1> HIDE DEF after
<1>3. Len(after) \in Nat
  BY <1>1
<1>4. Follows(text, name, after)
  BY <1>1, <1>2, <1>3 DEF Follows
<1> QED BY <1>4 DEF after

\* The names of a are those of b, and w begins the next one.
Leads(a, w, b) ==
  Len(a) < Len(b) /\ (\A k \in 1 .. Len(a) : a[k] = b[k]) /\ Starts(w, b[Len(a) + 1])

\* A text that begins the text of another location has its names: by induction
\* on them, each begins where the other does and ends where a separator is.
LEMMA NamesFromText ==
  ASSUME NEW a \in Location, NEW b \in Location, NEW w \in Word,
         NEW t, NEW u, NEW P, NEW Q, Laid(a, t, P), Laid(b, u, Q),
         NEW x, Follows(t, w, x), Starts(x, u)
  PROVE  Leads(a, w, b)
<1> DEFINE A  == Len(a)
           B  == Len(b)
           lx == Len(x)
           lu == Len(u)
           lw == Len(w)
<1>1. /\ A \in Nat /\ B \in Nat
      /\ \A n \in 1 .. A : Len(a[n]) \in Nat /\ \A j \in 1 .. Len(a[n]) : a[n][j] # Separator
      /\ \A n \in 1 .. B : Len(b[n]) \in Nat /\ \A j \in 1 .. Len(b[n]) : b[n][j] # Separator
  BY LocationParts
<1>2. lw \in Nat /\ \A j \in 1 .. lw : w[j] # Separator
  BY WordParts
<1>3. lx \in Nat /\ lu \in Nat /\ lx <= lu /\ \A j \in 1 .. lx : u[j] = x[j]
  BY DEF Starts
<1>4. /\ P \in [0 .. A -> Nat] /\ P[0] = 0 /\ Len(t) = P[A]
      /\ \A k \in 1 .. A :
           /\ P[k] = P[k - 1] + 1 + Len(a[k]) /\ P[k] <= Len(t)
           /\ t[P[k - 1] + 1] = Separator
           /\ \A j \in 1 .. Len(a[k]) : t[P[k - 1] + 1 + j] = a[k][j]
  BY DEF Laid
<1>5. /\ Q \in [0 .. B -> Nat] /\ Q[0] = 0 /\ lu = Q[B]
      /\ \A k \in 1 .. B :
           /\ Q[k] = Q[k - 1] + 1 + Len(b[k]) /\ Q[k] <= lu
           /\ u[Q[k - 1] + 1] = Separator
           /\ \A j \in 1 .. Len(b[k]) : u[Q[k - 1] + 1 + j] = b[k][j]
  BY DEF Laid
<1>6. /\ lx = P[A] + 1 + lw /\ (\A j \in 1 .. P[A] : x[j] = t[j]) /\ x[P[A] + 1] = Separator
      /\ \A j \in 1 .. lw : x[P[A] + 1 + j] = w[j]
  BY <1>4 DEF Follows
<1> HIDE DEF A, B, lx, lu, lw
\* What x has of the names of a.
<1>7. ASSUME NEW k \in 1 .. A
      PROVE  /\ P[k] = P[k - 1] + 1 + Len(a[k]) /\ P[k - 1] \in Nat /\ P[k] \in Nat /\ P[k] < lx
             /\ x[P[k] + 1] = Separator
             /\ \A j \in 1 .. Len(a[k]) : x[P[k - 1] + 1 + j] = a[k][j]
  <2>1. k - 1 \in 0 .. A /\ k \in 0 .. A /\ A \in 0 .. A
    BY <1>1
  <2>2. P[k] \in Nat /\ P[k - 1] \in Nat /\ P[A] \in Nat
    BY <1>4, <2>1
  <2> DEFINE n == Len(a[k])
             p == P[k - 1]
             q == P[k]
             z == P[A]
  <2>3. /\ n \in Nat /\ q = p + 1 + n /\ q <= z
        /\ (\A j \in 1 .. n : t[p + 1 + j] = a[k][j])
    BY <1>1, <1>4
  <2>4. /\ p \in Nat /\ q \in Nat /\ z \in Nat /\ lx = z + 1 + lw
        /\ (\A j \in 1 .. z : x[j] = t[j]) /\ x[z + 1] = Separator
    BY <1>6, <2>2
  <2>5. q < z => x[q + 1] = Separator
    <3>1. SUFFICES ASSUME q < z PROVE x[q + 1] = Separator
      OBVIOUS
    <3>2. k # A
      BY <3>1, <2>4
    <3>3. k + 1 \in 1 .. A /\ (k + 1) - 1 = k
      BY <1>1, <3>2
    <3>4. t[P[k] + 1] = Separator
      BY <1>4, <3>3
    <3>5. q + 1 \in 1 .. z
      BY <3>1, <2>4
    <3> HIDE DEF z
    <3>6. x[q + 1] = t[q + 1]
      BY <2>4, <3>5
    <3> QED BY <3>4, <3>6
  <2>6. q = P[k] /\ p = P[k - 1]
    OBVIOUS
  <2> HIDE DEF n, p, q, z
  <2>7. /\ q < lx /\ x[q + 1] = Separator
        /\ \A j \in 1 .. n : x[p + 1 + j] = a[k][j]
    BY <1>2, <2>3, <2>4, <2>5
  <2> QED BY <2>3, <2>4, <2>6, <2>7 DEF n
<1> DEFINE Same(k) == k < B /\ P[k] = Q[k] /\ \A n \in 1 .. k : a[n] = b[n]
           Bad     == {k \in 0 .. A : ~Same(k)}
<1>8. Same(0)
  <2>1. P[A] \in Nat /\ A \in 0 .. A
    BY <1>1, <1>4
  <2>2. lu > 0
    BY <1>2, <1>3, <1>6, <2>1
  <2>3. B # 0
    BY <1>5, <2>2
  <2> QED BY <1>1, <1>4, <1>5, <2>3
<1>9. ASSUME NEW k \in 1 .. A, Same(k - 1) PROVE Same(k)
  <2> DEFINE p  == P[k - 1]
             n  == a[k]
             m  == b[k]
             la == Len(n)
             lb == Len(m)
  <2>1. k \in 1 .. B /\ p = Q[k - 1] /\ k \in Nat
    BY <1>1, <1>9
  <2>2. /\ P[k] = p + 1 + la /\ p \in Nat /\ P[k] \in Nat /\ P[k] < lx /\ x[P[k] + 1] = Separator
        /\ \A j \in 1 .. la : x[p + 1 + j] = n[j]
    BY <1>7
  <2>3. /\ Q[k] = p + 1 + lb /\ Q[k] <= lu /\ \A j \in 1 .. lb : u[p + 1 + j] = m[j]
    BY <1>5, <2>1
  <2>4. la \in Nat /\ lb \in Nat /\ (\A j \in 1 .. la : n[j] # Separator) /\ (\A j \in 1 .. lb : m[j] # Separator)
    BY <1>1, <2>1
  <2>5. Q[k] < lu => k < B /\ u[Q[k] + 1] = Separator
    <3>1. SUFFICES ASSUME Q[k] < lu PROVE k < B /\ u[Q[k] + 1] = Separator
      OBVIOUS
    <3>2. k # B
      <4>1. k = B => Q[k] = lu
        BY <1>5
      <4> QED BY <3>1, <4>1, <1>3, <2>3, <2>2, <2>4
    <3>3. k + 1 \in 1 .. B /\ (k + 1) - 1 = k
      BY <1>1, <2>1, <3>2
    <3>4. u[Q[k] + 1] = Separator
      BY <1>5, <3>3
    <3> QED BY <2>1, <3>2, <3>4, <1>1
  <2> HIDE DEF p, n, m, la, lb
  <2>6. p + 1 + la <= lx /\ p + 1 + la < lx /\ x[p + 1 + la + 1] = Separator
    BY <1>3, <2>2, <2>4
  <2>7. p + 1 + lb < lu => u[p + 1 + lb + 1] = Separator
    BY <2>3, <2>5
  <2>8. la = lb /\ \A j \in 1 .. la : m[j] = n[j]
    <3>1. \A j \in 1 .. la : x[p + 1 + j] = n[j] /\ n[j] # Separator
      BY <2>2, <2>4
    <3>2. \A j \in 1 .. lb : u[p + 1 + j] = m[j] /\ m[j] # Separator
      BY <2>3, <2>4
    <3>3. p \in Nat
      BY <2>2
    <3>4. TwoNames(p, la, lb, lx, lu, x, u, n, m)
      BY <1>3, <2>4, <2>6, <2>7, <3>1, <3>2, <3>3 DEF TwoNames
    <3> QED BY <2>6, <3>4, NameBegins
  <2>9. n = m
    <3>1. n \in Seq(Letter) /\ m \in Seq(Letter)
      BY <1>9, <2>1, LocationParts DEF n, m, A, B
    <3>2. n \in [1 .. la -> Letter] /\ m \in [1 .. lb -> Letter]
      BY <3>1, LenProperties DEF la, lb
    <3>3. m \in [1 .. la -> Letter]
      BY <2>8, <3>2
    <3>4. n = [j \in 1 .. la |-> n[j]] /\ m = [j \in 1 .. la |-> m[j]]
      BY <3>2, <3>3
    <3>5. \A j \in 1 .. la : m[j] = n[j]
      BY <2>8
    <3> QED BY <3>4, <3>5
  <2>10. P[k] = Q[k]
    BY <2>2, <2>3, <2>8
  <2>11. k < B
    BY <1>3, <2>2, <2>5, <2>10
  <2>12. ASSUME NEW i \in 1 .. k PROVE a[i] = b[i]
    <3>1. CASE i = k
      BY <3>1, <2>9 DEF n, m
    <3>2. CASE i # k
      <4>1. i \in 1 .. k - 1
        BY <2>1, <3>2
      <4> QED BY <1>9, <4>1
    <3> QED BY <3>1, <3>2
  <2> QED BY <2>10, <2>11, <2>12
<1>10. Bad = {}
  <2>1. SUFFICES ASSUME Bad # {} PROVE FALSE
    OBVIOUS
  <2>2. Bad \in SUBSET Nat
    BY <1>1
  <2>3. PICK k \in Bad : \A m \in Bad : k <= m
    BY <2>1, <2>2, LeastNumber
  <2> HIDE DEF Same
  <2>4. k # 0
    BY <1>8, <2>3
  <2>5. k \in 1 .. A /\ k - 1 \in 0 .. A /\ k - 1 \notin Bad
    BY <1>1, <2>3, <2>4
  <2> QED BY <1>9, <2>3, <2>5
<1>11. Same(A)
  <2> HIDE DEF Same
  <2> QED BY <1>1, <1>10
<1>12. Starts(w, b[A + 1])
  <2> DEFINE p  == P[A]
             k  == A + 1
             m  == b[k]
             lb == Len(m)
  <2>1. k \in 1 .. B /\ p = Q[k - 1] /\ k - 1 = A /\ p \in Nat
    BY <1>1, <1>4, <1>11
  <2>2. lx = p + 1 + lw /\ \A j \in 1 .. lw : x[p + 1 + j] = w[j]
    BY <1>6
  <2>3. /\ Q[k] = p + 1 + lb /\ Q[k] <= lu /\ \A j \in 1 .. lb : u[p + 1 + j] = m[j]
    BY <1>5, <2>1
  <2>4. lb \in Nat /\ (\A j \in 1 .. lb : m[j] # Separator)
    BY <1>1, <2>1
  <2>5. Q[k] < lu => u[Q[k] + 1] = Separator
    <3>1. SUFFICES ASSUME Q[k] < lu PROVE u[Q[k] + 1] = Separator
      OBVIOUS
    <3>2. k # B
      <4>1. k = B => Q[k] = lu
        BY <1>5
      <4> QED BY <3>1, <4>1, <1>3, <2>3, <2>1, <2>4
    <3>3. k + 1 \in 1 .. B /\ (k + 1) - 1 = k
      BY <1>1, <2>1, <3>2
    <3> QED BY <1>5, <3>3
  <2> HIDE DEF p, k, m, lb
  <2>6. p + 1 + lb < lu => u[p + 1 + lb + 1] = Separator
    BY <2>3, <2>5
  <2>7. lw <= lb /\ \A j \in 1 .. lw : m[j] = w[j]
    <3>1. \A j \in 1 .. lw : x[p + 1 + j] = w[j] /\ w[j] # Separator
      BY <1>2, <2>2
    <3>2. \A j \in 1 .. lb : u[p + 1 + j] = m[j] /\ m[j] # Separator
      BY <2>3, <2>4
    <3>3. p \in Nat /\ p + 1 + lw <= lx
      BY <1>2, <1>3, <2>1, <2>2
    <3>4. TwoNames(p, lw, lb, lx, lu, x, u, w, m)
      BY <1>2, <1>3, <2>4, <2>6, <3>1, <3>2, <3>3 DEF TwoNames
    <3> QED BY <3>4, NameBegins
  <2> QED BY <1>2, <2>4, <2>7 DEF Starts, lw, lb, m, k
<1> QED BY <1>11, <1>12 DEF Leads, A, B

\* a is b or a directory above it.
Heads(a, b) == Len(a) <= Len(b) /\ \A k \in 1 .. Len(a) : a[k] = b[k]

\* Locations with the same first names have the same first texts.
LEMMA TextsAgree ==
  ASSUME NEW a \in Location, NEW b \in Location, Heads(a, b),
         NEW s, Spells(a, s), NEW t, Spells(b, t)
  PROVE  \A k \in 0 .. Len(a) : s[k] = t[k]
<1> DEFINE A   == Len(a)
           B   == Len(b)
           Bad == {k \in 0 .. A : s[k] # t[k]}
<1>1. A \in Nat /\ B \in Nat /\ A <= B /\ \A k \in 1 .. A : a[k] = b[k]
  BY LocationParts DEF Heads
<1>2. s[0] = <<>> /\ \A n \in 1 .. A : s[n] = Join(s[n - 1], a[n])
  BY DEF Spells, Spelling
<1>3. t[0] = <<>> /\ \A n \in 1 .. B : t[n] = Join(t[n - 1], b[n])
  BY DEF Spells, Spelling
<1> HIDE DEF A, B
<1>4. SUFFICES ASSUME Bad # {} PROVE FALSE
  BY DEF A
<1>5. Bad \in SUBSET Nat
  BY <1>1
<1>6. PICK k \in Bad : \A m \in Bad : k <= m
  BY <1>4, <1>5, LeastNumber
<1>7. k # 0
  BY <1>2, <1>3, <1>6
<1>8. k \in 1 .. A /\ k \in 1 .. B /\ k - 1 \in 0 .. A /\ k - 1 \notin Bad
  BY <1>1, <1>6, <1>7
<1>9. s[k - 1] = t[k - 1] /\ a[k] = b[k]
  BY <1>1, <1>8
<1>10. s[k] = Join(s[k - 1], a[k]) /\ t[k] = Join(t[k - 1], b[k])
  BY <1>2, <1>3, <1>8
<1> QED BY <1>6, <1>9, <1>10

\* A path goes on from a directory with the beginning of a name exactly when the
\* location does: comparing text compares names.
LEMMA TextBegins ==
  ASSUME NEW a \in Location, NEW b \in Location, NEW w \in Word
  PROVE  IsPrefix(Join(Spelled(a), w), Spelled(b)) <=> Leads(a, w, b)
<1> DEFINE t == Spelled(a)
           u == Spelled(b)
           x == Join(t, w)
<1>1. PICK P : Laid(a, t, P)
  BY SpelledIsLaid
<1>2. PICK Q : Laid(b, u, Q)
  BY SpelledIsLaid
<1>3. PICK s : Spells(a, s)
  BY SpelledSteps DEF Spells
<1>4. PICK r : Spells(b, r)
  BY SpelledSteps DEF Spells
<1>5. t = s[Len(a)] /\ u = r[Len(b)]
  BY <1>3, <1>4 DEF Spells
<1>6. t \in Seq(Letter) /\ u \in Seq(Letter)
  BY <1>1, <1>2 DEF Laid
<1> HIDE DEF t, u
<1>7. w \in Seq(Letter) /\ Len(w) \in Nat
  BY WordParts
<1>8. Follows(t, w, x)
  BY <1>6, <1>7, JoinFollows
<1>9. IsPrefix(x, u) <=> Starts(x, u)
  <2>1. x \in Seq(Letter)
    BY <1>8 DEF Follows
  <2> HIDE DEF x
  <2> QED BY <1>6, <2>1, PrefixPoints
<1>10. ASSUME Starts(x, u) PROVE Leads(a, w, b)
  <2> HIDE DEF x
  <2> QED BY <1>1, <1>2, <1>8, <1>10, NamesFromText
<1>11. ASSUME Leads(a, w, b) PROVE Starts(x, u)
  <2> DEFINE n == Len(a) + 1
             m == b[n]
             v == r[n]
  <2>1. Len(a) \in Nat /\ Len(b) \in Nat /\ n \in 1 .. Len(b) /\ n - 1 = Len(a) /\ Len(a) \in 0 .. Len(a)
    BY <1>11, LocationParts DEF Leads
  <2>2. Heads(a, b)
    BY <1>11, <2>1 DEF Leads, Heads
  <2>3. r[n - 1] = t
    <3>1. s[Len(a)] = r[Len(a)]
      BY <1>3, <1>4, <2>1, <2>2, TextsAgree
    <3> QED BY <1>5, <2>1, <3>1
  <2>4. Follows(t, m, v)
    <3>1. Follows(r[n - 1], b[n], r[n])
      BY <1>4, <2>1, TextSteps
    <3> QED BY <2>3, <3>1
  <2>5. Starts(v, u)
    <3>1. n \in 0 .. Len(b) /\ Len(b) \in n .. Len(b)
      BY <2>1
    <3>2. Len(r[n]) <= Len(r[Len(b)]) /\ \A j \in 1 .. Len(r[n]) : r[Len(b)][j] = r[n][j]
      BY <1>4, <3>1, TextGrows
    <3>3. Len(u) \in Nat
      BY <1>6, LenProperties
    <3> HIDE DEF n
    <3> QED BY <1>5, <2>4, <3>2, <3>3 DEF Starts, Follows
  <2>6. Starts(w, m)
    BY <1>11 DEF Leads
  <2> HIDE DEF n, m, v, x
  <2> DEFINE p  == Len(t)
             lw == Len(w)
             lm == Len(m)
             lv == Len(v)
             lu == Len(u)
             lx == Len(x)
  <2>7. /\ p \in Nat /\ lm \in Nat /\ lv \in Nat /\ lv = p + 1 + lm
        /\ (\A j \in 1 .. p : v[j] = t[j]) /\ v[p + 1] = Separator
        /\ \A j \in 1 .. lm : v[p + 1 + j] = m[j]
    BY <2>4 DEF Follows
  <2>8. /\ lx \in Nat /\ lx = p + 1 + lw
        /\ (\A j \in 1 .. p : x[j] = t[j]) /\ x[p + 1] = Separator
        /\ \A j \in 1 .. lw : x[p + 1 + j] = w[j]
    BY <1>8 DEF Follows
  <2>9. lu \in Nat /\ lv <= lu /\ \A j \in 1 .. lv : u[j] = v[j]
    BY <2>5 DEF Starts
  <2>10. lw \in Nat /\ lw <= lm /\ \A j \in 1 .. lw : m[j] = w[j]
    BY <2>6 DEF Starts
  <2> HIDE DEF p, lw, lm, lv, lu, lx
  <2>11. ASSUME NEW j \in 1 .. lx PROVE u[j] = x[j]
    <3>1. u[j] = v[j] /\ j \in Nat
      BY <2>7, <2>8, <2>9, <2>10
    <3>2. CASE j <= p
      BY <3>1, <3>2, <2>7, <2>8
    <3>3. CASE j = p + 1
      BY <3>1, <3>3, <2>7, <2>8
    <3>4. CASE j > p + 1
      <4> DEFINE i == j - (p + 1)
      <4>1. i \in 1 .. lw /\ i \in 1 .. lm /\ j = p + 1 + i
        BY <3>1, <3>4, <2>7, <2>8, <2>10
      <4> HIDE DEF i
      <4> QED BY <3>1, <4>1, <2>7, <2>8, <2>10
    <3> QED BY <3>1, <3>2, <3>3, <3>4, <2>7
  <2>12. lx <= lu
    BY <2>7, <2>8, <2>9, <2>10
  <2> QED BY <2>8, <2>9, <2>11, <2>12 DEF Starts, lx, lu
<1> HIDE DEF x
<1>12. IsPrefix(x, u) <=> Leads(a, w, b)
  BY <1>9, <1>10, <1>11
<1> QED BY <1>12 DEF x, t, u

\* The prefixes of a location are the directories above it.
LEMMA PrefixHeads ==
  ASSUME NEW a \in Location, NEW b \in Location
  PROVE  IsPrefix(a, b) <=> Heads(a, b)
<1>1. a \in Seq(Entry) /\ b \in Seq(Entry)
  BY DEF Location
<1>2. Len(a) \in Nat /\ Len(b) \in Nat
  BY LocationParts
<1>3. IsPrefix(a, b) <=> Starts(a, b)
  BY <1>1, PrefixPoints
<1> QED BY <1>2, <1>3 DEF Starts, Heads

\* The first n names.
LEMMA UpTo ==
  ASSUME NEW b \in Location, NEW n \in 0 .. Len(b)
  PROVE  /\ SubSeq(b, 1, n) \in Location /\ Len(SubSeq(b, 1, n)) = n
         /\ \A k \in 1 .. n : SubSeq(b, 1, n)[k] = b[k]
         /\ Heads(SubSeq(b, 1, n), b)
<1> DEFINE a == SubSeq(b, 1, n)
<1>1. b \in Seq(Entry) /\ Len(b) \in Nat /\ n \in Nat /\ n <= Len(b)
  BY LocationParts DEF Location
<1>2. b \in [1 .. Len(b) -> Entry]
  BY <1>1, LenProperties
<1>3. a = [k \in 1 .. n |-> b[k]]
  BY <1>1
<1> HIDE DEF a
<1>4. a \in [1 .. n -> Entry]
  BY <1>1, <1>2, <1>3
<1>5. a \in Seq(Entry) /\ Len(a) = n
  BY <1>1, <1>4
<1>6. a \in Location /\ \A k \in 1 .. n : a[k] = b[k]
  BY <1>3, <1>5 DEF Location
<1>7. Heads(a, b)
  BY <1>1, <1>5, <1>6 DEF Heads
<1> QED BY <1>5, <1>6, <1>7 DEF a

\* The path of a directory above is one of the texts.
LEMMA SpelledText ==
  ASSUME NEW a \in Location, NEW b \in Location, Heads(a, b), NEW text, Spells(b, text)
  PROVE  Spelled(a) = text[Len(a)]
<1>1. PICK s : Spells(a, s)
  BY SpelledSteps DEF Spells
<1>2. Len(a) \in 0 .. Len(a)
  BY LocationParts
<1>3. s[Len(a)] = text[Len(a)]
  BY <1>1, <1>2, TextsAgree
<1> QED BY <1>1, <1>3 DEF Spells

\* The path of an entry is that of its directory with its name behind it.
LEMMA SpelledNext ==
  ASSUME NEW a \in Location, NEW b \in Location, Heads(a, b), Len(b) = Len(a) + 1
  PROVE  Spelled(b) = Join(Spelled(a), b[Len(b)])
<1>1. PICK text : Spells(b, text)
  BY SpelledSteps DEF Spells
<1>2. Spelled(a) = text[Len(a)]
  BY <1>1, SpelledText
<1>3. Len(a) \in Nat /\ Len(b) \in 1 .. Len(b) /\ Len(b) - 1 = Len(a)
  BY LocationParts
<1>4. Follows(text[Len(b) - 1], b[Len(b)], text[Len(b)])
  BY <1>1, <1>3, TextSteps
<1>5. text[Len(b)] = Join(text[Len(a)], b[Len(b)])
  BY <1>3, <1>4 DEF Follows
<1> QED BY <1>1, <1>2, <1>5 DEF Spells

\* A location that is not "/" has a directory and a name.
LEMMA NotRoot ==
  ASSUME NEW b \in Location, b # <<>>
  PROVE  /\ Len(b) \in Nat \ {0}
         /\ Front(b) \in Location /\ Len(Front(b)) = Len(b) - 1 /\ Heads(Front(b), b)
         /\ \A k \in 1 .. Len(b) - 1 : Front(b)[k] = b[k]
         /\ Last(b) = b[Len(b)] /\ Last(b) \in Entry /\ Last(b) \in Word /\ Len(Last(b)) \in Nat \ {0}
         /\ PathOf(b) = Spelled(b)
         /\ PathOf(b) = Join(Spelled(Front(b)), Last(b))
<1>1. b \in Seq(Entry) /\ Len(b) \in Nat \ {0}
  <2>1. b \in Seq(Entry)
    BY DEF Location
  <2> QED BY <2>1, EmptySeq, LocationParts
<1>2. Len(b) - 1 \in 0 .. Len(b) /\ Len(b) \in 1 .. Len(b)
  BY <1>1
<1>3. /\ Front(b) \in Location /\ Len(Front(b)) = Len(b) - 1 /\ Heads(Front(b), b)
      /\ \A k \in 1 .. Len(b) - 1 : Front(b)[k] = b[k]
  BY <1>2, UpTo DEF Front
<1>4. Last(b) = b[Len(b)] /\ Last(b) \in Entry /\ Len(Last(b)) \in Nat \ {0}
  <2>1. b[Len(b)] \in Entry /\ Len(b[Len(b)]) \in Nat \ {0}
    BY <1>1, <1>2, LocationParts, ElementOfSeq
  <2> QED BY <2>1 DEF Last
<1>5. PathOf(b) = Spelled(b)
  BY DEF PathOf
<1>6. Spelled(b) = Join(Spelled(Front(b)), Last(b))
  <2>1. Len(b) = Len(Front(b)) + 1
    BY <1>1, <1>3
  <2> QED BY <1>3, <1>4, <2>1, SpelledNext
<1>7. Last(b) \in Word
  BY <1>4, EntryIsWord
<1> QED BY <1>1, <1>3, <1>4, <1>5, <1>6, <1>7

\* A path is a text.
LEMMA SpelledIsText ==
  ASSUME NEW a \in Location
  PROVE  Spelled(a) \in Seq(Letter) /\ Len(Spelled(a)) \in Nat
<1>1. Spelled(a) \in Seq(Letter)
  BY SpelledIsLaid DEF Laid
<1> QED BY <1>1, LenProperties

\* The path of a file begins with a separator and one of its names ends it.
LEMMA FilePath ==
  ASSUME NEW b \in Location, b # <<>>
  PROVE  /\ PathOf(b) \in Seq(Letter) /\ Len(PathOf(b)) \in Nat /\ Len(PathOf(b)) >= 2
         /\ PathOf(b)[1] = Separator /\ PathOf(b)[2] # Separator
         /\ Last(PathOf(b)) = Last(Last(b))
<1> DEFINE t == Spelled(b)
<1>1. PathOf(b) = t /\ Len(b) \in Nat \ {0}
  BY NotRoot
<1>2. PICK P : Laid(b, t, P)
  BY SpelledIsLaid
<1>3. t \in Seq(Letter) /\ Len(t) \in Nat
  BY SpelledIsText
<1>4. Len(b[1]) \in Nat \ {0} /\ b[1][1] # Separator /\ 1 \in 1 .. Len(b)
  <2>1. 1 \in 1 .. Len(b)
    BY <1>1
  <2>2. Len(b[1]) \in Nat \ {0} /\ \A j \in 1 .. Len(b[1]) : b[1][j] # Separator
    BY <2>1, LocationParts
  <2> QED BY <2>1, <2>2
<1>5. Len(t) >= 2 /\ t[1] = Separator /\ t[2] # Separator
  <2>1. /\ P[0] = 0 /\ P[1] = P[1 - 1] + 1 + Len(b[1]) /\ P[1] <= Len(t)
        /\ t[P[1 - 1] + 1] = Separator
        /\ \A j \in 1 .. Len(b[1]) : t[P[1 - 1] + 1 + j] = b[1][j]
    BY <1>2, <1>4 DEF Laid
  <2> HIDE DEF t
  <2> DEFINE n == Len(b[1])
             l == Len(t)
  <2>2. n \in Nat \ {0} /\ l \in Nat /\ 1 + n <= l /\ t[1] = Separator /\ \A j \in 1 .. n : t[1 + j] = b[1][j]
    BY <1>3, <1>4, <2>1
  <2> HIDE DEF n, l
  <2>3. l >= 2 /\ t[2] = b[1][1]
    BY <2>2
  <2> QED BY <1>4, <2>2, <2>3 DEF l
<1>6. Last(t) = Last(Last(b))
  <2> DEFINE s == Spelled(Front(b))
             w == Last(b)
  <2>1. t = Join(s, w) /\ w \in Word /\ Len(w) \in Nat \ {0} /\ s \in Seq(Letter)
    BY NotRoot, SpelledIsText
  <2> HIDE DEF t, s, w
  <2>2. w \in Seq(Letter)
    BY <2>1, WordParts
  <2>3. Follows(s, w, t)
    BY <2>1, <2>2, JoinFollows
  <2>4. /\ Len(s) \in Nat /\ Len(t) = Len(s) + 1 + Len(w)
        /\ \A j \in 1 .. Len(w) : t[Len(s) + 1 + j] = w[j]
    BY <2>3 DEF Follows
  <2>5. t[Len(t)] = w[Len(w)]
    BY <2>1, <2>4
  <2> QED BY <2>5 DEF Last, w
<1> QED BY <1>1, <1>3, <1>5, <1>6

\* What the beginning of a location says of its last name.
LEMMA LeadsToLast ==
  ASSUME NEW a \in Location, NEW b \in Location, a # <<>>, Leads(Front(a), Last(a), b)
  PROVE  /\ Len(a) <= Len(b) /\ \A k \in 1 .. Len(a) - 1 : a[k] = b[k]
         /\ Starts(a[Len(a)], b[Len(a)])
<1>1. /\ Len(a) \in Nat \ {0} /\ Len(Front(a)) = Len(a) - 1 /\ Last(a) = a[Len(a)]
      /\ \A k \in 1 .. Len(a) - 1 : Front(a)[k] = a[k]
  BY NotRoot
<1>2. Len(b) \in Nat
  BY LocationParts
<1>3. /\ Len(a) - 1 < Len(b) /\ \A k \in 1 .. Len(a) - 1 : Front(a)[k] = b[k]
      /\ Starts(a[Len(a)], b[Len(a) - 1 + 1])
  BY <1>1 DEF Leads
<1>4. Len(a) - 1 + 1 = Len(a) /\ Len(a) <= Len(b)
  BY <1>1, <1>2, <1>3
<1> QED BY <1>1, <1>3, <1>4

\* Locations with one path have the same first names.
LEMMA SpelledIsPrefix ==
  ASSUME NEW a \in Location, NEW b \in Location, Spelled(a) = Spelled(b), a # <<>>
  PROVE  Leads(Front(a), Last(a), b)
<1>1. Front(a) \in Location /\ Last(a) \in Word /\ Spelled(a) = Join(Spelled(Front(a)), Last(a))
  BY NotRoot
<1>2. IsPrefix(Spelled(a), Spelled(b))
  <2> DEFINE t == Spelled(b)
  <2>1. t \in Seq(Letter) /\ Len(t) \in Nat
    BY SpelledIsText
  <2>2. Spelled(a) = t
    OBVIOUS
  <2> HIDE DEF t
  <2>3. IsPrefix(t, t)
    BY <2>1, PrefixPoints DEF Starts
  <2> QED BY <2>2, <2>3 DEF t
<1> QED BY <1>1, <1>2, TextBegins

\* A path leads to one file.
LEMMA PathTells ==
  ASSUME NEW a \in Location, NEW b \in Location, a # <<>>, b # <<>>, PathOf(a) = PathOf(b)
  PROVE  a = b
<1>1. Spelled(a) = Spelled(b)
  BY NotRoot
<1>2. /\ Len(a) <= Len(b) /\ \A k \in 1 .. Len(a) - 1 : a[k] = b[k]
      /\ Starts(a[Len(a)], b[Len(a)])
  BY <1>1, SpelledIsPrefix, LeadsToLast
<1>3. Len(b) <= Len(a) /\ Starts(b[Len(b)], a[Len(b)])
  <2>1. Leads(Front(b), Last(b), a)
    BY <1>1, SpelledIsPrefix
  <2> QED BY <2>1, LeadsToLast
<1>4. Len(a) \in Nat \ {0} /\ Len(b) \in Nat \ {0}
  BY NotRoot
<1> DEFINE n == Len(a)
           v == a[n]
           w == b[n]
<1>5. n \in Nat \ {0} /\ Len(b) = n
  BY <1>2, <1>3, <1>4
<1>6. v \in Seq(Letter) /\ w \in Seq(Letter)
  BY <1>5, LocationParts
<1>7. Starts(v, w) /\ Starts(w, v)
  BY <1>2, <1>3, <1>5
<1>8. a \in [1 .. n -> Entry] /\ b \in [1 .. n -> Entry]
  BY <1>5, LenProperties DEF Location
<1> HIDE DEF n
<1>9. v = w
  <2> HIDE DEF v, w
  <2>1. Len(v) = Len(w) /\ \A j \in 1 .. Len(v) : w[j] = v[j]
    BY <1>7 DEF Starts
  <2>2. v \in [1 .. Len(v) -> Letter] /\ w \in [1 .. Len(v) -> Letter]
    BY <1>6, <2>1, LenProperties
  <2>3. v = [j \in 1 .. Len(v) |-> v[j]] /\ w = [j \in 1 .. Len(v) |-> w[j]]
    BY <2>2
  <2> QED BY <2>1, <2>3
<1>10. \A k \in 1 .. n : a[k] = b[k]
  BY <1>2, <1>5, <1>9 DEF n
<1>11. a = [k \in 1 .. n |-> a[k]] /\ b = [k \in 1 .. n |-> b[k]]
  BY <1>8
<1> QED BY <1>10, <1>11

\* A text with nothing behind the separator.
LEMMA JoinNothing ==
  ASSUME NEW text \in Seq(Letter)
  PROVE  Join(text, <<>>) = text \o <<Separator>> /\ <<>> \in Word /\ Len(<<>>) = 0
<1> DEFINE c == Separator
           t == text \o <<c>>
<1>1. c \in Letter
  BY DEF Letter
<1> HIDE DEF c
<1>2. t \in Seq(Letter)
  BY <1>1, ConcatProperties
<1> HIDE DEF t
<1>3. t \o <<>> = t
  BY <1>2, ConcatEmptySeq
<1>4. Join(text, <<>>) = t
  BY <1>3 DEF Join, c, t
<1>5. <<>> \in Word /\ Len(<<>>) = 0
  BY EmptySeq DEF Word
<1> QED BY <1>4, <1>5 DEF t, c

\* What is behind the text of a directory is below it.
LEMMA BehindDirectory ==
  ASSUME NEW d \in Location, NEW b \in Location
  PROVE  IsPrefix(Spelled(d) \o <<Separator>>, Spelled(b)) <=> Heads(d, b) /\ Len(d) < Len(b)
<1> DEFINE w == <<>>
<1>1. w \in Word /\ Len(w) = 0 /\ Join(Spelled(d), w) = Spelled(d) \o <<Separator>>
  BY JoinNothing, SpelledIsText
<1> HIDE DEF w
<1>2. IsPrefix(Join(Spelled(d), w), Spelled(b)) <=> Leads(d, w, b)
  BY <1>1, TextBegins
<1>3. Len(d) \in Nat /\ Len(b) \in Nat
  BY LocationParts
<1>4. Len(d) < Len(b) => Starts(w, b[Len(d) + 1])
  <2>1. SUFFICES ASSUME Len(d) < Len(b) PROVE Starts(w, b[Len(d) + 1])
    OBVIOUS
  <2>2. Len(d) + 1 \in 1 .. Len(b)
    BY <1>3, <2>1
  <2>3. Len(b[Len(d) + 1]) \in Nat
    BY <2>2, LocationParts
  <2> QED BY <1>1, <2>3 DEF Starts
<1>5. Leads(d, w, b) <=> Heads(d, b) /\ Len(d) < Len(b)
  BY <1>3, <1>4 DEF Leads, Heads
<1> QED BY <1>1, <1>2, <1>5

\* Nothing but "/" is at "/" for isUnder, and nothing is below "/".
LEMMA UnderSlash ==
  ASSUME NEW b \in Location, b # <<>>
  PROVE  /\ ~IsUnder(PathOf(b), <<Separator>>)
         /\ ~IsUnder(<<Separator>>, PathOf(b))
<1> DEFINE t == PathOf(b)
           c == Separator
           s == <<c>>
           l == Len(t)
<1>1. t \in Seq(Letter) /\ l \in Nat /\ l >= 2 /\ t[1] = c /\ t[2] # c
  BY FilePath
<1>2. c \in Letter
  BY DEF Letter
<1> HIDE DEF t, c
<1>3. s \in Seq(Letter) /\ Len(s) = 1 /\ s[1] = c
  BY <1>2
<1> HIDE DEF s
<1>4. t # s
  BY <1>1, <1>3
<1>5. ~IsPrefix(s \o s, t)
  <2> DEFINE u == s \o s
  <2>1. u \in Seq(Letter) /\ Len(u) = Len(s) + Len(s)
    BY <1>3, ConcatProperties
  <2>2. \A i \in 1 .. Len(s) + Len(s) : u[i] = IF i <= Len(s) THEN s[i] ELSE s[i - Len(s)]
    BY <1>3, ConcatProperties
  <2> HIDE DEF u
  <2>3. Len(u) = 2 /\ u[2] = c
    BY <1>3, <2>1, <2>2
  <2>4. IsPrefix(u, t) => Starts(u, t)
    BY <1>1, <2>1, PrefixPoints
  <2> QED BY <1>1, <2>3, <2>4 DEF Starts, u
<1>6. ~IsPrefix(t \o s, s)
  <2> DEFINE u == t \o s
  <2>1. u \in Seq(Letter) /\ Len(u) = Len(t) + Len(s)
    BY <1>1, <1>3, ConcatProperties
  <2> HIDE DEF u
  <2>2. IsPrefix(u, s) => Starts(u, s)
    BY <1>3, <2>1, PrefixPoints
  <2> QED BY <1>1, <1>3, <2>1, <2>2 DEF Starts, u
<1> QED BY <1>4, <1>5, <1>6, Zenon DEF IsUnder, t, c, s

\* isUnder compares the names of directories, except for "/".
LEMMA UnderPath ==
  ASSUME NEW d \in Location, NEW b \in Location, d # <<>>, b # <<>>
  PROVE  IsUnder(PathOf(b), PathOf(d)) <=> Heads(d, b)
<1>1. PathOf(b) = Spelled(b) /\ PathOf(d) = Spelled(d) /\ Len(b) \in Nat /\ Len(d) \in Nat
  BY NotRoot
<1>2. IsPrefix(PathOf(d) \o <<Separator>>, PathOf(b)) <=> Heads(d, b) /\ Len(d) < Len(b)
  BY <1>1, BehindDirectory
<1>3. PathOf(b) = PathOf(d) => b = d
  BY PathTells
<1>4. Heads(b, b)
  BY <1>1 DEF Heads
<1>5. Heads(d, b) /\ ~(Len(d) < Len(b)) => d = b
  <2>1. SUFFICES ASSUME Heads(d, b), ~(Len(d) < Len(b)) PROVE d = b
    OBVIOUS
  <2>2. Len(d) = Len(b) /\ \A k \in 1 .. Len(b) : d[k] = b[k]
    BY <1>1, <2>1 DEF Heads
  <2>3. d \in [1 .. Len(b) -> Entry] /\ b \in [1 .. Len(b) -> Entry]
    BY <2>2, LenProperties DEF Location
  <2> QED BY <2>2, <2>3
<1> QED BY <1>2, <1>3, <1>4, <1>5 DEF IsUnder

\* What is below a directory for the walk is below it by its names.
LEMMA BelowPath ==
  ASSUME NEW d \in Location, NEW b \in Location, b # <<>>
  PROVE  Below(PathOf(b), PathOf(d)) <=> Heads(d, b)
<1>1. CASE d = <<>>
  <2>1. Len(d) = 0 /\ Len(b) \in Nat
    BY <1>1, EmptySeq, LocationParts
  <2>2. Heads(d, b)
    BY <2>1 DEF Heads
  <2>3. PathOf(d) = <<Separator>>
    BY <1>1 DEF PathOf
  <2> QED BY <2>2, <2>3 DEF Below
<1>2. CASE d # <<>>
  <2>1. PathOf(d) # <<Separator>>
    <3>1. PathOf(d)[2] # Separator /\ Len(PathOf(d)) >= 2
      BY <1>2, FilePath
    <3> QED BY <3>1
  <2>2. Below(PathOf(b), PathOf(d)) <=> IsUnder(PathOf(b), PathOf(d))
    BY <2>1 DEF Below, IsUnder
  <2> QED BY <1>2, <2>2, UnderPath
<1> QED BY <1>1, <1>2

\* A file is within roots when one of them but "/" is above it.
LEMMA UnderDirectories ==
  ASSUME NEW dirs, dirs \subseteq Location, NEW f \in Location, f # <<>>
  PROVE  PathWithinAnyRoot(PathOf(f), PathsOf(dirs)) <=> Under(f, dirs)
<1>1. PathWithinAnyRoot(PathOf(f), PathsOf(dirs)) <=> \E d \in dirs : IsUnder(PathOf(f), PathOf(d))
  BY Zenon DEF PathWithinAnyRoot, PathsOf
<1>2. ASSUME NEW d \in dirs
      PROVE  IsUnder(PathOf(f), PathOf(d)) <=> d # <<>> /\ IsPrefix(d, f)
  <2>1. d \in Location
    OBVIOUS
  <2>2. CASE d = <<>>
    <3>1. PathOf(d) = <<Separator>>
      BY <2>2 DEF PathOf
    <3>2. ~IsUnder(PathOf(f), <<Separator>>)
      BY UnderSlash
    <3> QED BY <2>2, <3>1, <3>2
  <2>3. CASE d # <<>>
    BY <2>1, <2>3, UnderPath, PrefixHeads
  <2> QED BY <2>2, <2>3
<1>3. Under(f, dirs) <=> \E d \in dirs : d # <<>> /\ IsPrefix(d, f)
  BY Zenon DEF Under
<1> QED BY <1>1, <1>2, <1>3, Zenon

\* A piece of a text that begins another is there in the other.
LEMMA OccursMore ==
  ASSUME NEW t \in Seq(Letter), NEW n \in 0 .. Len(t), NEW pattern \in Seq(Letter),
         NEW m \in Nat, OccursAt(SubSeq(t, 1, n), m, pattern)
  PROVE  OccursAt(t, m, pattern)
<1> DEFINE s == SubSeq(t, 1, n)
           l == Len(pattern)
           a == m + 1
           z == m + l
<1>1. n \in Nat /\ n <= Len(t) /\ Len(t) \in Nat /\ l \in Nat
  BY LenProperties
<1>2. t \in [1 .. Len(t) -> Letter]
  BY LenProperties
<1>3. s = [k \in 1 .. n |-> t[k]]
  BY <1>1
<1>4. Len(s) = n
  BY <1>1, <1>2, <1>3
<1>5. z <= n /\ SubSeq(s, a, z) = pattern
  BY <1>4, Zenon DEF OccursAt
<1>6. a \in Nat /\ z \in Nat /\ a >= 1
  BY <1>1
<1> HIDE DEF s, a, z, l
<1>7. SubSeq(s, a, z) = SubSeq(t, a, z)
  <2>1. SubSeq(s, a, z) = [k \in 1 .. 1 + z - a |-> s[a + k - 1]]
    BY <1>6
  <2>2. SubSeq(t, a, z) = [k \in 1 .. 1 + z - a |-> t[a + k - 1]]
    BY <1>6
  <2>3. \A k \in 1 .. 1 + z - a : a + k - 1 \in 1 .. n
    BY <1>1, <1>5, <1>6
  <2>4. \A k \in 1 .. 1 + z - a : s[a + k - 1] = t[a + k - 1]
    BY <1>3, <2>3
  <2> QED BY <2>1, <2>2, <2>4
<1>8. z <= Len(t)
  BY <1>1, <1>5, <1>6
<1> QED BY <1>5, <1>7, <1>8 DEF OccursAt, a, z, l

\* An exclude pattern that matches a directory matches the files below it.
LEMMA MatchesMore ==
  ASSUME NEW t \in Seq(Letter), NEW n \in 0 .. Len(t), NEW cfg, cfg.patterns \subseteq Seq(Letter),
         Matches(SubSeq(t, 1, n), cfg)
  PROVE  Matches(t, cfg)
<1> DEFINE s == SubSeq(t, 1, n)
<1>1. PICK pattern \in cfg.patterns, m \in 0 .. Len(s) : OccursAt(s, m, pattern)
  BY Zenon DEF Matches, MatchesExcludePattern
<1>2. n \in Nat /\ Len(t) \in Nat /\ n <= Len(t)
  BY LenProperties
<1>3. Len(s) = n
  <2>1. s = [k \in 1 .. n |-> t[k]] /\ t \in [1 .. Len(t) -> Letter]
    BY <1>2, LenProperties
  <2> QED BY <1>2, <2>1
<1>4. m \in Nat /\ m \in 0 .. Len(t) /\ pattern \in Seq(Letter)
  BY <1>2, <1>3
<1>5. OccursAt(t, m, pattern)
  BY <1>1, <1>4, OccursMore
<1> QED BY <1>4, <1>5, Zenon DEF Matches, MatchesExcludePattern

\* How the property says that a pattern occurs.
LEMMA OccursBegins ==
  ASSUME NEW t \in Seq(Letter), NEW n \in 0 .. Len(t), NEW pattern \in Seq(Letter)
  PROVE  OccursAt(t, n, pattern) <=> IsPrefix(pattern, SubSeq(t, n + 1, Len(t)))
<1> DEFINE l == Len(pattern)
           m == Len(t)
           a == n + 1
           s == SubSeq(t, a, m)
           o == SubSeq(t, a, n + l)
<1>1. m \in Nat /\ n \in Nat /\ n <= m /\ l \in Nat /\ a \in Nat /\ a = n + 1
  BY LenProperties
<1>2. t \in [1 .. m -> Letter] /\ pattern \in [1 .. l -> Letter]
  BY LenProperties
<1>3. OccursAt(t, n, pattern) <=> n + l <= m /\ o = pattern
  BY Zenon DEF OccursAt
<1> HIDE DEF l, m, a
<1>4. s \in Seq(Letter) /\ Len(s) = m - n /\ \A j \in 1 .. m - n : s[j] = t[n + j]
  <2>1. s = [j \in 1 .. 1 + m - a |-> t[a + j - 1]]
    BY <1>1
  <2>2. \A j \in 1 .. m - n : a + j - 1 = n + j /\ n + j \in 1 .. m
    BY <1>1
  <2>3. 1 + m - a = m - n
    BY <1>1
  <2>4. s = [j \in 1 .. m - n |-> t[n + j]]
    BY <2>1, <2>2, <2>3
  <2>5. s \in [1 .. m - n -> Letter] /\ m - n \in Nat
    <3>1. m - n \in Nat
      BY <1>1
    <3>2. \A j \in 1 .. m - n : t[n + j] \in Letter
      BY <1>2, <2>2
    <3> QED BY <2>4, <3>1, <3>2
  <2> HIDE DEF s
  <2>6. s \in Seq(Letter) /\ Len(s) = m - n
    <3> DEFINE k == m - n
    <3>1. s \in [1 .. k -> Letter] /\ k \in Nat
      BY <2>5
    <3> HIDE DEF k
    <3>2. s \in Seq(Letter) /\ Len(s) = k
      BY <3>1
    <3> QED BY <3>2 DEF k
  <2> QED BY <2>4, <2>6
<1>5. o = [j \in 1 .. l |-> t[n + j]]
  <2>1. o = [j \in 1 .. 1 + (n + l) - a |-> t[a + j - 1]]
    BY <1>1
  <2>2. \A j \in 1 .. l : a + j - 1 = n + j
    BY <1>1
  <2>3. 1 + (n + l) - a = l
    BY <1>1
  <2> QED BY <2>1, <2>2, <2>3
<1>6. IsPrefix(pattern, s) <=> l <= m - n /\ \A j \in 1 .. l : s[j] = pattern[j]
  <2> HIDE DEF s
  <2>1. IsPrefix(pattern, s) <=> Starts(pattern, s)
    BY <1>4, PrefixPoints
  <2>2. Len(s) \in Nat /\ Len(pattern) \in Nat /\ Len(pattern) = l
    BY <1>4, LenProperties DEF l
  <2> QED BY <1>4, <2>1, <2>2 DEF Starts
<1> HIDE DEF s, o
<1>7. n + l <= m <=> l <= m - n
  BY <1>1
<1>8. ASSUME l <= m - n PROVE o = pattern <=> \A j \in 1 .. l : s[j] = pattern[j]
  <2>1. \A j \in 1 .. l : s[j] = t[n + j]
    BY <1>1, <1>4, <1>8
  <2>2. pattern = [j \in 1 .. l |-> pattern[j]]
    BY <1>2
  <2> QED BY <1>5, <2>1, <2>2
<1> QED BY <1>3, <1>6, <1>7, <1>8 DEF s, a, m

\* A text with a separator behind it.
LEMMA BehindSeparator ==
  ASSUME NEW s \in Seq(Letter)
  PROVE  /\ s \o <<Separator>> \in Seq(Letter) /\ Len(s) \in Nat /\ Len(s \o <<Separator>>) = Len(s) + 1
         /\ \A j \in 1 .. Len(s) : (s \o <<Separator>>)[j] = s[j]
         /\ (s \o <<Separator>>)[Len(s) + 1] = Separator
<1> DEFINE w == <<>>
           t == Join(s, w)
<1>1. w \in Word /\ Len(w) = 0 /\ t = s \o <<Separator>>
  BY JoinNothing
<1> HIDE DEF w
<1>2. w \in Seq(Letter)
  BY <1>1, WordParts
<1>3. Follows(s, w, t)
  BY <1>2, JoinFollows
<1> HIDE DEF t
<1>4. /\ t \in Seq(Letter) /\ Len(s) \in Nat /\ Len(t) = Len(s) + 1
      /\ \A j \in 1 .. Len(s) : t[j] = s[j]
      /\ t[Len(s) + 1] = Separator
  BY <1>1, <1>3 DEF Follows
<1> QED BY <1>1, <1>4

\* The first part of a text.
LEMMA FirstPart ==
  ASSUME NEW t \in Seq(Letter), NEW n \in 0 .. Len(t)
  PROVE  /\ SubSeq(t, 1, n) \in Seq(Letter) /\ Len(SubSeq(t, 1, n)) = n
         /\ \A j \in 1 .. n : SubSeq(t, 1, n)[j] = t[j]
<1>1. Len(t) \in Nat /\ n \in Nat /\ n <= Len(t) /\ t \in [1 .. Len(t) -> Letter]
  BY LenProperties
<1> DEFINE s == SubSeq(t, 1, n)
<1>2. s = [k \in 1 .. n |-> t[k]]
  BY <1>1
<1> HIDE DEF s
<1>3. s \in [1 .. n -> Letter]
  BY <1>1, <1>2
<1>4. s \in Seq(Letter) /\ Len(s) = n
  BY <1>1, <1>3
<1> QED BY <1>2, <1>4 DEF s

\* A text that begins another is its first part.
LEMMA PartOf ==
  ASSUME NEW s \in Seq(Letter), NEW t \in Seq(Letter), Starts(s, t)
  PROVE  s = SubSeq(t, 1, Len(s))
<1> DEFINE n == Len(s)
           u == SubSeq(t, 1, n)
<1>1. n \in 0 .. Len(t) /\ \A j \in 1 .. n : t[j] = s[j]
  BY DEF Starts
<1>2. s \in [1 .. n -> Letter] /\ n \in Nat
  BY LenProperties
<1> HIDE DEF n
<1>3. u \in Seq(Letter) /\ Len(u) = n /\ \A j \in 1 .. n : u[j] = t[j]
  BY <1>1, FirstPart
<1> HIDE DEF u
<1>4. u \in [1 .. n -> Letter]
  BY <1>3, LenProperties
<1>5. u = [j \in 1 .. n |-> u[j]] /\ s = [j \in 1 .. n |-> s[j]]
  BY <1>2, <1>4
<1>6. u = s
  BY <1>1, <1>3, <1>5
<1> QED BY <1>6 DEF u, n

\* What the configuration of a scan holds.
LEMMA ScanTexts ==
  ASSUME NEW i, IsScan(i)
  PROVE  /\ ScanConfig(i).patterns = i.patterns /\ ScanConfig(i).patterns \subseteq Seq(Letter)
         /\ ScanConfig(i).excluded = PathsOf(i.excluded)
         /\ ScanConfig(i).extensions = i.extensions
<1>1. i.patterns \subseteq Seq(STRING)
  BY DEF IsScan
<1>2. STRING \subseteq Letter
  BY DEF Letter
<1>3. Seq(STRING) \subseteq Seq(Letter)
  BY <1>2, SeqMonotonic
<1>4. i.patterns \subseteq Seq(Letter)
  BY <1>1, <1>3
<1>5. /\ ScanConfig(i).patterns = i.patterns /\ ScanConfig(i).excluded = PathsOf(i.excluded)
      /\ ScanConfig(i).extensions = i.extensions
  BY DEF ScanConfig
<1> QED BY <1>4, <1>5

\* What is above a file's directory, or that directory, is above the file.
LEMMA UnderFront ==
  ASSUME NEW f \in Location, f # <<>>, NEW e \in Location
  PROVE  IsPrefix(e, Front(f)) <=> Heads(e, f) /\ Len(e) < Len(f)
<1>1. /\ Front(f) \in Location /\ Len(Front(f)) = Len(f) - 1
      /\ \A k \in 1 .. Len(f) - 1 : Front(f)[k] = f[k]
  BY NotRoot
<1>2. Len(e) \in Nat /\ Len(f) \in Nat
  BY LocationParts
<1>3. IsPrefix(e, Front(f)) <=> Heads(e, Front(f))
  BY <1>1, PrefixHeads
<1>4. Heads(e, Front(f)) <=> Len(e) <= Len(f) - 1 /\ \A k \in 1 .. Len(e) : e[k] = Front(f)[k]
  BY <1>1 DEF Heads
<1> DEFINE g == Front(f)
           n == Len(e)
           m == Len(f)
<1>5. Heads(e, f) <=> n <= m /\ \A k \in 1 .. n : e[k] = f[k]
  BY DEF Heads
<1>6. n \in Nat /\ m \in Nat /\ \A k \in 1 .. m - 1 : g[k] = f[k]
  BY <1>1, <1>2
<1>7. Heads(e, g) <=> n <= m - 1 /\ \A k \in 1 .. n : e[k] = g[k]
  BY <1>4
<1> HIDE DEF g, n, m
<1>8. Heads(e, g) <=> Heads(e, f) /\ n < m
  <2>1. n <= m - 1 <=> n < m
    BY <1>6
  <2>2. ASSUME n < m PROVE \A k \in 1 .. n : g[k] = f[k]
    BY <1>6, <2>2
  <2> QED BY <1>5, <1>6, <1>7, <2>1, <2>2
<1> QED BY <1>3, <1>8 DEF g, n, m

\* A directory on the way to a file is excluded only if one above the file is.
LEMMA ExcludedAbove ==
  ASSUME NEW f \in Location, f # <<>>, NEW e \in Location, e # <<>>,
         NEW n \in 1 .. Len(PathOf(f)) - 1,
         Below(PathOf(f), SubSeq(PathOf(f), 1, n)), IsUnder(SubSeq(PathOf(f), 1, n), PathOf(e))
  PROVE  IsPrefix(e, Front(f))
<1> DEFINE t   == PathOf(f)
           u   == PathOf(e)
           dir == SubSeq(t, 1, n)
           v   == u \o <<Separator>>
           w   == dir \o <<Separator>>
<1>1. t \in Seq(Letter) /\ Len(t) \in Nat /\ u \in Seq(Letter)
  BY FilePath
<1>2. n \in 0 .. Len(t) /\ n \in Nat /\ n < Len(t)
  BY <1>1
<1>3. /\ IsPrefix(v, t) <=> Heads(e, f) /\ Len(e) < Len(f)
      /\ IsUnder(dir, u) /\ Below(t, dir)
      /\ ~IsUnder(<<Separator>>, u)
  <2>1. t = Spelled(f) /\ u = Spelled(e)
    BY NotRoot
  <2>2. IsPrefix(v, t) <=> Heads(e, f) /\ Len(e) < Len(f)
    BY <2>1, BehindDirectory
  <2> QED BY <2>2, UnderSlash
<1> HIDE DEF t, u
<1>4. dir \in Seq(Letter) /\ Len(dir) = n /\ \A j \in 1 .. n : dir[j] = t[j]
  BY <1>1, <1>2, FirstPart
<1> HIDE DEF dir
<1>5. dir # t /\ dir # <<Separator>>
  BY <1>2, <1>3, <1>4
<1>6. IsPrefix(w, t)
  BY <1>3, <1>5 DEF Below
<1>7. w \in Seq(Letter) /\ v \in Seq(Letter)
  BY <1>1, <1>4, BehindSeparator
<1>8. CASE dir = u
  BY <1>6, <1>8, <1>3, UnderFront
<1>9. CASE IsPrefix(v, dir)
  <2> HIDE DEF v
  <2>1. Starts(v, dir)
    BY <1>4, <1>7, <1>9, PrefixPoints
  <2>2. Starts(v, t)
    BY <1>1, <1>2, <1>4, <2>1 DEF Starts
  <2>3. IsPrefix(v, t)
    BY <1>1, <1>7, <2>2, PrefixPoints
  <2> QED BY <1>3, <2>3, UnderFront
<1> QED BY <1>3, <1>8, <1>9 DEF IsUnder

\* A walk reaches the files below its root that no exclusion holds.
LEMMA WalkReaches ==
  ASSUME NEW i, IsScan(i), <<>> \notin i.excluded, NEW f \in i.files, NEW r \in i.roots,
         IsPrefix(r, f), ~Under(Front(f), i.excluded), ~Matches(PathOf(f), ScanConfig(i))
  PROVE  Walked(PathOf(f), PathOf(r), ScanConfig(i))
<1> DEFINE cfg == ScanConfig(i)
           t   == PathOf(f)
<1>1. f \in Location /\ f # <<>> /\ r \in Location /\ i.excluded \subseteq Location
  BY DEF IsScan
<1>2. cfg.patterns \subseteq Seq(Letter) /\ cfg.excluded = PathsOf(i.excluded)
  BY ScanTexts
<1>3. t \in Seq(Letter) /\ Len(t) \in Nat
  BY <1>1, FilePath
<1>4. ~Matches(t, cfg)
  OBVIOUS
<1>5. Below(t, PathOf(r))
  BY <1>1, PrefixHeads, BelowPath
<1> HIDE DEF cfg
<1>6. ASSUME NEW n \in 1 .. Len(t) - 1, Below(t, SubSeq(t, 1, n))
      PROVE  ~Skipped(SubSeq(t, 1, n), cfg)
  <2>1. n \in 0 .. Len(t)
    BY <1>3
  <2>2. ~Matches(SubSeq(t, 1, n), cfg)
    <3> HIDE DEF t
    <3> QED BY <1>2, <1>3, <1>4, <2>1, MatchesMore
  <2>3. ASSUME NEW e \in i.excluded PROVE ~IsUnder(SubSeq(t, 1, n), PathOf(e))
    <3>1. e \in Location /\ e # <<>>
      BY <1>1
    <3>2. ~IsPrefix(e, Front(f))
      BY <3>1 DEF Under
    <3> QED BY <1>1, <1>6, <3>1, <3>2, ExcludedAbove
  <2> HIDE DEF t
  <2>4. \A ex \in cfg.excluded : ~IsUnder(SubSeq(t, 1, n), ex)
    BY <1>2, <2>3, Zenon DEF PathsOf
  <2> QED BY <2>2, <2>4, Zenon DEF Skipped
<1>7. \A dir \in DirectoriesTo(t, PathOf(r)) : ~Skipped(dir, cfg)
  <2> HIDE DEF t
  <2> QED BY <1>6, Zenon DEF DirectoriesTo
<1> QED BY <1>5, <1>7, Zenon DEF Walked, cfg

\* A root that is a file is reached whatever the exclusions are.
LEMMA RootIsWalked ==
  ASSUME NEW f \in Location, f # <<>>, NEW cfg
  PROVE  Walked(PathOf(f), PathOf(f), cfg)
<1> DEFINE t == PathOf(f)
           w == t \o <<Separator>>
<1>1. t \in Seq(Letter) /\ Len(t) \in Nat /\ Len(t) >= 2
  BY FilePath
<1> HIDE DEF t
<1>2. w \in Seq(Letter) /\ Len(w) = Len(t) + 1
  BY <1>1, BehindSeparator
<1> HIDE DEF w
<1>3. ASSUME NEW n \in 1 .. Len(t) - 1 PROVE ~Below(SubSeq(t, 1, n), t)
  <2> DEFINE dir == SubSeq(t, 1, n)
  <2>1. n \in 0 .. Len(t) /\ n < Len(t)
    BY <1>1
  <2>2. dir \in Seq(Letter) /\ Len(dir) = n
    BY <1>1, <2>1, FirstPart
  <2> HIDE DEF dir
  <2>3. dir # t /\ t # <<Separator>>
    BY <1>1, <2>1, <2>2
  <2>4. ~IsPrefix(w, dir)
    <3>1. IsPrefix(w, dir) => Starts(w, dir)
      BY <1>2, <2>2, PrefixPoints
    <3> QED BY <1>1, <1>2, <2>1, <2>2, <3>1 DEF Starts
  <2> QED BY <2>3, <2>4 DEF Below, dir, w
<1>4. DirectoriesTo(t, t) = {}
  BY <1>3, Zenon DEF DirectoriesTo
<1>5. Below(t, t)
  BY DEF Below
<1> QED BY <1>4, <1>5 DEF Walked, t

\* A walk reaches nothing in an excluded directory, but for a root that is there:
\* of the excluded directory and the root, the lower is on the way to the file.
LEMMA WalkStops ==
  ASSUME NEW i, IsScan(i), <<>> \notin i.excluded, NEW f \in i.files, NEW r \in i.roots,
         Walked(PathOf(f), PathOf(r), ScanConfig(i))
  PROVE  IsPrefix(r, f) /\ (r = f \/ ~Under(Front(f), i.excluded))
<1> DEFINE cfg == ScanConfig(i)
           t   == PathOf(f)
<1>1. f \in Location /\ f # <<>> /\ r \in Location /\ i.excluded \subseteq Location
  BY DEF IsScan
<1>2. cfg.excluded = PathsOf(i.excluded)
  BY ScanTexts
<1>3. t \in Seq(Letter) /\ Len(t) \in Nat /\ t = Spelled(f)
  BY <1>1, FilePath, NotRoot
<1>4. Below(t, PathOf(r)) /\ \A dir \in DirectoriesTo(t, PathOf(r)) : ~Skipped(dir, cfg)
  BY Zenon DEF Walked
<1>5. Heads(r, f) /\ IsPrefix(r, f)
  BY <1>1, <1>4, PrefixHeads, BelowPath
<1>6. ASSUME r # f, Under(Front(f), i.excluded) PROVE FALSE
  <2>1. PICK e \in i.excluded : e # <<>> /\ IsPrefix(e, Front(f))
    BY <1>6, Zenon DEF Under
  <2>2. e \in Location /\ Heads(e, f) /\ Len(e) < Len(f)
    BY <1>1, <2>1, UnderFront
  <2>3. Len(e) \in Nat /\ Len(r) \in Nat /\ Len(f) \in Nat
    BY <1>1, <2>2, LocationParts
  <2>4. Len(r) < Len(f)
    <3>1. SUFFICES ASSUME ~(Len(r) < Len(f)) PROVE FALSE
      OBVIOUS
    <3>2. Len(r) = Len(f) /\ \A k \in 1 .. Len(f) : r[k] = f[k]
      BY <1>5, <2>3, <3>1 DEF Heads
    <3>3. r \in [1 .. Len(f) -> Entry] /\ f \in [1 .. Len(f) -> Entry]
      BY <1>1, <3>2, LenProperties DEF Location
    <3>4. r = [k \in 1 .. Len(f) |-> r[k]] /\ f = [k \in 1 .. Len(f) |-> f[k]]
      BY <3>3
    <3>5. r = f
      BY <3>2, <3>4
    <3> QED BY <1>6, <3>5
  <2> DEFINE g == IF Len(e) >= Len(r) THEN e ELSE r
  <2>5. /\ g \in Location /\ Len(g) \in Nat /\ Len(g) < Len(f)
        /\ Heads(g, f) /\ Heads(e, g) /\ Heads(r, g)
    <3>1. CASE Len(e) >= Len(r)
      BY <1>1, <1>5, <2>2, <2>3, <2>4, <3>1 DEF Heads
    <3>2. CASE ~(Len(e) >= Len(r))
      BY <1>1, <1>5, <2>2, <2>3, <2>4, <3>2 DEF Heads
    <3> QED BY <3>1, <3>2
  <2>6. g # <<>>
    <3>1. Len(e) # 0
      BY <2>1, <2>2, NotRoot
    <3>2. Len(g) # 0
      BY <2>3, <3>1
    <3> QED BY <3>2, EmptySeq
  <2> HIDE DEF g
  <2> DEFINE dir == PathOf(g)
             n   == Len(dir)
             w   == dir \o <<Separator>>
  <2>7. dir \in Seq(Letter) /\ n \in Nat /\ n >= 2 /\ dir = Spelled(g)
    BY <2>5, <2>6, FilePath, NotRoot
  <2>8. Starts(dir, t) /\ n < Len(t)
    <3>1. IsPrefix(w, t)
      BY <1>1, <1>3, <2>5, <2>7, BehindDirectory
    <3> HIDE DEF dir, t
    <3>2. /\ w \in Seq(Letter) /\ Len(w) = n + 1 /\ \A j \in 1 .. n : w[j] = dir[j]
      BY <2>7, BehindSeparator
    <3> HIDE DEF w
    <3>3. Starts(w, t)
      BY <1>3, <3>1, <3>2, PrefixPoints
    <3>4. Len(w) <= Len(t) /\ \A j \in 1 .. Len(w) : t[j] = w[j]
      BY <3>3 DEF Starts
    <3> HIDE DEF n
    <3>5. n \in Nat /\ n < Len(t) /\ \A j \in 1 .. n : t[j] = dir[j]
      BY <1>3, <2>7, <3>2, <3>4
    <3> QED BY <1>3, <3>5 DEF Starts, n
  <2>9. dir = SubSeq(t, 1, n) /\ n \in 1 .. Len(t) - 1
    <3> HIDE DEF dir, t
    <3>1. dir = SubSeq(t, 1, n)
      BY <1>3, <2>7, <2>8, PartOf
    <3> QED BY <1>3, <2>7, <2>8, <3>1
  <2>10. Below(dir, PathOf(r)) /\ Below(t, dir)
    BY <1>1, <2>5, <2>6, BelowPath
  <2>11. IsUnder(dir, PathOf(e))
    BY <2>1, <2>2, <2>5, <2>6, UnderPath
  <2> HIDE DEF dir, t, n, w
  <2>12. dir \in DirectoriesTo(t, PathOf(r))
    BY <2>9, <2>10, Zenon DEF DirectoriesTo
  <2>13. Skipped(dir, cfg)
    <3>1. PathOf(e) \in cfg.excluded
      BY <1>2, <2>1 DEF PathsOf
    <3> QED BY <2>11, <3>1 DEF Skipped
  <2> QED BY <1>4, <2>12, <2>13
<1> QED BY <1>5, <1>6

\* The text of the names behind a directory.
BehindText(s, h, t, m) ==
  /\ Len(s[h + m]) = Len(s[h]) + Len(t[m])
  /\ \A j \in 1 .. Len(t[m]) : s[h + m][Len(s[h]) + j] = t[m][j]

\* Behind a directory, the texts of further names are as they are elsewhere.
LEMMA TextsBehind ==
  ASSUME NEW c \in Location, NEW h \in Nat, NEW tail \in Location, Len(c) = h + Len(tail),
         \A k \in 1 .. Len(tail) : c[h + k] = tail[k],
         NEW s, Spells(c, s), NEW t, Spells(tail, t)
  PROVE  \A m \in 0 .. Len(tail) : BehindText(s, h, t, m)
<1> DEFINE T == Len(tail)
           Good(m) == BehindText(s, h, t, m)
           Bad == {m \in 0 .. T : ~Good(m)}
<1>1. T \in Nat /\ h \in 0 .. Len(c) /\ Len(s[h]) \in Nat
  <2>1. T \in Nat /\ h \in 0 .. Len(c)
    BY LocationParts
  <2>2. Len(s[h]) \in Nat
    BY <2>1, TextStart
  <2> QED BY <2>1, <2>2
<1>2. SUFFICES ASSUME Bad # {} PROVE FALSE
  OBVIOUS
<1>3. Bad \in SUBSET Nat
  <2> HIDE DEF Good
  <2> QED BY <1>1
<1>4. PICK m \in Bad : \A l \in Bad : m <= l
  BY <1>2, <1>3, LeastNumber
<1>5. m # 0
  <2>1. h + 0 = h /\ Len(t[0]) = 0
    BY TextStart
  <2>2. Good(0)
    BY <1>1, <2>1 DEF BehindText
  <2> QED BY <1>4, <2>2
<1>6. m \in 1 .. T /\ m - 1 \in 0 .. T /\ m - 1 \notin Bad
  <2> HIDE DEF Good
  <2> QED BY <1>1, <1>4, <1>5
<1>7. Good(m - 1)
  BY <1>6
<1>8. Follows(t[m - 1], tail[m], t[m])
  BY <1>6, TextSteps
<1>9. Follows(s[h + (m - 1)], tail[m], s[h + m])
  <2> DEFINE n == h + m
  <2>1. n \in 1 .. Len(c) /\ n - 1 = h + (m - 1) /\ c[n] = tail[m]
    BY <1>1, <1>6
  <2>2. Follows(s[n - 1], c[n], s[n])
    <3> HIDE DEF n
    <3> QED BY <2>1, TextSteps
  <2> QED BY <2>1, <2>2
<1> DEFINE w  == tail[m]
           s0 == s[h + (m - 1)]
           s1 == s[h + m]
           t0 == t[m - 1]
           t1 == t[m]
           a  == Len(s[h])
           b  == Len(t0)
           l  == Len(w)
<1>10. a \in Nat /\ Len(s0) = a + b /\ \A j \in 1 .. b : s0[a + j] = t0[j]
  BY <1>1, <1>7 DEF BehindText
<1>11. Follows(t0, w, t1) /\ Follows(s0, w, s1)
  BY <1>8, <1>9
<1>12. Good(m) <=> Len(s1) = a + Len(t1) /\ \A j \in 1 .. Len(t1) : s1[a + j] = t1[j]
  BY DEF BehindText
<1> HIDE DEF w, s0, s1, t0, t1, Good
<1>13. /\ b \in Nat /\ l \in Nat /\ Len(t1) = b + 1 + l
       /\ (\A j \in 1 .. b : t1[j] = t0[j]) /\ t1[b + 1] = Separator
       /\ \A j \in 1 .. l : t1[b + 1 + j] = w[j]
  BY <1>11 DEF Follows
<1>14. /\ Len(s1) = a + b + 1 + l
       /\ (\A j \in 1 .. a + b : s1[j] = s0[j]) /\ s1[a + b + 1] = Separator
       /\ \A j \in 1 .. l : s1[a + b + 1 + j] = w[j]
  BY <1>10, <1>11 DEF Follows
<1> HIDE DEF a, b, l
<1>15. ASSUME NEW j \in 1 .. Len(t1) PROVE s1[a + j] = t1[j]
  <2>1a. a \in Nat /\ b \in Nat /\ l \in Nat /\ Len(t1) = b + 1 + l
    BY <1>10, <1>13
  <2>1. j \in Nat /\ j >= 1 /\ j <= b + 1 + l
    BY <2>1a
  <2>2. CASE j <= b
    <3>1. j \in 1 .. b /\ a + j \in 1 .. a + b
      BY <2>1a, <2>1, <2>2
    <3> QED BY <3>1, <1>10, <1>13, <1>14
  <2>3. CASE j = b + 1
    <3>1. a + j = a + b + 1
      BY <2>1a, <2>3
    <3> QED BY <3>1, <2>3, <1>13, <1>14
  <2>4. CASE j > b + 1
    <3> DEFINE k == j - (b + 1)
    <3>1. k \in 1 .. l /\ j = b + 1 + k /\ a + j = a + b + 1 + k
      BY <2>1a, <2>1, <2>4
    <3> HIDE DEF k
    <3> QED BY <3>1, <1>13, <1>14
  <2> QED BY <2>1a, <2>1, <2>2, <2>3, <2>4
<1>16. Len(s1) = a + Len(t1)
  BY <1>10, <1>13, <1>14
<1> QED BY <1>4, <1>12, <1>15, <1>16

\* A text goes on at place n with another.
Continues(t, n, u) == n + Len(u) <= Len(t) /\ \A j \in 1 .. Len(u) : t[n + j] = u[j]

\* A piece occurs in a text where the text continues with it.
LEMMA OccursPoints ==
  ASSUME NEW t \in Seq(Letter), NEW n \in 0 .. Len(t), NEW u \in Seq(Letter)
  PROVE  OccursAt(t, n, u) <=> Continues(t, n, u)
<1> DEFINE l == Len(u)
           o == SubSeq(t, n + 1, n + l)
<1>1. n \in Nat /\ l \in Nat /\ u \in [1 .. l -> Letter]
  BY LenProperties
<1>2. OccursAt(t, n, u) <=> n + l <= Len(t) /\ o = u
  BY Zenon DEF OccursAt
<1> HIDE DEF l
<1>3. o = [j \in 1 .. l |-> t[n + j]]
  <2> DEFINE a == n + 1
             z == n + l
  <2>1. a \in Nat /\ z \in Nat /\ 1 + z - a = l /\ \A j \in 1 .. l : a + j - 1 = n + j
    BY <1>1
  <2> HIDE DEF a, z
  <2>2. SubSeq(t, a, z) = [j \in 1 .. 1 + z - a |-> t[a + j - 1]]
    BY <2>1
  <2>3. SubSeq(t, a, z) = [j \in 1 .. l |-> t[n + j]]
    BY <2>1, <2>2
  <2> QED BY <2>3 DEF a, z
<1> HIDE DEF o
<1>4. u = [j \in 1 .. l |-> u[j]]
  BY <1>1
<1>5. o = u <=> \A j \in 1 .. l : t[n + j] = u[j]
  BY <1>3, <1>4
<1> QED BY <1>2, <1>5 DEF Continues, l

\* The location that tail leads to from g.
Appended(g, tail) ==
  [k \in 1 .. Len(g) + Len(tail) |-> IF k <= Len(g) THEN g[k] ELSE tail[k - Len(g)]]

\* That location has the names of both.
LEMMA Behind ==
  ASSUME NEW g \in Location, NEW tail \in Location
  PROVE  /\ Appended(g, tail) \in Location /\ Len(Appended(g, tail)) = Len(g) + Len(tail)
         /\ Heads(g, Appended(g, tail))
         /\ \A k \in 1 .. Len(tail) : Appended(g, tail)[Len(g) + k] = tail[k]
<1> DEFINE h == Len(g)
           m == Len(tail)
           c == [k \in 1 .. h + m |-> IF k <= h THEN g[k] ELSE tail[k - h]]
<1>1. h \in Nat /\ m \in Nat /\ g \in [1 .. h -> Entry] /\ tail \in [1 .. m -> Entry]
  BY LocationParts, LenProperties DEF Location
<1> HIDE DEF h, m
<1>2. c \in [1 .. h + m -> Entry] /\ h + m \in Nat
  <2>1. ASSUME NEW k \in 1 .. h + m PROVE c[k] \in Entry
    <3>1. CASE k <= h
      BY <1>1, <3>1
    <3>2. CASE ~(k <= h)
      <4>1. k - h \in 1 .. m
        BY <1>1, <3>2
      <4> QED BY <1>1, <3>2, <4>1
    <3> QED BY <3>1, <3>2
  <2> QED BY <1>1, <2>1
<1>3. (\A k \in 1 .. h : c[k] = g[k]) /\ \A k \in 1 .. m : c[h + k] = tail[k]
  <2>1. ASSUME NEW k \in 1 .. h PROVE c[k] = g[k]
    BY <1>1
  <2>2. ASSUME NEW k \in 1 .. m PROVE c[h + k] = tail[k]
    <3>1. h + k \in 1 .. h + m /\ ~(h + k <= h) /\ h + k - h = k
      BY <1>1
    <3> DEFINE l == h + k
    <3>2. l \in 1 .. h + m /\ ~(l <= h) /\ l - h = k
      BY <1>1, <3>1
    <3> HIDE DEF l
    <3>3. c[l] = tail[l - h]
      BY <3>2
    <3> QED BY <3>2, <3>3 DEF l
  <2> QED BY <2>1, <2>2
<1> HIDE DEF c
<1>4. c \in Seq(Entry) /\ Len(c) = h + m
  <2> DEFINE n == h + m
  <2>1. n \in Nat /\ c \in [1 .. n -> Entry]
    BY <1>2
  <2> HIDE DEF n
  <2>2. c \in Seq(Entry) /\ Len(c) = n
    BY <2>1
  <2> QED BY <2>2 DEF n
<1>5. Heads(g, c)
  BY <1>1, <1>3, <1>4 DEF Heads, h
<1>6. c = Appended(g, tail)
  BY DEF Appended, c, h, m
<1> QED BY <1>3, <1>4, <1>5, <1>6 DEF Location, h, m

\* Names behind a directory above a file go on in the file's path as they are spelled.
LEMMA PathContinues ==
  ASSUME NEW f \in Location, NEW h \in 1 .. Len(f), NEW tail \in Location, tail # <<>>
  PROVE  Continues(Spelled(f), Len(Spelled(SubSeq(f, 1, h))), Spelled(tail))
           <=> /\ Len(f) >= h + Len(tail)
               /\ \A k \in 1 .. Len(tail) - 1 : f[h + k] = tail[k]
               /\ Starts(tail[Len(tail)], f[h + Len(tail)])
<1> DEFINE g == SubSeq(f, 1, h)
           T == Len(tail)
           c == Appended(g, tail)
<1>1. h \in 0 .. Len(f) /\ Len(f) \in Nat /\ h \in Nat
  BY LocationParts
<1>2. g \in Location /\ Len(g) = h /\ Heads(g, f) /\ \A k \in 1 .. h : g[k] = f[k]
  BY <1>1, UpTo
<1> HIDE DEF g
<1>3. c \in Location /\ Len(c) = h + T /\ Heads(g, c) /\ \A k \in 1 .. T : c[h + k] = tail[k]
  BY <1>2, Behind
<1>4. T \in Nat \ {0} /\ Last(tail) = tail[T]
  BY NotRoot
<1> HIDE DEF c, T
<1>5. PICK s : Spells(c, s)
  BY <1>3, SpelledSteps DEF Spells
<1>6. PICK t : Spells(tail, t)
  BY SpelledSteps DEF Spells
<1> DEFINE x == Spelled(c)
           u == Spelled(tail)
           p == Spelled(g)
           y == Spelled(f)
<1>7. x = s[h + T] /\ u = t[T] /\ p = s[h]
  BY <1>2, <1>3, <1>5, <1>6, SpelledText DEF Spells, T
<1>8. /\ x \in Seq(Letter) /\ u \in Seq(Letter) /\ p \in Seq(Letter) /\ y \in Seq(Letter)
      /\ Len(x) \in Nat /\ Len(u) \in Nat /\ Len(p) \in Nat /\ Len(y) \in Nat
  BY <1>2, <1>3, SpelledIsText
<1>9. /\ Len(x) = Len(p) + Len(u)
      /\ \A j \in 1 .. Len(u) : x[Len(p) + j] = u[j]
  <2>1. \A m \in 0 .. Len(tail) : BehindText(s, h, t, m)
    <3>1. h \in Nat /\ Len(c) = h + Len(tail) /\ \A k \in 1 .. Len(tail) : c[h + k] = tail[k]
      BY <1>1, <1>3 DEF T
    <3> HIDE DEF x, u, p, y
    <3> QED BY <1>3, <1>5, <1>6, <3>1, TextsBehind
  <2>2. T \in 0 .. Len(tail)
    BY <1>4 DEF T
  <2>3. BehindText(s, h, t, T)
    BY <2>1, <2>2
  <2> HIDE DEF x, u, p, y
  <2> QED BY <1>7, <2>3 DEF BehindText
<1>10. \A j \in 1 .. Len(p) : x[j] = p[j]
  <2>1. h \in 0 .. Len(c) /\ h + T \in h .. Len(c)
    BY <1>1, <1>3, <1>4
  <2>2. \A j \in 1 .. Len(s[h]) : s[h + T][j] = s[h][j]
    BY <1>3, <1>5, <2>1, TextGrows
  <2> QED BY <1>7, <2>2
<1>11. Starts(p, y)
  <2>1. PICK r : Spells(f, r)
    BY SpelledSteps DEF Spells
  <2>2. p = r[h] /\ y = r[Len(f)]
    BY <1>2, <2>1, SpelledText DEF Spells
  <2>3. Len(f) \in h .. Len(f)
    BY <1>1
  <2>4. Len(r[h]) <= Len(r[Len(f)]) /\ \A j \in 1 .. Len(r[h]) : r[Len(f)][j] = r[h][j]
    BY <1>1, <2>1, <2>3, TextGrows
  <2> QED BY <1>8, <2>2, <2>4 DEF Starts
<1>12. IsPrefix(x, y) <=> Leads(Front(c), Last(c), f)
  <2>1. Len(c) # 0
    BY <1>1, <1>3, <1>4
  <2>2. c # <<>>
    BY <2>1, EmptySeq
  <2>3. Front(c) \in Location /\ Last(c) \in Word /\ x = Join(Spelled(Front(c)), Last(c))
    BY <1>3, <2>2, NotRoot
  <2>4. IsPrefix(Join(Spelled(Front(c)), Last(c)), y) <=> Leads(Front(c), Last(c), f)
    BY <2>3, TextBegins
  <2> QED BY <2>3, <2>4
<1>13. Leads(Front(c), Last(c), f)
         <=> /\ Len(f) >= h + T
             /\ \A k \in 1 .. T - 1 : f[h + k] = tail[k]
             /\ Starts(tail[T], f[h + T])
  <2>1. Len(c) # 0
    BY <1>1, <1>3, <1>4
  <2>2. c # <<>>
    BY <2>1, EmptySeq
  <2>3. /\ Len(Front(c)) = h + T - 1 /\ \A k \in 1 .. h + T - 1 : Front(c)[k] = c[k]
        /\ Last(c) = c[h + T]
    <3>1. /\ Len(Front(c)) = Len(c) - 1 /\ \A k \in 1 .. Len(c) - 1 : Front(c)[k] = c[k]
          /\ Last(c) = c[Len(c)]
      BY <1>3, <2>2, NotRoot
    <3> DEFINE l == Len(c)
               v == Front(c)
    <3>2. l = h + T /\ Len(v) = l - 1 /\ (\A k \in 1 .. l - 1 : v[k] = c[k]) /\ Last(c) = c[l]
      BY <1>3, <3>1
    <3> HIDE DEF l, v
    <3>3. Len(v) = h + T - 1 /\ (\A k \in 1 .. h + T - 1 : v[k] = c[k]) /\ Last(c) = c[h + T]
      BY <1>1, <1>4, <3>2
    <3> QED BY <3>3 DEF v
  <2>4. Last(c) = tail[T] /\ h + T - 1 + 1 = h + T
    BY <1>1, <1>3, <1>4, <2>3
  <2>5. Leads(Front(c), Last(c), f)
          <=> /\ h + T - 1 < Len(f)
              /\ \A k \in 1 .. h + T - 1 : Front(c)[k] = f[k]
              /\ Starts(tail[T], f[h + T])
    BY <2>3, <2>4 DEF Leads
  <2>6. h + T - 1 < Len(f) <=> Len(f) >= h + T
    BY <1>1, <1>4
  <2>7. \A k \in 1 .. h : c[k] = f[k]
    <3>1. \A k \in 1 .. h : c[k] = g[k]
      BY <1>2, <1>3 DEF Heads
    <3> QED BY <1>2, <3>1
  <2>8. (\A k \in 1 .. h + T - 1 : Front(c)[k] = f[k]) <=> \A k \in 1 .. T - 1 : f[h + k] = tail[k]
    <3>1. (\A k \in 1 .. h + T - 1 : Front(c)[k] = f[k]) <=> \A k \in 1 .. h + T - 1 : c[k] = f[k]
      BY <2>3
    <3>2. ASSUME \A k \in 1 .. h + T - 1 : c[k] = f[k], NEW k \in 1 .. T - 1
          PROVE  f[h + k] = tail[k]
      <4>1. h + k \in 1 .. h + T - 1 /\ k \in 1 .. T
        BY <1>1, <1>4
      <4> QED BY <1>3, <3>2, <4>1
    <3>3. ASSUME \A k \in 1 .. T - 1 : f[h + k] = tail[k], NEW k \in 1 .. h + T - 1
          PROVE  c[k] = f[k]
      <4>1. CASE k <= h
        BY <1>1, <2>7, <4>1
      <4>2. CASE ~(k <= h)
        <5> DEFINE i == k - h
        <5>1. i \in 1 .. T - 1 /\ i \in 1 .. T /\ k = h + i
          BY <1>1, <1>4, <4>2
        <5> HIDE DEF i
        <5> QED BY <1>3, <3>3, <5>1
      <4> QED BY <4>1, <4>2
    <3> QED BY <3>1, <3>2, <3>3
  <2> QED BY <2>5, <2>6, <2>8
<1>14. IsPrefix(x, y) <=> Starts(x, y)
  <2> HIDE DEF x, y
  <2> QED BY <1>8, PrefixPoints
<1> DEFINE lx == Len(x)
           lu == Len(u)
           lp == Len(p)
           ly == Len(y)
<1>15. Starts(x, y) <=> lx <= ly /\ \A j \in 1 .. lx : y[j] = x[j]
  BY <1>8 DEF Starts
<1>16. Continues(y, lp, u) <=> lp + lu <= ly /\ \A j \in 1 .. lu : y[lp + j] = u[j]
  BY DEF Continues
<1>17. /\ lx \in Nat /\ lu \in Nat /\ lp \in Nat /\ ly \in Nat /\ lx = lp + lu
       /\ (\A j \in 1 .. lu : x[lp + j] = u[j]) /\ (\A j \in 1 .. lp : x[j] = p[j])
  BY <1>8, <1>9, <1>10
<1>18. \A j \in 1 .. lp : y[j] = p[j]
  BY <1>11 DEF Starts
<1> HIDE DEF x, u, p, y, lx, lu, lp, ly
<1>19. Starts(x, y) <=> Continues(y, lp, u)
  <2>1. ASSUME \A j \in 1 .. lx : y[j] = x[j], NEW j \in 1 .. lu PROVE y[lp + j] = u[j]
    <3>1. lp + j \in 1 .. lx
      BY <1>17
    <3> QED BY <1>17, <2>1, <3>1
  <2>2. ASSUME \A j \in 1 .. lu : y[lp + j] = u[j], NEW j \in 1 .. lx PROVE y[j] = x[j]
    <3>1. CASE j <= lp
      BY <1>17, <1>18, <3>1
    <3>2. CASE ~(j <= lp)
      <4> DEFINE i == j - lp
      <4>1. i \in 1 .. lu /\ j = lp + i
        BY <1>17, <3>2
      <4> HIDE DEF i
      <4> QED BY <1>17, <2>2, <4>1
    <3> QED BY <3>1, <3>2
  <2> QED BY <1>15, <1>16, <1>17, <2>1, <2>2
<1>20. Continues(y, lp, u) <=> /\ Len(f) >= h + T
                               /\ \A k \in 1 .. T - 1 : f[h + k] = tail[k]
                               /\ Starts(tail[T], f[h + T])
  BY <1>12, <1>13, <1>14, <1>19
<1> QED BY <1>20 DEF y, lp, p, u, g, T

\* What comes before the next separator of a text.
LEMMA FoundBehindWord ==
  ASSUME NEW rest \in Seq(Letter), NEW after \in Seq(Letter), NEW q \in 0 .. Len(rest),
         Len(after) >= 1, after[1] = Separator,
         \A j \in 1 .. q : rest[j] # Separator,
         q < Len(rest) => rest[q + 1] = Separator
  PROVE  (\E n \in 1 .. Len(rest) :
            /\ OccursAt(rest, n, after)
            /\ \A m \in 0 .. n - 1 : ~OccursAt(rest, m, after) /\ rest[m + 1] # Separator)
         <=> q # 0 /\ Continues(rest, q, after)
<1> DEFINE l == Len(rest)
           a == Len(after)
<1>1. l \in Nat /\ a \in Nat /\ a >= 1 /\ q \in 0 .. l /\ (q < l => rest[q + 1] = Separator)
  BY LenProperties
<1>2. ASSUME NEW n \in 0 .. l
      PROVE  /\ OccursAt(rest, n, after) <=> Continues(rest, n, after)
             /\ Continues(rest, n, after) => n + 1 <= l /\ rest[n + 1] = Separator
  <2>1. OccursAt(rest, n, after) <=> Continues(rest, n, after)
    BY OccursPoints
  <2>2. Continues(rest, n, after) <=> n + a <= l /\ \A j \in 1 .. a : rest[n + j] = after[j]
    BY DEF Continues
  <2>3. 1 \in 1 .. a
    BY <1>1
  <2> HIDE DEF l, a
  <2> QED BY <1>1, <2>1, <2>2, <2>3
<1> HIDE DEF l, a
<1>3. ASSUME NEW n \in 1 .. l, OccursAt(rest, n, after),
             \A m \in 0 .. n - 1 : rest[m + 1] # Separator
      PROVE  q # 0 /\ Continues(rest, q, after)
  <2>1. Continues(rest, n, after) /\ n + 1 <= l /\ rest[n + 1] = Separator
    BY <1>1, <1>2, <1>3
  <2>2. ~(n < q)
    <3>1. n < q => n + 1 \in 1 .. q
      BY <1>1
    <3> QED BY <2>1, <3>1
  <2>3. ~(q < n)
    <3>1. q < n => q \in 0 .. n - 1 /\ q < l
      BY <1>1
    <3> QED BY <1>1, <1>3, <3>1
  <2>4. n = q
    BY <1>1, <2>2, <2>3
  <2> QED BY <1>1, <2>1, <2>4
<1>4. ASSUME q # 0, Continues(rest, q, after)
      PROVE  \E n \in 1 .. l :
               /\ OccursAt(rest, n, after)
               /\ \A m \in 0 .. n - 1 : ~OccursAt(rest, m, after) /\ rest[m + 1] # Separator
  <2>1. q \in 1 .. l /\ OccursAt(rest, q, after)
    BY <1>1, <1>2, <1>4
  <2>2. ASSUME NEW m \in 0 .. q - 1 PROVE ~OccursAt(rest, m, after) /\ rest[m + 1] # Separator
    <3>1. m + 1 \in 1 .. q /\ m \in 0 .. l
      BY <1>1
    <3>2. rest[m + 1] # Separator
      BY <3>1
    <3> QED BY <1>2, <3>1, <3>2
  <2> QED BY <2>1, <2>2
<1> QED BY <1>3, <1>4 DEF l

\* The part of a text behind a place.
LEMMA RestOf ==
  ASSUME NEW t \in Seq(Letter), NEW p \in 0 .. Len(t)
  PROVE  /\ SubSeq(t, p + 1, Len(t)) \in Seq(Letter) /\ Len(SubSeq(t, p + 1, Len(t))) = Len(t) - p
         /\ \A j \in 1 .. Len(t) - p : SubSeq(t, p + 1, Len(t))[j] = t[p + j]
<1> DEFINE m == Len(t)
           a == p + 1
           k == m - p
           s == SubSeq(t, a, m)
<1>1. m \in Nat /\ p \in Nat /\ p <= m /\ t \in [1 .. m -> Letter]
  BY LenProperties
<1>2. a \in Nat /\ 1 + m - a = k /\ k \in Nat /\ \A j \in 1 .. k : a + j - 1 = p + j /\ p + j \in 1 .. m
  BY <1>1
<1> HIDE DEF m, a, k
<1>3. s = [j \in 1 .. 1 + m - a |-> t[a + j - 1]]
  BY <1>1, <1>2
<1>4. s = [j \in 1 .. k |-> t[p + j]]
  BY <1>2, <1>3
<1>5. s \in [1 .. k -> Letter]
  BY <1>1, <1>2, <1>4
<1> HIDE DEF s
<1>6. s \in Seq(Letter) /\ Len(s) = k
  BY <1>2, <1>5
<1> QED BY <1>4, <1>6 DEF s, m, a, k

\* A text continues behind a place as its rest does.
LEMMA ContinuesRest ==
  ASSUME NEW t \in Seq(Letter), NEW p \in 0 .. Len(t), NEW n \in Nat, NEW u \in Seq(Letter)
  PROVE  Continues(SubSeq(t, p + 1, Len(t)), n, u) <=> Continues(t, p + n, u)
<1> DEFINE m == Len(t)
           l == Len(u)
           s == SubSeq(t, p + 1, m)
<1>1. m \in Nat /\ p \in Nat /\ p <= m /\ l \in Nat
  BY LenProperties
<1>2. Len(s) = m - p /\ \A j \in 1 .. m - p : s[j] = t[p + j]
  BY RestOf
<1> HIDE DEF s
<1>3. Continues(s, n, u) <=> n + l <= m - p /\ \A j \in 1 .. l : s[n + j] = u[j]
  BY <1>2 DEF Continues
<1>4. Continues(t, p + n, u) <=> p + n + l <= m /\ \A j \in 1 .. l : t[p + n + j] = u[j]
  BY DEF Continues
<1> HIDE DEF m, l
<1>5. n + l <= m - p <=> p + n + l <= m
  BY <1>1
<1>6. ASSUME n + l <= m - p, NEW j \in 1 .. l PROVE s[n + j] = t[p + n + j]
  <2>1. n + j \in 1 .. m - p /\ p + (n + j) = p + n + j
    BY <1>1, <1>6
  <2> QED BY <1>2, <2>1
<1> QED BY <1>3, <1>4, <1>5, <1>6 DEF s, m

\* A word that begins another and is not it is shorter.
LEMMA ShorterWord ==
  ASSUME NEW s \in Seq(Letter), NEW t \in Seq(Letter), Starts(s, t)
  PROVE  s # t <=> Len(s) < Len(t)
<1> DEFINE n == Len(s)
           m == Len(t)
<1>1. n \in Nat /\ m \in Nat /\ n <= m /\ (\A j \in 1 .. n : t[j] = s[j])
  BY DEF Starts
<1>2. s \in [1 .. n -> Letter] /\ t \in [1 .. m -> Letter]
  BY LenProperties
<1> HIDE DEF n, m
<1>3. ASSUME n = m PROVE s = t
  <2>1. s = [j \in 1 .. n |-> s[j]] /\ t = [j \in 1 .. n |-> t[j]]
    BY <1>2, <1>3
  <2> QED BY <1>1, <2>1
<1>4. s = t => n = m
  BY DEF n, m
<1> QED BY <1>1, <1>3, <1>4 DEF n, m

\* The names in the middle of a data directory.
LEMMA TailNames ==
  ASSUME NEW f \in Location, NEW h \in Nat, NEW tail \in Location, tail # <<>>, Len(f) > h + Len(tail)
  PROVE  SubSeq(f, h + 2, h + Len(tail)) = SubSeq(tail, 1, Len(tail) - 1)
           <=> \A k \in 1 .. Len(tail) - 1 : f[h + 1 + k] = tail[k]
<1> DEFINE t == Len(tail)
           n == t - 1
           a == h + 2
           z == h + t
<1>1. t \in Nat \ {0}
  BY NotRoot
<1>2. n \in Nat /\ a \in Nat /\ z \in Nat /\ 1 + z - a = n /\ 1 + n - 1 = n
      /\ (\A k \in 1 .. n : a + k - 1 = h + 1 + k) /\ (\A k \in 1 .. n : 1 + k - 1 = k)
  BY <1>1
<1> HIDE DEF t, n, a, z
<1>3. SubSeq(f, a, z) = [k \in 1 .. 1 + z - a |-> f[a + k - 1]]
  BY <1>2
<1>4. SubSeq(f, a, z) = [k \in 1 .. n |-> f[h + 1 + k]]
  BY <1>2, <1>3
<1>5. SubSeq(tail, 1, n) = [k \in 1 .. n |-> tail[k]]
  BY <1>2
<1>6. SubSeq(f, a, z) = SubSeq(tail, 1, n) <=> \A k \in 1 .. n : f[h + 1 + k] = tail[k]
  BY <1>4, <1>5
<1> QED BY <1>6 DEF a, z, n, t

\* The pattern of data directories matches a path when the names do: the text of
\* {repo-name} is what is left of one name, up to the next separator.
LEMMA DataDirectory ==
  ASSUME NEW i, IsScan(i), NEW f \in Location, f # <<>>
  PROVE  MatchesDotdirPattern(PathOf(f), ScanConfig(i).dotdir) <=> InDataDirectory(i, f)
<1> DEFINE y      == Spelled(f)
           home   == i.home
           dot    == i.dot
           tail   == i.tail
           h      == Len(home)
           t      == Len(tail)
           before == Join(Spelled(home), dot)
           after  == Spelled(tail)
           lb     == Len(before)
           rest   == SubSeq(y, lb + 1, Len(y))
           e      == f[h + 1]
           Found  == \E n \in 1 .. Len(rest) :
                       /\ OccursAt(rest, n, after)
                       /\ \A m \in 0 .. n - 1 : ~OccursAt(rest, m, after) /\ rest[m + 1] # Separator
<1>1. home \in Location /\ dot \in Word /\ tail \in Location
  BY DEF IsScan, Word
<1>2. PathOf(f) = y /\ Len(f) \in Nat \ {0}
  BY NotRoot
<1>3. MatchesDotdirPattern(PathOf(f), ScanConfig(i).dotdir) <=> IsPrefix(before, y) /\ (after = <<>> \/ Found)
  <2> DEFINE p == ScanConfig(i).dotdir
  <2>1. p.before = before /\ p.after = after
    BY DEF ScanConfig
  <2> HIDE DEF p, before, after, y
  <2>2. MatchesDotdirPattern(y, p) <=>
          /\ IsPrefix(p.before, y)
          /\ p.after = <<>>
             \/ \E n \in 1 .. Len(SubSeq(y, Len(p.before) + 1, Len(y))) :
                  /\ OccursAt(SubSeq(y, Len(p.before) + 1, Len(y)), n, p.after)
                  /\ \A m \in 0 .. n - 1 :
                       /\ ~OccursAt(SubSeq(y, Len(p.before) + 1, Len(y)), m, p.after)
                       /\ SubSeq(y, Len(p.before) + 1, Len(y))[m + 1] # Separator
    BY Zenon DEF MatchesDotdirPattern
  <2> QED BY <1>2, <2>1, <2>2, Zenon DEF p
<1>4. h \in Nat /\ t \in Nat /\ dot \in Seq(Letter) /\ Len(dot) \in Nat
  BY <1>1, LocationParts, WordParts
<1>5. IsPrefix(before, y) <=> Leads(home, dot, f)
  BY <1>1, TextBegins
<1>6. Len(f) > h => e \in Seq(Letter) /\ Len(e) \in Nat \ {0} /\ \A j \in 1 .. Len(e) : e[j] # Separator
  <2>1. SUFFICES ASSUME Len(f) > h
                 PROVE  e \in Seq(Letter) /\ Len(e) \in Nat \ {0} /\ \A j \in 1 .. Len(e) : e[j] # Separator
    OBVIOUS
  <2>2. h + 1 \in 1 .. Len(f)
    BY <1>2, <1>4, <2>1
  <2> QED BY <2>2, LocationParts
<1>7. Leads(home, dot, f) <=> IsPrefix(home, f) /\ Len(f) > h /\ IsPrefix(dot, e)
  <2>1. IsPrefix(home, f) <=> Heads(home, f)
    BY <1>1, PrefixHeads
  <2>2. Len(f) > h => (IsPrefix(dot, e) <=> Starts(dot, e))
    <3> HIDE DEF e
    <3> QED BY <1>4, <1>6, PrefixPoints
  <2>3. h < Len(f) <=> Len(f) > h
    BY <1>2, <1>4
  <2>4. h < Len(f) => h <= Len(f)
    BY <1>2, <1>4
  <2> QED BY <2>1, <2>2, <2>3, <2>4, <1>2, <1>4 DEF Leads, Heads
<1>8. tail = <<>> <=> after = <<>>
  <2>1. CASE tail = <<>>
    <3>1. PICK s : Spells(tail, s)
      BY <1>1, SpelledSteps DEF Spells
    <3>2. t = 0
      BY <2>1, EmptySeq
    <3>3. after = s[t] /\ s[0] = <<>>
      BY <1>1, <3>1, TextStart DEF Spells
    <3> QED BY <2>1, <3>2, <3>3
  <2>2. CASE tail # <<>>
    <3>1. Len(after) >= 2
      BY <1>1, <2>2, FilePath, NotRoot
    <3> HIDE DEF after
    <3>2. Len(<<>>) = 0
      BY EmptySeq
    <3> QED BY <2>2, <3>1, <3>2
  <2> QED BY <2>1, <2>2
<1>9. InDataDirectory(i, f) <=>
        /\ IsPrefix(home, f) /\ Len(f) > h /\ IsPrefix(dot, e)
        /\ tail # <<>> => /\ e # dot /\ Len(f) > h + t
                          /\ SubSeq(f, h + 2, h + t) = SubSeq(tail, 1, t - 1)
                          /\ IsPrefix(tail[t], f[h + t + 1])
  BY Zenon DEF InDataDirectory
<1>10. ASSUME tail # <<>>, Leads(home, dot, f)
       PROVE  Found <=> /\ e # dot /\ Len(f) > h + t
                        /\ SubSeq(f, h + 2, h + t) = SubSeq(tail, 1, t - 1)
                        /\ IsPrefix(tail[t], f[h + t + 1])
  <2> DEFINE g  == SubSeq(f, 1, h + 1)
             lg == Len(Spelled(g))
             q  == Len(e) - Len(dot)
  <2>1. h + 1 \in 1 .. Len(f) /\ h + 1 \in 0 .. Len(f) /\ Starts(dot, e) /\ h < Len(f)
        /\ \A k \in 1 .. h : home[k] = f[k]
    BY <1>2, <1>4, <1>10 DEF Leads
  <2>2. e \in Seq(Letter) /\ Len(e) \in Nat \ {0} /\ \A j \in 1 .. Len(e) : e[j] # Separator
    BY <1>2, <1>4, <1>6, <2>1
  <2>3. g \in Location /\ Len(g) = h + 1 /\ Heads(g, f) /\ \A k \in 1 .. h + 1 : g[k] = f[k]
    BY <2>1, UpTo
  <2> HIDE DEF g
  <2>4. Spelled(g) = Join(Spelled(home), e)
    <3>1. Heads(home, g)
      BY <1>4, <2>1, <2>3 DEF Heads
    <3>2. g[Len(g)] = e
      <4>1. h + 1 \in 1 .. h + 1
        BY <1>4
      <4> QED BY <2>3, <4>1
    <3>3. Spelled(g) = Join(Spelled(home), g[Len(g)])
      BY <1>1, <2>3, <3>1, SpelledNext
    <3> QED BY <3>2, <3>3
  <2>5. Follows(Spelled(home), e, Spelled(g)) /\ Follows(Spelled(home), dot, before)
    <3>1. Spelled(home) \in Seq(Letter)
      BY <1>1, SpelledIsText
    <3>2. Follows(Spelled(home), e, Join(Spelled(home), e))
      BY <2>2, <3>1, JoinFollows
    <3>3. Follows(Spelled(home), dot, Join(Spelled(home), dot))
      BY <1>4, <3>1, JoinFollows
    <3> QED BY <2>4, <3>2, <3>3
  <2>6. y \in Seq(Letter) /\ Len(y) \in Nat /\ after \in Seq(Letter) /\ Len(after) >= 2 /\ after[1] = Separator
    BY <1>1, <1>10, SpelledIsText, FilePath, NotRoot
  <2>7. Starts(Spelled(g), y)
    <3>1. PICK r : Spells(f, r)
      BY SpelledSteps DEF Spells
    <3>2. Spelled(g) = r[h + 1] /\ y = r[Len(f)]
      BY <2>3, <3>1, SpelledText DEF Spells
    <3>3. Len(f) \in h + 1 .. Len(f) /\ Len(f) \in 0 .. Len(f)
      BY <1>2, <2>1
    <3>4. Len(r[h + 1]) <= Len(r[Len(f)]) /\ \A j \in 1 .. Len(r[h + 1]) : r[Len(f)][j] = r[h + 1][j]
      BY <2>1, <3>1, <3>3, TextGrows
    <3>5. Len(r[h + 1]) \in Nat
      BY <2>1, <3>1, TextStart
    <3> HIDE DEF y
    <3> QED BY <2>6, <3>2, <3>4, <3>5 DEF Starts
  <2>8. lg < Len(y) => y[lg + 1] = Separator
    <3>1. SUFFICES ASSUME lg < Len(y) PROVE y[lg + 1] = Separator
      OBVIOUS
    <3>2. Len(g) < Len(f)
      <4>1. SUFFICES ASSUME ~(Len(g) < Len(f)) PROVE FALSE
        OBVIOUS
      <4>2. Len(g) = Len(f) /\ Heads(f, g)
        BY <1>2, <2>1, <2>3, <4>1 DEF Heads
      <4>3. PICK s : Spells(g, s)
        BY <2>3, SpelledSteps DEF Spells
      <4>4. y = s[Len(f)]
        BY <2>3, <4>2, <4>3, SpelledText
      <4>5. Spelled(g) = s[Len(g)]
        BY <4>3 DEF Spells
      <4>6. y = Spelled(g)
        BY <4>2, <4>4, <4>5
      <4> HIDE DEF y
      <4> QED BY <2>6, <3>1, <4>6
    <3>3. IsPrefix(Spelled(g) \o <<Separator>>, y)
      BY <2>3, <3>2, BehindDirectory
    <3> DEFINE v == Spelled(g)
               w == v \o <<Separator>>
    <3>4. v \in Seq(Letter)
      BY <2>3, SpelledIsText
    <3> HIDE DEF v, y
    <3>5. w \in Seq(Letter) /\ Len(v) \in Nat /\ Len(w) = Len(v) + 1 /\ w[Len(v) + 1] = Separator
      BY <3>4, BehindSeparator
    <3>6. IsPrefix(w, y)
      BY <3>3 DEF v
    <3> HIDE DEF w
    <3>7. Starts(w, y)
      BY <2>6, <3>5, <3>6, PrefixPoints
    <3>8. y[Len(v) + 1] = w[Len(v) + 1]
      <4>1. Len(v) + 1 \in 1 .. Len(w)
        BY <3>5
      <4> QED BY <3>7, <4>1 DEF Starts
    <3> QED BY <3>5, <3>8 DEF v
  <2> HIDE DEF y, before, after
  <2> DEFINE ls == Len(Spelled(home))
             le == Len(e)
             ld == Len(dot)
             v  == Spelled(g)
  <2>9. /\ ls \in Nat /\ le \in Nat /\ ld \in Nat /\ ld <= le /\ lb = ls + 1 + ld /\ lg = ls + 1 + le
        /\ lg <= Len(y) /\ Len(y) \in Nat
        /\ (\A j \in 1 .. le : v[ls + 1 + j] = e[j])
        /\ (\A j \in 1 .. lg : y[j] = v[j])
    <3>1. Follows(Spelled(home), e, v) /\ Follows(Spelled(home), dot, before)
      BY <2>5
    <3>2. Starts(v, y) /\ Starts(dot, e)
      BY <2>1, <2>7
    <3> HIDE DEF v, e
    <3> DEFINE w == Spelled(home)
    <3>3. Follows(w, e, v) /\ Follows(w, dot, before)
      BY <3>1
    <3> HIDE DEF w, dot
    <3>4. /\ Len(w) \in Nat /\ Len(e) \in Nat /\ Len(v) = Len(w) + 1 + Len(e)
          /\ \A j \in 1 .. Len(e) : v[Len(w) + 1 + j] = e[j]
      BY <3>3 DEF Follows
    <3>5. Len(dot) \in Nat /\ Len(before) = Len(w) + 1 + Len(dot)
      BY <3>3 DEF Follows
    <3>6. Len(v) <= Len(y) /\ (\A j \in 1 .. Len(v) : y[j] = v[j]) /\ Len(dot) <= Len(e)
      BY <3>2 DEF Starts
    <3> QED BY <2>6, <3>4, <3>5, <3>6 DEF w, v
  <2>10. \A j \in 1 .. le : e[j] # Separator
    BY <2>2
  <2>11. q = le - ld
    OBVIOUS
  <2> HIDE DEF ls, le, ld, v, lb, lg, e, q
  <2>12. q \in Nat /\ lb + q = lg /\ lb \in 0 .. Len(y) /\ q <= Len(y) - lb /\ lg \in Nat /\ lb \in Nat
    BY <2>9, <2>11
  <2>13. rest \in Seq(Letter) /\ Len(rest) = Len(y) - lb /\ \A j \in 1 .. Len(y) - lb : rest[j] = y[lb + j]
    BY <2>6, <2>12, RestOf
  <2>14. \A n \in Nat : Continues(rest, n, after) <=> Continues(y, lb + n, after)
    BY <2>6, <2>12, ContinuesRest
  <2> HIDE DEF rest
  <2>15. ASSUME NEW j \in 1 .. q PROVE rest[j] # Separator
    <3> DEFINE k == ld + j
    <3>1. j \in 1 .. Len(y) - lb /\ k \in 1 .. le /\ lb + j = ls + 1 + k /\ lb + j \in 1 .. lg
      BY <2>9, <2>11, <2>12
    <3> HIDE DEF k
    <3>2. rest[j] = y[lb + j] /\ y[lb + j] = v[lb + j] /\ v[lb + j] = e[k] /\ e[k] # Separator
      BY <2>9, <2>10, <2>13, <3>1
    <3> QED BY <3>2
  <2>16. q < Len(rest) => rest[q + 1] = Separator
    <3>1. SUFFICES ASSUME q < Len(rest) PROVE rest[q + 1] = Separator
      OBVIOUS
    <3>2. q + 1 \in 1 .. Len(y) - lb /\ lb + (q + 1) = lg + 1 /\ lg < Len(y)
      <4> DEFINE ly == Len(y)
      <4>1. ly \in Nat /\ q < ly - lb
        BY <2>9, <2>13, <3>1
      <4> HIDE DEF ly
      <4>2. q + 1 \in 1 .. ly - lb /\ lb + (q + 1) = lg + 1 /\ lg < ly
        BY <2>12, <4>1
      <4> QED BY <4>2 DEF ly
    <3>3. rest[q + 1] = y[lb + (q + 1)]
      BY <2>13, <3>2
    <3> QED BY <2>8, <3>2, <3>3
  <2>17. Found <=> q # 0 /\ Continues(rest, q, after)
    <3>1. q \in 0 .. Len(rest) /\ Len(after) >= 1
      BY <2>6, <2>9, <2>12, <2>13, LenProperties
    <3> QED BY <2>6, <2>13, <2>15, <2>16, <3>1, FoundBehindWord
  <2>18. Continues(rest, q, after) <=> Continues(y, lg, after)
    BY <2>12, <2>14
  <2>19. q # 0 <=> e # dot
    <3>1. dot # e <=> Len(dot) < Len(e)
      BY <1>4, <2>1, <2>2, ShorterWord
    <3>2. q # 0 <=> ld < le
      BY <2>9, <2>11
    <3> QED BY <3>1, <3>2 DEF ld, le
  <2>20. Continues(y, lg, after) <=> /\ Len(f) >= h + 1 + t
                                     /\ \A k \in 1 .. t - 1 : f[h + 1 + k] = tail[k]
                                     /\ Starts(tail[t], f[h + 1 + t])
    <3>1. Continues(Spelled(f), Len(Spelled(SubSeq(f, 1, h + 1))), Spelled(tail))
           <=> /\ Len(f) >= h + 1 + Len(tail)
               /\ \A k \in 1 .. Len(tail) - 1 : f[h + 1 + k] = tail[k]
               /\ Starts(tail[Len(tail)], f[h + 1 + Len(tail)])
      BY <1>1, <1>10, <2>1, PathContinues
    <3> QED BY <3>1 DEF y, lg, after, g
  <2>21. Len(f) >= h + 1 + t <=> Len(f) > h + t
    <3> DEFINE l == Len(f)
    <3>1. l \in Nat /\ h \in Nat /\ t \in Nat
      BY <1>2, <1>4
    <3> HIDE DEF l, h, t
    <3>2. l >= h + 1 + t <=> l > h + t
      BY <3>1
    <3> QED BY <3>2 DEF l
  <2>22. ASSUME Len(f) > h + t
         PROVE  /\ SubSeq(f, h + 2, h + t) = SubSeq(tail, 1, t - 1)
                     <=> \A k \in 1 .. t - 1 : f[h + 1 + k] = tail[k]
                /\ IsPrefix(tail[t], f[h + t + 1]) <=> Starts(tail[t], f[h + 1 + t])
    <3>1. SubSeq(f, h + 2, h + t) = SubSeq(tail, 1, t - 1) <=> \A k \in 1 .. t - 1 : f[h + 1 + k] = tail[k]
      BY <1>1, <1>4, <1>10, <2>22, TailNames
    <3>2. t \in Nat \ {0}
      BY <1>1, <1>10, NotRoot
    <3> DEFINE n == h + t + 1
    <3>3. t \in 1 .. t /\ n \in 1 .. Len(f) /\ h + 1 + t = n
      <4> DEFINE l == Len(f)
      <4>1. l \in Nat /\ h \in Nat /\ t \in Nat \ {0} /\ l > h + t
        BY <1>2, <1>4, <2>22, <3>2
      <4> HIDE DEF l, h, t
      <4>2. t \in 1 .. t /\ h + t + 1 \in 1 .. l /\ h + 1 + t = h + t + 1
        BY <4>1
      <4> QED BY <4>2 DEF l
    <3> HIDE DEF n
    <3>4. tail[t] \in Seq(Letter) /\ f[n] \in Seq(Letter)
      BY <1>1, <3>3, LocationParts
    <3>5. IsPrefix(tail[t], f[n]) <=> Starts(tail[t], f[n])
      BY <3>4, PrefixPoints
    <3> QED BY <3>1, <3>3, <3>5 DEF n
  <2> HIDE DEF Found
  <2> QED BY <2>17, <2>18, <2>19, <2>20, <2>21, <2>22
<1> HIDE DEF Found, before, after, home, dot, tail, h, t, e, y
<1> QED BY <1>3, <1>5, <1>7, <1>8, <1>9, <1>10

\* Min is the least element.
LEMMA LeastOf ==
  ASSUME NEW S, S \subseteq Nat, NEW n \in S, \A m \in S : n <= m
  PROVE  Min(S) = n
<1>1. \A x \in S : (\A y \in S : x <= y) => x = n
  <2>1. ASSUME NEW x \in S, \A y \in S : x <= y PROVE x = n
    <3>1. x <= n /\ n <= x /\ x \in Nat /\ n \in Nat
      BY <2>1
    <3> QED BY <3>1
  <2> QED BY <2>1
<1>2. n \in S /\ \A y \in S : n <= y
  OBVIOUS
<1> DEFINE least == Min(S)
<1>3. least = CHOOSE x \in S : \A y \in S : x <= y
  BY DEF Min
<1>4. least \in S /\ \A y \in S : least <= y
  <2>1. \E x \in S : \A y \in S : x <= y
    BY <1>2
  <2> QED BY <1>3, <2>1
<1> HIDE DEF least
<1>5. least = n
  BY <1>1, <1>4
<1> QED BY <1>5 DEF least

\* The priority is that of the first list with a directory above the file.
LEMMA PriorityIsFirst ==
  ASSUME NEW i, IsScan(i), NEW f \in Location, f # <<>>
  PROVE  ClassifyPriority(PathOf(f), ScanConfig(i)) = PriorityOf(i, f)
<1> DEFINE cfg  == ScanConfig(i)
           t    == PathOf(f)
           In(n) == Under(f, i.priorities[n])
           data == MatchesDotdirPattern(t, cfg.dotdir)
           lists == {n \in 1 .. 4 : PathWithinAnyRoot(t, cfg.priorities[n])} \cup (IF data THEN {4} ELSE {})
<1>1. ASSUME NEW n \in 1 .. 4 PROVE PathWithinAnyRoot(t, cfg.priorities[n]) <=> In(n)
  <2>1. i.priorities[n] \subseteq Location
    BY DEF IsScan
  <2>2. cfg.priorities[n] = PathsOf(i.priorities[n])
    <3>1. cfg.priorities = [m \in 1 .. 4 |-> PathsOf(i.priorities[m])]
      BY DEF ScanConfig
    <3> QED BY <3>1
  <2>3. PathWithinAnyRoot(t, PathsOf(i.priorities[n])) <=> Under(f, i.priorities[n])
    BY <2>1, UnderDirectories
  <2> QED BY <2>2, <2>3
<1>2. data <=> InDataDirectory(i, f)
  BY DataDirectory
<1>3. ClassifyPriority(t, cfg) = IF lists = {} THEN "other" ELSE PriorityOrder[Min(lists)]
  BY Zenon DEF ClassifyPriority
<1>4. PriorityOf(i, f) = IF In(1) THEN "docker" ELSE IF In(2) THEN "workspace"
                         ELSE IF In(3) THEN "copilot" ELSE IF In(4) \/ data THEN "app_data" ELSE "other"
  BY <1>2, Zenon DEF PriorityOf
<1>5. /\ lists \subseteq 1 .. 4
      /\ 1 \in lists <=> In(1)
      /\ 2 \in lists <=> In(2)
      /\ 3 \in lists <=> In(3)
      /\ 4 \in lists <=> In(4) \/ data
  <2> HIDE DEF In, data, cfg, t
  <2>1. lists = {n \in 1 .. 4 : In(n)} \cup (IF data THEN {4} ELSE {})
    BY <1>1
  <2> HIDE DEF lists
  <2> QED BY <2>1
<1> HIDE DEF In, data, cfg, t, lists
<1>6. /\ PriorityOrder[1] = "docker" /\ PriorityOrder[2] = "workspace"
      /\ PriorityOrder[3] = "copilot" /\ PriorityOrder[4] = "app_data"
  BY DEF PriorityOrder
<1>7. lists \subseteq Nat
  BY <1>5
<1>8. CASE 1 \in lists
  <2>1. \A m \in lists : 1 <= m
    BY <1>5
  <2>2. Min(lists) = 1
    BY <1>7, <1>8, <2>1, LeastOf
  <2> QED BY <1>3, <1>4, <1>5, <1>6, <1>8, <2>2 DEF cfg, t
<1>9. CASE 1 \notin lists /\ 2 \in lists
  <2>1. \A m \in lists : 2 <= m
    BY <1>5, <1>9
  <2>2. Min(lists) = 2
    BY <1>7, <1>9, <2>1, LeastOf
  <2> QED BY <1>3, <1>4, <1>5, <1>6, <1>9, <2>2 DEF cfg, t
<1>10. CASE 1 \notin lists /\ 2 \notin lists /\ 3 \in lists
  <2>1. \A m \in lists : 3 <= m
    BY <1>5, <1>10
  <2>2. Min(lists) = 3
    BY <1>7, <1>10, <2>1, LeastOf
  <2> QED BY <1>3, <1>4, <1>5, <1>6, <1>10, <2>2 DEF cfg, t
<1>11. CASE 1 \notin lists /\ 2 \notin lists /\ 3 \notin lists /\ 4 \in lists
  <2>1. \A m \in lists : 4 <= m
    BY <1>5, <1>11
  <2>2. Min(lists) = 4
    BY <1>7, <1>11, <2>1, LeastOf
  <2> QED BY <1>3, <1>4, <1>5, <1>6, <1>11, <2>2 DEF cfg, t
<1>12. CASE 1 \notin lists /\ 2 \notin lists /\ 3 \notin lists /\ 4 \notin lists
  <2>1. lists = {}
    BY <1>5, <1>12
  <2> QED BY <1>3, <1>4, <1>5, <1>12, <2>1 DEF cfg, t
<1> QED BY <1>8, <1>9, <1>10, <1>11, <1>12

\* A pattern matches a path when it begins some rest of it.
LEMMA PatternOccurs ==
  ASSUME NEW i, IsScan(i), NEW f \in Location, f # <<>>
  PROVE  Matches(PathOf(f), ScanConfig(i)) <=>
           \E pattern \in i.patterns, n \in 0 .. Len(PathOf(f)) :
             IsPrefix(pattern, SubSeq(PathOf(f), n + 1, Len(PathOf(f))))
<1> DEFINE t   == PathOf(f)
           cfg == ScanConfig(i)
<1>1. t \in Seq(Letter) /\ cfg.patterns = i.patterns /\ i.patterns \subseteq Seq(Letter)
  BY FilePath, ScanTexts
<1> HIDE DEF t
<1>2. Matches(t, cfg) <=> \E pattern \in i.patterns : \E n \in 0 .. Len(t) : OccursAt(t, n, pattern)
  <2>1. Matches(t, cfg) <=> \E pattern \in cfg.patterns : \E n \in 0 .. Len(t) : OccursAt(t, n, pattern)
    BY Zenon DEF Matches, MatchesExcludePattern
  <2> HIDE DEF cfg
  <2> QED BY <1>1, <2>1
<1>3. ASSUME NEW pattern \in i.patterns, NEW n \in 0 .. Len(t)
      PROVE  OccursAt(t, n, pattern) <=> IsPrefix(pattern, SubSeq(t, n + 1, Len(t)))
  <2>1. pattern \in Seq(Letter)
    BY <1>1
  <2> QED BY <1>1, <2>1, OccursBegins
<1>4. Matches(t, cfg) <=> \E pattern \in i.patterns, n \in 0 .. Len(t) :
                            IsPrefix(pattern, SubSeq(t, n + 1, Len(t)))
  <2> HIDE DEF cfg
  <2> QED BY <1>2, <1>3, Zenon
<1> QED BY <1>4 DEF t

\* What the walks find and accept are the files wanted.
LEMMA FoundIsWanted ==
  ASSUME NEW i, IsScan(i), <<>> \notin i.excluded, NEW f \in i.files
  PROVE  (\E r \in i.roots : /\ Walked(PathOf(f), PathOf(r), ScanConfig(i))
                             /\ Accepted(PathOf(f), PathsOf(i.valid), ScanConfig(i)))
         <=> f \in WantedFiles(i)
<1> DEFINE t   == PathOf(f)
           cfg == ScanConfig(i)
           clear == ~\E pattern \in i.patterns, n \in 0 .. Len(t) : IsPrefix(pattern, SubSeq(t, n + 1, Len(t)))
           above == Under(Front(f), i.excluded)
<1>1. f \in Location /\ f # <<>> /\ i.valid \subseteq i.files /\ i.files \subseteq Location \ {<<>>}
      /\ i.roots \subseteq Location
  BY DEF IsScan
<1>2. t \in PathsOf(i.valid) <=> f \in i.valid
  <2>1. ASSUME NEW g \in i.valid, t = PathOf(g) PROVE f \in i.valid
    <3>1. g \in Location /\ g # <<>>
      BY <1>1
    <3>2. f = g
      BY <1>1, <2>1, <3>1, PathTells
    <3> QED BY <3>2
  <2> HIDE DEF t
  <2>2. t \in PathsOf(i.valid) <=> \E g \in i.valid : t = PathOf(g)
    BY DEF PathsOf
  <2> QED BY <2>1, <2>2 DEF t
<1>3. Matches(t, cfg) <=> ~clear
  BY <1>1, PatternOccurs
<1>4. Last(t) = Last(Last(f)) /\ cfg.extensions = i.extensions
  BY <1>1, FilePath, ScanTexts
<1>5. Accepted(t, PathsOf(i.valid), cfg) <=> Last(Last(f)) \in i.extensions /\ clear /\ f \in i.valid
  <2> HIDE DEF t, cfg, clear
  <2> QED BY <1>2, <1>3, <1>4 DEF Accepted
<1>6. f \in WantedFiles(i) <=>
        /\ f \in i.valid /\ (\E r \in i.roots : IsPrefix(r, f)) /\ (f \in i.roots \/ ~above)
        /\ Last(Last(f)) \in i.extensions /\ clear
  BY Zenon DEF WantedFiles
<1>7. ASSUME NEW r \in i.roots, Walked(t, PathOf(r), cfg) PROVE IsPrefix(r, f) /\ (f \in i.roots \/ ~above)
  BY <1>7, WalkStops
<1>8. ASSUME clear, \E r \in i.roots : IsPrefix(r, f), f \in i.roots \/ ~above
      PROVE  \E r \in i.roots : Walked(t, PathOf(r), cfg)
  <2>1. CASE f \in i.roots
    <3>1. Walked(t, PathOf(f), cfg)
      BY <1>1, RootIsWalked
    <3> QED BY <2>1, <3>1
  <2>2. CASE ~above
    <3>1. PICK r \in i.roots : IsPrefix(r, f)
      BY <1>8
    <3>2. ~Matches(PathOf(f), ScanConfig(i))
      BY <1>3, <1>8
    <3>3. ~Under(Front(f), i.excluded)
      BY <2>2
    <3>4. Walked(PathOf(f), PathOf(r), ScanConfig(i))
      BY <3>1, <3>2, <3>3, WalkReaches
    <3> QED BY <3>4
  <2> QED BY <1>8, <2>1, <2>2
<1> HIDE DEF clear, above
<1> QED BY <1>5, <1>6, <1>7, <1>8

\* A scan of any of these directories lists the files wanted.
LEMMA ScanLists ==
  ASSUME input.rule = "scan", IsScan(input)
  PROVE  ScanListsWhatIsThere
<1> SUFFICES ASSUME <<>> \notin input.excluded PROVE ScanListsWhatIsThere
  BY Zenon DEF ScanListsWhatIsThere
<1> DEFINE cfg   == ScanConfig(input)
           valid == PathsOf(input.valid)
           files == PathsOf(input.files)
           roots == PathsOf(input.roots)
           Row(f) == [path |-> PathOf(f), priority |-> PriorityOf(input, f)]
           Reaches(r, f) == Walked(PathOf(f), PathOf(r), cfg) /\ Accepted(PathOf(f), valid, cfg)
           listed == ScanRoots(roots, files, valid, cfg)
           wanted == {Row(f) : f \in WantedFiles(input)}
<1>1. input.files \subseteq Location \ {<<>>} /\ input.roots \subseteq Location
  BY DEF IsScan
<1>2. \A f \in input.files : PathWithinAnyRoot(PathOf(f), roots) <=> Under(f, input.roots)
  <2> SUFFICES ASSUME NEW f \in input.files
               PROVE  PathWithinAnyRoot(PathOf(f), roots) <=> Under(f, input.roots)
    OBVIOUS
  <2>1. f \in Location /\ f # <<>>
    BY <1>1
  <2> QED BY <1>1, <2>1, UnderDirectories
<1>3. \A f \in input.files :
        /\ (\E r \in input.roots : Reaches(r, f)) <=> f \in WantedFiles(input)
        /\ [path |-> PathOf(f), priority |-> ClassifyPriority(PathOf(f), cfg)] = Row(f)
  <2> SUFFICES ASSUME NEW f \in input.files
               PROVE  /\ (\E r \in input.roots : Reaches(r, f)) <=> f \in WantedFiles(input)
                      /\ [path |-> PathOf(f), priority |-> ClassifyPriority(PathOf(f), cfg)] = Row(f)
    OBVIOUS
  <2>1. f \in Location /\ f # <<>>
    BY <1>1
  <2>2. (\E r \in input.roots : Reaches(r, f)) <=> f \in WantedFiles(input)
    BY FoundIsWanted
  <2>3. ClassifyPriority(PathOf(f), cfg) = PriorityOf(input, f)
    BY <2>1, PriorityIsFirst
  <2> QED BY <2>2, <2>3
<1>4. WantedFiles(input) \subseteq input.files
  <2>1. WantedFiles(input) \subseteq input.valid
    BY Zenon DEF WantedFiles
  <2>2. input.valid \subseteq input.files
    BY DEF IsScan
  <2> QED BY <2>1, <2>2
<1>5. \A x : x \in listed <=>
        \E r \in roots : \E t \in files :
          /\ Walked(t, r, cfg) /\ Accepted(t, valid, cfg)
          /\ x = [path |-> t, priority |-> ClassifyPriority(t, cfg)]
  <2> HIDE DEF cfg, valid, files, roots
  <2>1. listed = UNION {ScanRoot(r, files, valid, cfg) : r \in roots}
    BY DEF ScanRoots
  <2>2. ASSUME NEW r, NEW x
        PROVE  x \in ScanRoot(r, files, valid, cfg) <=>
                 \E t \in files : /\ Walked(t, r, cfg) /\ Accepted(t, valid, cfg)
                                 /\ x = [path |-> t, priority |-> ClassifyPriority(t, cfg)]
    BY Zenon DEF ScanRoot
  <2> HIDE DEF listed
  <2> DEFINE Lists(r, x) == x \in ScanRoot(r, files, valid, cfg)
             Puts(r, x)  == \E t \in files : /\ Walked(t, r, cfg) /\ Accepted(t, valid, cfg)
                                            /\ x = [path |-> t, priority |-> ClassifyPriority(t, cfg)]
  <2>3. \A r, x : Lists(r, x) <=> Puts(r, x)
    BY <2>2, Zenon
  <2>4. \A x : x \in listed <=> \E r \in roots : Lists(r, x)
    BY <2>1, Zenon
  <2> HIDE DEF Lists, Puts
  <2>5. \A x : x \in listed <=> \E r \in roots : Puts(r, x)
    BY <2>3, <2>4, Zenon
  <2> QED BY <2>5, Zenon DEF Puts
<1>6. \A x : x \in listed <=>
        \E r \in input.roots : \E f \in input.files :
          Reaches(r, f) /\ x = [path |-> PathOf(f), priority |-> ClassifyPriority(PathOf(f), cfg)]
  <2> HIDE DEF cfg, valid, listed
  <2>1. \A t : t \in files <=> \E f \in input.files : t = PathOf(f)
    BY Zenon DEF PathsOf
  <2>2. \A r : r \in roots <=> \E d \in input.roots : r = PathOf(d)
    BY Zenon DEF PathsOf
  <2> HIDE DEF files, roots
  <2>3. ASSUME NEW x, x \in listed
        PROVE  \E r \in input.roots : \E f \in input.files :
                 Reaches(r, f) /\ x = [path |-> PathOf(f), priority |-> ClassifyPriority(PathOf(f), cfg)]
    <3>1. PICK r \in roots, t \in files :
             /\ Walked(t, r, cfg) /\ Accepted(t, valid, cfg)
             /\ x = [path |-> t, priority |-> ClassifyPriority(t, cfg)]
      BY <1>5, <2>3, Zenon
    <3>2. PICK d \in input.roots : r = PathOf(d)
      BY <2>2
    <3>3. PICK f \in input.files : t = PathOf(f)
      BY <2>1
    <3> QED BY <3>1, <3>2, <3>3, Zenon
  <2>4. ASSUME NEW x, NEW r \in input.roots, NEW f \in input.files, Reaches(r, f),
               x = [path |-> PathOf(f), priority |-> ClassifyPriority(PathOf(f), cfg)]
        PROVE  x \in listed
    <3>1. PathOf(r) \in roots /\ PathOf(f) \in files
      BY <2>1, <2>2
    <3> QED BY <1>5, <2>4, <3>1, Zenon
  <2> HIDE DEF Reaches
  <2> QED BY <2>3, <2>4, Zenon
<1> HIDE DEF cfg, valid, files, roots, Row, Reaches, listed
<1>7. \A x : x \in listed <=> \E f \in input.files : (\E r \in input.roots : Reaches(r, f)) /\ x = Row(f)
  BY <1>3, <1>6, Zenon
<1>8. \A x : x \in listed <=> x \in wanted
  BY <1>3, <1>4, <1>7, Zenon
<1>9. listed = wanted
  <2> HIDE DEF wanted
  <2>1. listed \subseteq wanted /\ wanted \subseteq listed
    BY <1>8, Zenon
  <2> QED BY <2>1
<1> QED BY <1>2, <1>9, Zenon DEF ScanListsWhatIsThere, listed, wanted, files, roots, valid, cfg, Row

-----------------------------------------------------------------------------
(* Theorems.                                                               *)

\* The input is one of those given, and no two rows of the catalog have one name.
RulesInv == input \in Inputs /\ NamesApart(catalog)

\* The invariant: what an action does to the catalog leaves the names apart.
THEOREM RulesInvariant == Spec => []RulesInv
<1>1. Init => RulesInv
  <2>1. NamesApart(NoRows)
    BY FS_EmptySet DEF NoRows, NamesApart, IsInjective
  <2> QED
    BY <2>1 DEF Init, RulesInv
<1>2. RulesInv /\ [Next]_vars => RulesInv'
  <2> SUFFICES ASSUME RulesInv, [Next]_vars
               PROVE  RulesInv'
    OBVIOUS
  <2>1. CASE UNCHANGED vars
    BY <2>1 DEF RulesInv, vars, NamesApart
  <2>2. CASE Next
    <3>1. input' = input
      BY <2>2 DEF Next
    <3>2. NamesApart(catalog)'
      <4>1. CASE \E p \in Paths : Discover(p) \/ Register(p) \/ Delete(p)
        BY <4>1, ChangeKeepsNames DEF RulesInv
      <4>2. CASE UNCHANGED catalog
        BY <4>2 DEF RulesInv, NamesApart
      <4> QED
        BY <2>2, <4>1, <4>2 DEF Next
    <3> QED
      BY <3>1, <3>2 DEF RulesInv
  <2> QED
    BY <2>1, <2>2
<1> QED
  BY <1>1, <1>2, PTL DEF Spec

\* However databases are found, registered and removed, in whatever order and
\* number, no two rows of the catalog have one name and none that stays is
\* renamed (availableDiscoveredName, availableCatalogName).
THEOREM NamesStayApart == Spec => NamesTellDatabasesApart
<1>1. RulesInv /\ [Next]_vars =>
        [/\ IsInjective(catalog')
         /\ \A p \in DOMAIN catalog \cap DOMAIN catalog' : catalog'[p] = catalog[p]]_catalog
  <2> SUFFICES ASSUME RulesInv, [Next]_vars, catalog' # catalog
               PROVE  /\ IsInjective(catalog')
                      /\ \A p \in DOMAIN catalog \cap DOMAIN catalog' : catalog'[p] = catalog[p]
    OBVIOUS
  <2>1. PICK p \in Paths : Discover(p) \/ Register(p) \/ Delete(p)
    BY DEF Next, vars
  <2>2. NamesApart(catalog)' /\ Kept(catalog, catalog')
    BY <2>1, ChangeKeepsNames DEF RulesInv
  <2> QED
    BY <2>2 DEF NamesApart, Kept
<1> QED
  BY <1>1, RulesInvariant, PTL DEF Spec, NamesTellDatabasesApart

\* Whatever an earlier generation of the log left behind the frames of this
\* one, a reader gets the frames of this one that it did not skip, their
\* commits and their tables (ParseWAL, MapPagesToTables).
THEOREM GenerationIsRead == Spec => []ReadsTheGeneration
<1>1. RulesInv => ReadsTheGeneration
  <2>1. CASE input.rule = "wal"
    BY <2>1, ReadsLog, InputsAssumption DEF RulesInv
  <2>2. CASE input.rule # "wal"
    BY <2>2 DEF ReadsTheGeneration
  <2> QED
    BY <2>1, <2>2
<1> QED
  BY <1>1, RulesInvariant, PTL

\* For any schemas, a baseline gets no new version when the schema says what
\* it said; it gets one when the schema says something else, unless texts have
\* semicolons, more white space than a blank, or IF NOT EXISTS where they make
\* a difference (HashSchema, handleStartReplication).
THEOREM VersionsAreSchemas == Spec => []VersionsHoldTheSchema
<1>1. RulesInv => VersionsHoldTheSchema
  BY VersionsHold, InputsAssumption DEF RulesInv, VersionsHoldTheSchema
<1> QED
  BY <1>1, RulesInvariant, PTL

\* For any schemas whose objects have names of their own and whose texts the
\* code does not cut, DiffSchemas reports the texts of exactly the objects
\* that came, went or changed, but for the END of a trigger.
THEOREM DiffIsTheChange == Spec => []DiffExplainsTheChange
<1>1. RulesInv => DiffExplainsTheChange
  BY DiffExplains, InputsAssumption DEF RulesInv
<1> QED
  BY <1>1, RulesInvariant, PTL

\* For any table with a key or a row number that can be named, any order and
\* any limit, the pages of ListRecords have every record once and in order;
\* for any limit, QueryDatabase and handleDiscoveredTable go on where the
\* client was.
THEOREM PagesArePartitions == Spec => []PagesPartitionTheRows
<1>1. RulesInv => PagesPartitionTheRows
  BY PagesPartition, InputsAssumption DEF RulesInv
<1> QED
  BY <1>1, RulesInvariant, PTL

\* Whatever the texts of numbers, of bytes and of times are, a record is found
\* by what the API returned of it, unless its values are not what their columns
\* are declared for or are times in another form than that in which the API
\* returns them (nativeRecordValue, filterValue, recordRows).
THEOREM RecordsComeBack == Spec => []RecordsAreFound
<1>1. RulesInv => RecordsAreFound
  <2>1. CASE input.rule = "values"
    BY <2>1, FindsRecord, InputsAssumption DEF RulesInv
  <2>2. CASE input.rule # "values"
    BY <2>2 DEF RecordsAreFound
  <2> QED
    BY <2>1, <2>2
<1> QED
  BY <1>1, RulesInvariant, PTL

\* For any directories, files, exclusions and priorities, a scan lists exactly
\* the databases below its roots that no exclusion holds, with their
\* priorities, and only the files below its roots are looked at again
\* (ScanContext, classifyPriority, HTTPServer.Scan).
THEOREM ScansAreComplete == Spec => []ScanListsWhatIsThere
<1>1. RulesInv => ScanListsWhatIsThere
  <2>1. CASE input.rule = "scan"
    BY <2>1, ScanLists, InputsAssumption DEF RulesInv
  <2>2. CASE input.rule # "scan"
    BY <2>2, Zenon DEF ScanListsWhatIsThere
  <2> QED
    BY <2>1, <2>2
<1> QED
  BY <1>1, RulesInvariant, PTL
=============================================================================
