-------------------------- MODULE RecordRulesProofs --------------------------
(***************************************************************************)
(* The reading side of the record API, for tables of any size, any order,  *)
(* any limit and any value: the windows of QueryDatabase and of            *)
(* handleDiscoveredTable go on where the last one ended, the pages of      *)
(* ListRecords are cut from one sequence, and what a request wrote is      *)
(* found by what was returned of it.  The theorems are in RulesProofs.     *)
(*                                                                         *)
(* The pages: the terms of ListRecords tell any two rows apart             *)
(* (TermsOrder, KeysTellRows), so that a row's place is the number of rows *)
(* before it, and there is one sequence in which every row has its place   *)
(* (OrderingExists, OrderingIsUnique).                                     *)
(***************************************************************************)
EXTENDS Rules, FiniteSetTheorems, SequenceTheorems, TLAPS

-----------------------------------------------------------------------------
(* Numbers.                                                                *)

\* A set of numbers that is not empty has a least one.
LEMMA LeastNumber ==
  ASSUME NEW S \in SUBSET Nat, S # {}
  PROVE  \E n \in S : \A m \in S : n <= m
<1> DEFINE R == {ss \in Nat \X Nat : ss[1] < ss[2]}
<1>1. IsWellFoundedOn(R, Nat)
  BY NatLessThanWellFounded DEF OpToRel
<1>2. PICK n \in S : \A m \in S : ~ (<<m, n>> \in R)
  BY <1>1, WFMin
<1>3. \A m \in S : ~(m < n)
  BY <1>2
<1> QED
  BY <1>3

\* The lesser of two numbers.
LEMMA LeastOfTwo ==
  ASSUME NEW a \in Int, NEW b \in Int
  PROVE  Min({a, b}) = IF a <= b THEN a ELSE b
<1> DEFINE least == IF a <= b THEN a ELSE b
<1>1. least \in {a, b} /\ (\A y \in {a, b} : least <= y)  OBVIOUS
<1>2. \A x \in {a, b} : (\A y \in {a, b} : x <= y) => x = least  OBVIOUS
<1> HIDE DEF least
<1>3. Min({a, b}) = least  BY <1>1, <1>2 DEF Min
<1> QED  BY <1>3 DEF least

-----------------------------------------------------------------------------
(* Windows.                                                                *)

\* A window of a sequence begins where it is asked for, and ends behind it if there is more.
LEMMA Window ==
  ASSUME NEW S, NEW s \in Seq(S), NEW limit \in Nat \ {0}, NEW offset \in 0 .. Len(s)
  PROVE  \E last \in offset .. Len(s) :
           /\ LimitOffset(s, limit, offset) = SubSeq(s, offset + 1, last)
           /\ last - offset <= limit
           /\ offset < Len(s) => offset < last
<1> DEFINE len == Len(s)
<1>1. len \in Nat /\ offset \in 0 .. len  OBVIOUS
<1> DEFINE last == IF offset + limit <= len THEN offset + limit ELSE len
<1>2. Min({offset + limit, len}) = last  BY <1>1, LeastOfTwo
<1>3. last \in offset .. len /\ last - offset <= limit /\ (offset < len => offset < last)
  <2> HIDE DEF len
  <2> QED  BY <1>1
<1>4. LimitOffset(s, limit, offset) = SubSeq(s, offset + 1, last)
  <2>1. LimitOffset(s, limit, offset) = SubSeq(s, offset + 1, Min({offset + limit, len}))
    BY Zenon DEF LimitOffset
  <2> HIDE DEF last, len
  <2> QED  BY <1>2, <2>1, Zenon
<1> QED  BY <1>3, <1>4

\* A window that holds all of a sequence is the sequence.
LEMMA WholeSequence ==
  ASSUME NEW S, NEW s \in Seq(S)
  PROVE  SubSeq(s, 1, Len(s)) = s
<1> DEFINE n == Len(s)
           u == SubSeq(s, 1, n)
<1>1. n \in Nat /\ s \in [1 .. n -> S]  BY LenProperties
<1>2. u = [i \in 1 .. n |-> s[i]]
  <2>1. 1 .. n + 1 - 1 = 1 .. n  BY <1>1
  <2>2. \A i \in 1 .. n : i + 1 - 1 = i OBVIOUS
  <2>3. u \in Seq(S) /\ Len(u) = n /\ \A i \in 1 .. n : u[i] = s[i]
    <3>1. 1 \in 1 .. Len(s) + 1 /\ Len(s) \in 0 .. Len(s)  BY <1>1
    <3> QED  BY <1>1, <3>1, SubSeqProperties
  <2> HIDE DEF u
  <2>4. u \in [1 .. n -> S]  BY <2>3, LenProperties
  <2> QED  BY <2>3, <2>4
<1> QED  BY <1>1, <1>2

\* Whatever the limit is, a window goes on where the rows that were read ended.
LEMMA WindowsGoOn ==
  ASSUME input.rule = "window", IsWindowRequest(input)
  PROVE  /\ GoesOn(QueryDatabase(input.rows, input.limit, input.read), input.rows, input.read)
         /\ GoesOn(DiscoveredTable(input.rows, input.limit, input.read), input.rows, input.read)
<1> DEFINE rows == input.rows
           read == input.read
           S == Range(rows)
<1>1. /\ Len(rows) \in Nat /\ rows = [n \in 1 .. Len(rows) |-> rows[n]]
      /\ read \in 0 .. Len(rows) /\ input.limit \in Int
  BY DEF IsWindowRequest
<1>2. rows \in Seq(S)
  <2>1. DOMAIN rows = 1 .. Len(rows)  BY <1>1
  <2>2. \A n \in 1 .. Len(rows) : rows[n] \in S  BY <2>1 DEF Range
  <2> HIDE DEF S, rows
  <2> QED  BY <1>1, <2>1, <2>2, SeqDef
<1> HIDE DEF rows, read, S
<1>3. DefaultLimit \in Nat \ {0} /\ MaxLimit \in Nat \ {0} /\ DefaultLimit <= MaxLimit  BY LimitsAssumption
<1>4. GoesOn(QueryDatabase(rows, input.limit, read), rows, read)
  <2> DEFINE most == IF input.limit <= 0 THEN DefaultLimit
                     ELSE IF input.limit > MaxLimit THEN MaxLimit ELSE input.limit
  <2>1. most \in Nat \ {0}  BY <1>1, <1>3
  <2>2. (IF read < 0 THEN 0 ELSE read) = read  BY <1>1
  <2>3. QueryDatabase(rows, input.limit, read) = LimitOffset(rows, most, read)  BY <2>2 DEF QueryDatabase
  <2> HIDE DEF most
  <2> QED  BY <1>1, <1>2, <2>1, <2>3, Window DEF GoesOn
<1>5. GoesOn(DiscoveredTable(rows, input.limit, read), rows, read)
  <2> DEFINE most == BoundedInt(input.limit, DefaultLimit, 1, MaxLimit)
           got == LimitOffset(rows, most, read)
  <2>1. most \in 1 .. MaxLimit  BY <1>1, <1>3 DEF BoundedInt
  <2>2. DiscoveredTable(rows, input.limit, read) = QueryDatabase(got, most, 0)  BY DEF DiscoveredTable
  <2> HIDE DEF most
  <2>3. PICK last \in read .. Len(rows) : 
          got = SubSeq(rows, read + 1, last) /\ last - read <= most /\ (read < Len(rows) => read < last)
    <3>1. most \in Nat \ {0}  BY <1>3, <2>1
    <3> QED  BY <1>1, <1>2, <3>1, Window
  <2>4. got \in Seq(S) /\ Len(got) = last - read
    <3>1. read + 1 \in 1 .. Len(rows) + 1 /\ last \in read + 1 - 1 .. Len(rows)  BY <1>1
    <3>2. \A i \in read + 1 .. last : rows[i] \in S  BY <1>1, <1>2
    <3> HIDE DEF got
    <3>3. read + 1 \in Int /\ last \in Int /\ got = SubSeq(rows, read + 1, last)  BY <1>1, <2>3
    <3> DEFINE first == read + 1
    <3> HIDE DEF first
    <3>4. got \in Seq(S) /\ Len(got) = IF first <= last THEN last - first + 1 ELSE 0
      BY <3>2, <3>3, SubSeqProperties DEF first
    <3> DEFINE size == Len(got)
    <3> HIDE DEF size
    <3>5. size = IF first <= last THEN last - first + 1 ELSE 0  BY <3>4 DEF size
    <3>6. size = last - read  BY <1>1, <3>5 DEF first
    <3> QED  BY <3>4, <3>6 DEF size
  <2> HIDE DEF got
  <2>5. QueryDatabase(got, most, 0) = LimitOffset(got, most, 0)  BY <1>3, <2>1 DEF QueryDatabase
  <2>6. PICK end \in 0 .. Len(got) :
          LimitOffset(got, most, 0) = SubSeq(got, 1, end) /\ end = Len(got)
    <3>1. Min({0 + most, Len(got)}) = Len(got)
      <4>1. Len(got) \in Nat /\ Len(got) <= most  BY <1>1, <2>3, <2>4
      <4> QED  BY <2>1, <1>3, <4>1, LeastOfTwo
    <3>2. LimitOffset(got, most, 0) = SubSeq(got, 0 + 1, Min({0 + most, Len(got)}))  BY Zenon DEF LimitOffset
    <3>3. 0 + 1 = 1 /\ Len(got) \in 0 .. Len(got)  BY <2>4
    <3> QED  BY <3>1, <3>2, <3>3
  <2>7. QueryDatabase(got, most, 0) = got  BY <2>4, <2>5, <2>6, WholeSequence
  <2> QED  BY <2>2, <2>3, <2>7 DEF GoesOn, got
<1> QED  BY <1>4, <1>5 DEF rows, read

-----------------------------------------------------------------------------
(* Rows in order.                                                          *)

\* The terms put any two rows in an order.
OrdersRows(R, terms) ==
  /\ \A r \in R : ~Before(r, r, terms)
  /\ \A q, r, s \in R : Before(q, r, terms) /\ Before(r, s, terms) => Before(q, s, terms)
  /\ \A r, s \in R : r # s => Before(r, s, terms) \/ Before(s, r, terms)

Predecessors(R, terms, r) == {q \in R : Before(q, r, terms)}
Place(R, terms, r) == Cardinality(Predecessors(R, terms, r)) + 1

\* A row that comes before another has a lesser place.
LEMMA PlacesGrow ==
  ASSUME NEW R, IsFiniteSet(R), NEW terms, OrdersRows(R, terms)
  PROVE  /\ \A r \in R : Place(R, terms, r) \in 1 .. Cardinality(R)
         /\ \A r, s \in R : Before(r, s, terms) => Place(R, terms, r) < Place(R, terms, s)
<1>1. ASSUME NEW r \in R
      PROVE  /\ IsFiniteSet(Predecessors(R, terms, r)) /\ r \notin Predecessors(R, terms, r)
             /\ Cardinality(Predecessors(R, terms, r)) \in Nat
             /\ Cardinality(Predecessors(R, terms, r) \cup {r}) = Cardinality(Predecessors(R, terms, r)) + 1
             /\ IsFiniteSet(Predecessors(R, terms, r) \cup {r})
  <2>1. Predecessors(R, terms, r) \in SUBSET R /\ r \notin Predecessors(R, terms, r)
    BY DEF OrdersRows, Predecessors
  <2>2. IsFiniteSet(Predecessors(R, terms, r))
    BY <2>1, FS_Subset
  <2> QED
    BY <2>1, <2>2, FS_AddElement, FS_CardinalityType
<1>2. ASSUME NEW r \in R
      PROVE  Place(R, terms, r) \in 1 .. Cardinality(R)
  <2>1. Predecessors(R, terms, r) \cup {r} \in SUBSET R
    BY DEF Predecessors
  <2>2. Cardinality(Predecessors(R, terms, r) \cup {r}) <= Cardinality(R) /\ Cardinality(R) \in Nat
    BY <2>1, FS_Subset, FS_CardinalityType
  <2> QED
    BY <1>1, <2>2 DEF Place
<1>3. ASSUME NEW r \in R, NEW s \in R, Before(r, s, terms)
      PROVE  Place(R, terms, r) < Place(R, terms, s)
  <2>1. Predecessors(R, terms, r) \cup {r} \in SUBSET Predecessors(R, terms, s)
    BY <1>3 DEF OrdersRows, Predecessors
  <2>2. Cardinality(Predecessors(R, terms, r) \cup {r}) <= Cardinality(Predecessors(R, terms, s))
    BY <2>1, <1>1, FS_Subset
  <2> DEFINE a == Cardinality(Predecessors(R, terms, r))
             b == Cardinality(Predecessors(R, terms, s))
  <2>3. a \in Nat /\ b \in Nat /\ a + 1 <= b
    <3>1. Cardinality(Predecessors(R, terms, r) \cup {r}) = a + 1
      BY <1>1
    <3> QED
      BY <1>1, <2>2, <3>1
  <2>4. Place(R, terms, r) = a + 1 /\ Place(R, terms, s) = b + 1
    BY DEF Place
  <2> HIDE DEF a, b
  <2> QED
    BY <2>3, <2>4
<1> QED
  BY <1>2, <1>3

\* There is a sequence in which every row has its place.
LEMMA OrderingExists ==
  ASSUME NEW R, IsFiniteSet(R), NEW terms, OrdersRows(R, terms)
  PROVE  \E s \in Orderings(R, terms) : TRUE
<1> DEFINE n == Cardinality(R)
           place == [r \in R |-> Place(R, terms, r)]
<1>1. /\ \A r \in R : Place(R, terms, r) \in 1 .. n
      /\ \A r, s \in R : Before(r, s, terms) => Place(R, terms, r) < Place(R, terms, s)
  BY PlacesGrow
<1>2. n \in Nat /\ IsFiniteSet(1 .. n) /\ Cardinality(1 .. n) = n
  BY FS_CardinalityType, FS_Interval
<1>3. \A r, s \in R : Place(R, terms, r) = Place(R, terms, s) => r = s
  <2> SUFFICES ASSUME NEW r \in R, NEW s \in R, Place(R, terms, r) = Place(R, terms, s), r # s
               PROVE  FALSE
    OBVIOUS
  <2>1. Before(r, s, terms) \/ Before(s, r, terms)
    BY DEF OrdersRows
  <2>2. Place(R, terms, r) \in Int
    BY <1>1
  <2> QED
    BY <1>1, <2>1, <2>2
<1>4. place \in Injection(R, 1 .. n)
  BY <1>1, <1>3 DEF Injection, IsInjective
<1>5. place \in Surjection(R, 1 .. n)
  BY <1>2, <1>4, FS_Injection
<1>6. \A i \in 1 .. n : \E r \in R : Place(R, terms, r) = i
  BY <1>5 DEF Surjection
<1> DEFINE row(i) == CHOOSE r \in R : Place(R, terms, r) = i
           s == [i \in 1 .. n |-> row(i)]
<1>7. \A i \in 1 .. n : s[i] \in R /\ Place(R, terms, s[i]) = i
  BY <1>6
<1>8. s \in [1 .. n -> R]
  BY <1>7
<1> HIDE DEF s, n
<1>9. s \in SetToSeqs(R)
  BY <1>7, <1>8 DEF SetToSeqs, n
<1>10. \A i, j \in 1 .. n : Before(s[i], s[j], terms) => i < j
  BY <1>1, <1>7
<1>11. s \in Orderings(R, terms)
  BY <1>8, <1>9, <1>10 DEF Orderings
<1> QED
  BY <1>11

\* It is the only one.
LEMMA OrderingIsUnique ==
  ASSUME NEW R, IsFiniteSet(R), NEW terms, OrdersRows(R, terms),
         NEW s \in Orderings(R, terms), NEW t \in Orderings(R, terms)
  PROVE  s = t
<1> DEFINE n == Cardinality(R)
<1>1. n \in Nat /\ IsFiniteSet(1 .. n) /\ Cardinality(1 .. n) = n
  BY FS_CardinalityType, FS_Interval
<1>2. ASSUME NEW u \in Orderings(R, terms)
      PROVE  /\ u \in [1 .. n -> R]
             /\ \A r \in R : \E j \in 1 .. n : u[j] = r
             /\ \A i, j \in 1 .. n : Before(u[i], u[j], terms) <=> i < j
             /\ \A i, j \in 1 .. n : u[i] = u[j] => i = j
  <2>1. u \in [1 .. n -> R] /\ \A i, j \in 1 .. n : u[i] = u[j] => i = j
    BY DEF Orderings, SetToSeqs
  <2>2. u \in Injection(1 .. n, R)
    BY <2>1 DEF Injection, IsInjective
  <2>3. u \in Surjection(1 .. n, R)
    BY <1>1, <2>2, FS_Injection
  <2>4. \A r \in R : \E j \in 1 .. n : u[j] = r
    BY <2>1, <2>3 DEF Surjection
  <2>5. \A i, j \in 1 .. n : Before(u[i], u[j], terms) => i < j
    BY <2>1 DEF Orderings
  <2>6. ASSUME NEW i \in 1 .. n, NEW j \in 1 .. n, i < j
        PROVE  Before(u[i], u[j], terms)
    <3>1. u[i] # u[j] /\ ~Before(u[j], u[i], terms)
      BY <2>1, <2>5, <2>6
    <3> QED
      BY <2>1, <3>1 DEF OrdersRows
  <2> QED
    BY <2>1, <2>4, <2>5, <2>6
<1> HIDE DEF n
<1>3. ASSUME NEW u \in Orderings(R, terms), NEW i \in 1 .. n
      PROVE  Place(R, terms, u[i]) = i
  <2> DEFINE P == Predecessors(R, terms, u[i])
             f == [j \in 1 .. i - 1 |-> u[j]]
  <2>1. i - 1 \in Nat /\ \A j \in 1 .. i - 1 : j \in 1 .. n /\ j < i
    BY <1>1
  <2>2. \A j \in 1 .. i - 1 : u[j] \in P
    <3> SUFFICES ASSUME NEW j \in 1 .. i - 1
                 PROVE  u[j] \in P
      OBVIOUS
    <3>1. u[j] \in R
      BY <1>2, <2>1
    <3>2. Before(u[j], u[i], terms)
      BY <1>2, <2>1
    <3> QED
      BY <3>1, <3>2 DEF Predecessors
  <2>3. \A q \in P : \E j \in 1 .. i - 1 : u[j] = q
    <3> SUFFICES ASSUME NEW q \in P
                 PROVE  \E j \in 1 .. i - 1 : u[j] = q
      OBVIOUS
    <3>1. q \in R /\ Before(q, u[i], terms)
      BY DEF Predecessors
    <3>2. PICK j \in 1 .. n : u[j] = q
      BY <1>2, <3>1
    <3>3. j < i
      BY <1>2, <3>1, <3>2
    <3> QED
      BY <1>1, <3>2, <3>3
  <2> HIDE DEF P
  <2>4. f \in [1 .. i - 1 -> P]
    BY <2>2
  <2>5. f \in Injection(1 .. i - 1, P)
    <3>1. \A a, b \in 1 .. i - 1 : f[a] = f[b] => a = b
      <4> SUFFICES ASSUME NEW a \in 1 .. i - 1, NEW b \in 1 .. i - 1, u[a] = u[b]
                   PROVE  a = b
        OBVIOUS
      <4>1. a \in 1 .. n /\ b \in 1 .. n
        BY <2>1
      <4> QED
        BY <4>1, <1>2
    <3> HIDE DEF f
    <3> QED
      BY <2>4, <3>1 DEF Injection, IsInjective
  <2>6. f \in Surjection(1 .. i - 1, P)
    BY <2>3, <2>4 DEF Surjection
  <2>7. f \in Bijection(1 .. i - 1, P)
    BY <2>5, <2>6 DEF Bijection
  <2>8. IsFiniteSet(1 .. i - 1) /\ Cardinality(1 .. i - 1) = i - 1
    BY <2>1, FS_Interval
  <2> HIDE DEF f
  <2>9. Cardinality(P) = i - 1
    BY <2>7, <2>8, FS_Bijection DEF ExistsBijection
  <2> QED
    BY <2>9, <1>1 DEF Place, P
<1>4. s \in [1 .. n -> R] /\ t \in [1 .. n -> R]
  BY <1>2, Zenon
<1>5. ASSUME NEW i \in 1 .. n
      PROVE  s[i] = t[i]
  <2>1. s[i] \in R
    BY <1>4
  <2>2. PICK j \in 1 .. n : t[j] = s[i]
    BY <1>2, <2>1
  <2>3. Place(R, terms, s[i]) = i /\ Place(R, terms, t[j]) = j
    BY <1>3
  <2> QED
    BY <2>2, <2>3
<1>6. s = [i \in 1 .. n |-> s[i]] /\ t = [i \in 1 .. n |-> t[i]]
  BY <1>4
<1> QED
  BY <1>5, <1>6

\* There are n terms, and any two rows have two numbers in one of them.
TellRowsApart(R, n, terms) ==
  /\ DOMAIN terms = 1 .. n
  /\ \A r \in R : \A i \in 1 .. n : Valued(r, terms[i].column) \in Int
  /\ \A r, s \in R : r # s => \E i \in 1 .. n : Valued(r, terms[i].column) # Valued(s, terms[i].column)

\* Terms that tell rows apart put them in an order.
LEMMA TermsOrder ==
  ASSUME NEW R, NEW n \in Nat, NEW terms, TellRowsApart(R, n, terms)
  PROVE  OrdersRows(R, terms)
<1> DEFINE V(r, i) == Valued(r, terms[i].column)
           Less(r, s, i) == IF terms[i].desc THEN V(r, i) > V(s, i) ELSE V(r, i) < V(s, i)
<1>1. \A r, s : Before(r, s, terms) <=>
        \E i \in 1 .. n : (\A j \in 1 .. i - 1 : V(r, j) = V(s, j)) /\ Less(r, s, i)
  BY DEF Before, TellRowsApart
<1>2. \A r \in R, i \in 1 .. n : V(r, i) \in Int
  BY DEF TellRowsApart
<1>3. \A r, s \in R : r # s => \E i \in 1 .. n : V(r, i) # V(s, i)
  BY DEF TellRowsApart
<1>4. \A r, s \in R, i \in 1 .. n : /\ Less(r, s, i) => V(r, i) # V(s, i)
                                    /\ V(r, i) # V(s, i) => Less(r, s, i) \/ Less(s, r, i)
                                    /\ V(r, i) = V(s, i) <=> V(s, i) = V(r, i)
  BY <1>2
<1>5. \A q, r, s \in R, i \in 1 .. n : /\ Less(q, r, i) /\ Less(r, s, i) => Less(q, s, i)
                                       /\ Less(q, r, i) /\ V(r, i) = V(s, i) => Less(q, s, i)
                                       /\ V(q, i) = V(r, i) /\ Less(r, s, i) => Less(q, s, i)
                                       /\ V(q, i) = V(r, i) /\ V(r, i) = V(s, i) => V(q, i) = V(s, i)
  BY <1>2
<1> HIDE DEF V, Less
<1>6. \A r \in R : ~Before(r, r, terms)
  BY <1>1, <1>4
<1>7. ASSUME NEW q \in R, NEW r \in R, NEW s \in R, Before(q, r, terms), Before(r, s, terms)
      PROVE  Before(q, s, terms)
  <2>1. PICK i \in 1 .. n : (\A j \in 1 .. i - 1 : V(q, j) = V(r, j)) /\ Less(q, r, i)
    BY <1>1, <1>7
  <2>2. PICK k \in 1 .. n : (\A j \in 1 .. k - 1 : V(r, j) = V(s, j)) /\ Less(r, s, k)
    BY <1>1, <1>7
  <2> DEFINE m == IF i <= k THEN i ELSE k
  <2>3. m \in 1 .. n /\ \A j \in 1 .. m - 1 : j \in 1 .. n /\ j \in 1 .. i - 1 /\ j \in 1 .. k - 1
    OBVIOUS
  <2>4. \A j \in 1 .. m - 1 : V(q, j) = V(s, j)
    <3> HIDE DEF m
    <3> QED  BY <2>1, <2>2, <2>3, <1>5
  <2>5. Less(q, s, m)
    <3>1. CASE i < k
      <4>1. i \in 1 .. k - 1 /\ m = i  BY <3>1
      <4> QED  BY <4>1, <2>1, <2>2, <1>5
    <3>2. CASE k < i
      <4>1. k \in 1 .. i - 1 /\ m = k  BY <3>2
      <4> QED  BY <4>1, <2>1, <2>2, <1>5
    <3>3. CASE i = k
      <4>1. m = i  BY <3>3
      <4> QED  BY <3>3, <4>1, <2>1, <2>2, <1>5
    <3> QED  BY <3>1, <3>2, <3>3
  <2> HIDE DEF m
  <2> QED  BY <1>1, <2>3, <2>4, <2>5
<1>8. ASSUME NEW r \in R, NEW s \in R, r # s
      PROVE  Before(r, s, terms) \/ Before(s, r, terms)
  <2> DEFINE D == {i \in 1 .. n : V(r, i) # V(s, i)}
  <2>1. D \in SUBSET Nat /\ D # {}
    <3>1. PICK i \in 1 .. n : V(r, i) # V(s, i)
      BY <1>3, <1>8
    <3> QED
      BY <3>1
  <2>2. PICK i \in D : \A m \in D : i <= m
    BY <2>1, LeastNumber
  <2>3. i \in 1 .. n /\ V(r, i) # V(s, i)
    OBVIOUS
  <2>4. ASSUME NEW j \in 1 .. i - 1
        PROVE  V(r, j) = V(s, j) /\ V(s, j) = V(r, j)
    <3>1. j \in 1 .. n /\ ~(i <= j)  BY <2>3
    <3> QED  BY <2>2, <3>1
  <2> HIDE DEF D
  <2>5. Less(r, s, i) \/ Less(s, r, i)
    BY <2>3, <1>4
  <2> QED  BY <1>1, <2>3, <2>4, <2>5
<1> QED  BY <1>6, <1>7, <1>8 DEF OrdersRows

-----------------------------------------------------------------------------
(* Pages.                                                                  *)

\* The alias of the row number is not a column's name.
LEMMA AliasIsFree ==
  ASSUME NEW columns
  PROVE  \/ RowidAlias(columns) = "none" /\ {"rowid", "_rowid_", "oid"} \subseteq columns
         \/ RowidAlias(columns) \in {"rowid", "_rowid_", "oid"} \ columns
<1> DEFINE aliases == <<"rowid", "_rowid_", "oid">>
           free == {i \in 1 .. 3 : aliases[i] \notin columns}
<1>1. free \in SUBSET Nat  OBVIOUS
<1>2. CASE free = {}
  <2>1. RowidAlias(columns) = "none"  BY <1>2 DEF RowidAlias
  <2>2. 1 \notin free /\ 2 \notin free /\ 3 \notin free  BY <1>2
  <2>3. "rowid" \in columns /\ "_rowid_" \in columns /\ "oid" \in columns  BY <2>2
  <2> QED  BY <2>1, <2>3
<1>3. CASE free # {}
  <2>1. Min(free) \in free
    <3>1. PICK n \in free : \A m \in free : n <= m  BY <1>1, <1>3, LeastNumber
    <3> QED  BY <3>1 DEF Min
  <2>2. RowidAlias(columns) = aliases[Min(free)]  BY <1>3 DEF RowidAlias
  <2>3. PICK i \in 1 .. 3 : aliases[i] \notin columns /\ RowidAlias(columns) = aliases[i]
    BY <2>1, <2>2
  <2>4. i = 1 \/ i = 2 \/ i = 3  OBVIOUS
  <2>5. \/ RowidAlias(columns) = "rowid" /\ "rowid" \notin columns
        \/ RowidAlias(columns) = "_rowid_" /\ "_rowid_" \notin columns
        \/ RowidAlias(columns) = "oid" /\ "oid" \notin columns
    BY <2>3, <2>4
  <2> QED  BY <2>5
<1> QED  BY <1>2, <1>3

\* Rows that agree in every key are one row.
LEMMA KeysTellRows ==
  ASSUME NEW table, IsTable(table), KeyColumns(table) # {} \/ HasAlias(table),
         NEW r \in table.rows, NEW s \in table.rows,
         \A i \in DOMAIN KeysOf(table) : Valued(r, KeysOf(table)[i]) = Valued(s, KeysOf(table)[i])
  PROVE  r = s
<1> DEFINE columns == DOMAIN table.columns
           keys == KeyColumns(table)
           place == [c \in keys |-> table.columns[c]]
           alias == RowidAlias(columns)
<1>1. /\ RowId \notin columns
      /\ r \in [columns \cup {RowId} -> Int] /\ s \in [columns \cup {RowId} -> Int]
  BY DEF IsTable
<1>2. CASE keys # {}
  <2>1. place \in Bijection(keys, 1 .. Cardinality(keys))
    BY DEF IsTable
  <2>2. KeysOf(table) = [i \in 1 .. Cardinality(keys) |-> CHOOSE c \in keys : table.columns[c] = i]
    BY <1>2 DEF KeysOf, KeyColumns
  <2>3. ASSUME NEW c \in keys
        PROVE  r[c] = s[c]
    <3> DEFINE i == table.columns[c]
    <3>1. i \in 1 .. Cardinality(keys)
      BY <2>1 DEF Bijection, Injection
    <3>2. \A d \in keys : table.columns[d] = i => d = c
      BY <2>1 DEF Bijection, Injection, IsInjective
    <3>3. (CHOOSE d \in keys : table.columns[d] = i) = c
      BY <3>2
    <3> HIDE DEF i
    <3>4. i \in DOMAIN KeysOf(table) /\ KeysOf(table)[i] = c
      BY <2>2, <3>1, <3>3
    <3>5. Valued(r, c) = Valued(s, c)
      BY <3>4
    <3>6. c \in DOMAIN r /\ c \in DOMAIN s
      BY <1>1 DEF KeyColumns
    <3> QED
      BY <3>5, <3>6 DEF Valued
  <2> QED
    BY <1>2, <2>3 DEF IsTable
<1>3. CASE keys = {}
  <2>1. HasAlias(table)
    BY <1>3
  <2>2. alias \in {"rowid", "_rowid_", "oid"} \ columns
    BY <2>1, AliasIsFree DEF HasAlias
  <2>3. KeysOf(table) = <<alias>>
    <3>1. table.kind # "view" /\ table.numbers /\ alias # "none"
      BY <2>1, <2>2 DEF HasAlias
    <3> QED
      BY <1>3, <3>1 DEF KeysOf, KeyColumns
  <2>4. alias \notin DOMAIN r /\ alias \notin DOMAIN s
    BY <1>1, <2>2 DEF RowId
  <2>5. 1 \in DOMAIN KeysOf(table) /\ KeysOf(table)[1] = alias
    BY <2>3
  <2>6. Valued(r, alias) = Valued(s, alias)
    BY <2>5
  <2>7. r[RowId] = s[RowId]
    BY <2>4, <2>6 DEF Valued
  <2> QED
    BY <2>7 DEF IsTable
<1> QED
  BY <1>2, <1>3

\* The keys are a sequence.
LEMMA KeysAreSequence ==
  ASSUME NEW table, IsTable(table)
  PROVE  \E n \in Nat : DOMAIN KeysOf(table) = 1 .. n
<1>1. Cardinality(KeyColumns(table)) \in Nat
  <2>1. KeyColumns(table) \in SUBSET DOMAIN table.columns
    BY DEF KeyColumns
  <2> QED
    BY <2>1, FS_Subset, FS_CardinalityType DEF IsTable
<1>2. \/ DOMAIN KeysOf(table) = 1 .. Cardinality(KeyColumns(table))
      \/ KeysOf(table) = <<>>
      \/ KeysOf(table) = <<RowidAlias(DOMAIN table.columns)>>
  BY DEF KeysOf, KeyColumns
<1>3. DOMAIN <<>> = 1 .. 0 /\ DOMAIN <<RowidAlias(DOMAIN table.columns)>> = 1 .. 1
  OBVIOUS
<1> QED
  BY <1>1, <1>2, <1>3

\* The keys come behind the order that was asked for.
LEMMA TermsBehindOrder ==
  ASSUME NEW table, IsTable(table), NEW order \in Seq([column: STRING, desc: BOOLEAN])
  PROVE  \E n \in Nat :
           /\ DOMAIN Terms(table, order) = 1 .. n /\ Len(order) <= n
           /\ \A i \in 1 .. Len(order) : Terms(table, order)[i] = order[i]
           /\ \A i \in DOMAIN KeysOf(table) :
                Len(order) + i \in 1 .. n /\ Terms(table, order)[Len(order) + i].column = KeysOf(table)[i]
<1> DEFINE keys == KeysOf(table)
           behind == [i \in DOMAIN keys |-> [column |-> keys[i], desc |-> FALSE]]
           S == Range(order) \cup Range(behind)
           terms == order \o behind
<1>1. PICK k \in Nat : DOMAIN keys = 1 .. k
  BY KeysAreSequence
<1>2. DOMAIN behind = 1 .. k /\ \A i \in 1 .. k : behind[i].column = keys[i]
  BY <1>1
<1>3. Len(order) \in Nat /\ DOMAIN order = 1 .. Len(order) /\ order = [i \in 1 .. Len(order) |-> order[i]]
  <2>1. Len(order) \in Nat /\ order \in [1 .. Len(order) -> [column: STRING, desc: BOOLEAN]]
    BY LenProperties
  <2> QED
    BY <2>1
<1>4. \A i \in 1 .. Len(order) : order[i] \in S
  BY <1>3 DEF Range
<1>5. \A i \in 1 .. k : behind[i] \in S
  BY <1>2 DEF Range
<1>6. behind = [i \in 1 .. k |-> behind[i]]
  BY <1>1
<1> HIDE DEF S, behind, keys
<1>7. order \in Seq(S) /\ behind \in Seq(S) /\ Len(behind) = k
  <2>1. order \in [1 .. Len(order) -> S] /\ behind \in [1 .. k -> S]
    BY <1>3, <1>4, <1>5, <1>6
  <2>2. order \in Seq(S) /\ behind \in Seq(S)
    BY <1>1, <1>3, <2>1, SeqDef
  <2>3. DOMAIN behind = 1 .. Len(behind) /\ Len(behind) \in Nat
    BY <2>2, LenProperties
  <2> QED
    BY <1>1, <1>2, <2>2, <2>3
<1> DEFINE m == Len(order)
<1>8. /\ terms \in Seq(S) /\ Len(terms) = m + k
      /\ \A i \in 1 .. m + k : terms[i] = IF i <= m THEN order[i] ELSE behind[i - m]
  BY <1>7, ConcatProperties
<1>9. DOMAIN terms = 1 .. m + k
  <2> HIDE DEF terms
  <2> QED
    BY <1>8, LenProperties
<1>10. Terms(table, order) = terms
  BY DEF Terms, behind, keys
<1>11. m \in Nat
  BY <1>3
<1> HIDE DEF terms, m
<1>12. \A i \in 1 .. m : terms[i] = order[i]
  <2> SUFFICES ASSUME NEW i \in 1 .. m
               PROVE  terms[i] = order[i]
    OBVIOUS
  <2>1. i \in 1 .. m + k /\ i <= m
    BY <1>11
  <2> QED
    BY <1>8, <2>1
<1>13. \A i \in 1 .. k : m + i \in 1 .. m + k /\ terms[m + i].column = keys[i]
  <2> SUFFICES ASSUME NEW i \in 1 .. k
               PROVE  m + i \in 1 .. m + k /\ terms[m + i].column = keys[i]
    OBVIOUS
  <2>1. m + i \in 1 .. m + k /\ ~(m + i <= m) /\ (m + i) - m = i
    BY <1>1, <1>11
  <2>2. terms[m + i] = behind[i]
    BY <1>8, <2>1
  <2> QED
    BY <1>2, <2>1, <2>2
<1>14. m + k \in Nat /\ m <= m + k
  BY <1>11
<1> QED
  BY <1>1, <1>9, <1>10, <1>12, <1>13, <1>14 DEF m, keys

\* A name of a row leads to a number.
LEMMA ValuesAreNumbers ==
  ASSUME NEW table, IsTable(table), NEW r \in table.rows, NEW name
  PROVE  Valued(r, name) \in Int
<1>1. r \in [DOMAIN table.columns \cup {RowId} -> Int]
  BY DEF IsTable
<1> QED
  BY <1>1 DEF Valued

\* The terms of ListRecords put the rows of a table with a key in an order.
LEMMA KeysOrderRows ==
  ASSUME NEW table, IsTable(table), KeyColumns(table) # {} \/ HasAlias(table),
         NEW order \in Seq([column: STRING, desc: BOOLEAN])
  PROVE  OrdersRows(table.rows, Terms(table, order))
<1> DEFINE terms == Terms(table, order)
           keys == KeysOf(table)
           rows == table.rows
<1>1. PICK n \in Nat :
        /\ DOMAIN terms = 1 .. n
        /\ \A i \in DOMAIN keys : Len(order) + i \in 1 .. n /\ terms[Len(order) + i].column = keys[i]
  BY TermsBehindOrder
<1> HIDE DEF terms
<1>2. \A r \in rows : \A i \in 1 .. n : Valued(r, terms[i].column) \in Int
  BY ValuesAreNumbers
<1>3. ASSUME NEW r \in rows, NEW s \in rows, r # s
      PROVE  \E i \in 1 .. n : Valued(r, terms[i].column) # Valued(s, terms[i].column)
  <2>1. PICK i \in DOMAIN keys : Valued(r, keys[i]) # Valued(s, keys[i])
    BY <1>3, KeysTellRows
  <2> QED
    BY <1>1, <2>1
<1>4. \A r, s \in rows : r # s => \E i \in 1 .. n : Valued(r, terms[i].column) # Valued(s, terms[i].column)
  BY <1>3
<1>5. n \in Nat /\ DOMAIN terms = 1 .. n
  BY <1>1
<1> HIDE DEF rows
<1>6. OrdersRows(rows, terms)
  <2>1. TellRowsApart(rows, n, terms)
    BY <1>2, <1>4, <1>5 DEF TellRowsApart
  <2> QED
    BY <1>5, <2>1, TermsOrder
<1> QED
  BY <1>6 DEF terms, rows

\* What the order that was asked for tells apart stays in that order.
LEMMA KeysKeepOrder ==
  ASSUME NEW table, IsTable(table), NEW order \in Seq([column: STRING, desc: BOOLEAN]),
         NEW r, NEW s, Before(r, s, order)
  PROVE  Before(r, s, Terms(table, order))
<1> DEFINE terms == Terms(table, order)
           m == Len(order)
<1>1. m \in Nat /\ DOMAIN order = 1 .. m
  BY LenProperties
<1>2. PICK n \in Nat :
        DOMAIN terms = 1 .. n /\ m <= n /\ \A i \in 1 .. m : terms[i] = order[i]
  BY TermsBehindOrder
<1> HIDE DEF terms, m
<1>3. PICK i \in 1 .. m :
        /\ \A j \in 1 .. i - 1 : Valued(r, order[j].column) = Valued(s, order[j].column)
        /\ IF order[i].desc THEN Valued(r, order[i].column) > Valued(s, order[i].column)
                            ELSE Valued(r, order[i].column) < Valued(s, order[i].column)
  BY <1>1 DEF Before
<1>4. i \in 1 .. n /\ \A j \in 1 .. i - 1 : j \in 1 .. m
  BY <1>1, <1>2
<1>5. terms[i] = order[i] /\ \A j \in 1 .. i - 1 : terms[j] = order[j]
  BY <1>2, <1>4
<1>6. Before(r, s, terms)
  BY <1>2, <1>3, <1>4, <1>5 DEF Before
<1> QED
  BY <1>6 DEF terms

\* The pages of a table are cut from one sequence.
LEMMA PagesAreCut ==
  ASSUME NEW table, IsTable(table), KeyColumns(table) # {} \/ HasAlias(table),
         NEW order \in Seq([column: STRING, desc: BOOLEAN]), NEW limit \in Nat \ {0}
  PROVE  CutFromOneOrder(table, order, limit)
<1> DEFINE terms == Terms(table, order)
           rows == table.rows
           size == Cardinality(rows)
<1>1. IsFiniteSet(rows) /\ OrdersRows(rows, terms)
  BY KeysOrderRows DEF IsTable
<1>2. size \in Nat
  BY <1>1, FS_CardinalityType
<1> HIDE DEF terms, rows
<1>3. PICK s \in Orderings(rows, terms) : TRUE
  BY <1>1, OrderingExists
<1>4. Orderings(rows, terms) = {s}
  BY <1>1, OrderingIsUnique
<1>5. s \in SetToSeqs(rows) /\ \A i, j \in DOMAIN s : Before(s[i], s[j], terms) => i < j
  BY DEF Orderings
<1>6. s \in Orderings(rows, order)
  <2>1. \A i, j \in DOMAIN s : Before(s[i], s[j], order) => i < j
    BY <1>5, KeysKeepOrder DEF terms
  <2> QED
    BY <1>5, <2>1 DEF Orderings
<1>7. s \in [1 .. size -> rows]
  BY <1>5 DEF SetToSeqs
<1> HIDE DEF size
<1>8. s \in Seq(rows) /\ Len(s) = size
  <2>1. s \in Seq(rows)
    BY <1>2, <1>7, SeqDef
  <2>2. DOMAIN s = 1 .. size /\ DOMAIN s = 1 .. Len(s) /\ Len(s) \in Nat
    BY <1>7, <2>1, LenProperties
  <2> QED
    BY <1>2, <2>1, <2>2
<1>9. ASSUME NEW n \in 0 .. size
      PROVE  ListRecords(table, order, limit, n * limit) =
               {SubSeq(s, n * limit + 1, IF (n + 1) * limit < Len(s) THEN (n + 1) * limit ELSE Len(s))}
  <2> DEFINE first == n * limit
             last == (n + 1) * limit
  <2>1. first \in Int /\ last \in Int /\ last = first + limit
    BY <1>2
  <2>2. ListRecords(table, order, limit, first) = {LimitOffset(s, limit, first)}
    BY <1>4 DEF ListRecords, terms, rows
  <2> HIDE DEF first, last
  <2>3. Min({first + limit, Len(s)}) = IF last < Len(s) THEN last ELSE Len(s)
    <3> DEFINE len == Len(s)
    <3>1. len \in Nat
      BY <1>2, <1>8
    <3> HIDE DEF len
    <3>2. Min({last, len}) = IF last <= len THEN last ELSE len
      BY <2>1, <3>1, LeastOfTwo
    <3>3. Min({last, len}) = IF last < len THEN last ELSE len
      BY <2>1, <3>1, <3>2
    <3> QED
      BY <2>1, <3>3 DEF len
  <2>4. LimitOffset(s, limit, first) = SubSeq(s, first + 1, Min({first + limit, Len(s)}))
    BY Zenon DEF LimitOffset
  <2>5. LimitOffset(s, limit, first) = SubSeq(s, first + 1, IF last < Len(s) THEN last ELSE Len(s))
    BY <2>3, <2>4, Zenon
  <2> QED
    BY <2>2, <2>5 DEF first, last
<1> QED
  BY <1>6, <1>9 DEF CutFromOneOrder, rows, size

\* A client gets every row once.
LEMMA PagesPartition ==
  ASSUME input.rule = "pages" => IsPageRequest(input), input.rule = "window" => IsWindowRequest(input)
  PROVE  PagesPartitionTheRows
<1>1. CASE input.rule = "pages"
  <2> SUFFICES ASSUME KeyColumns(input.table) # {} \/ HasAlias(input.table)
               PROVE  CutFromOneOrder(input.table, input.order, input.limit)
    BY <1>1 DEF PagesPartitionTheRows
  <2> QED
    BY <1>1, PagesAreCut DEF IsPageRequest
<1>2. CASE input.rule = "window"
  BY <1>2, WindowsGoOn DEF PagesPartitionTheRows
<1> QED
  BY <1>1, <1>2 DEF PagesPartitionTheRows

-----------------------------------------------------------------------------
(* Values.                                                                 *)

\* A number that has a text gets one that stands for it.
TextOf(n) == CHOOSE t \in DOMAIN Numerals : Numerals[t] = n

LEMMA TextOfNumber ==
  ASSUME NEW n \in Range(Numerals)
  PROVE  TextOf(n) \in DOMAIN Numerals /\ Numerals[TextOf(n)] = n
<1>1. \E t \in DOMAIN Numerals : Numerals[t] = n  BY DEF Range
<1> QED  BY <1>1 DEF TextOf

\* What a request may have SQLite store.
IsStored(type, value) ==
  \/ value = Null
  \/ value = <<"num", value[2]>> /\ value[2] \in Range(Numerals)
  \/ value = <<"text", value[2]>>
  \/ value = <<"blob", value[2]>> /\ value[2] \in Encodings /\ type = "BLOB"

\* A request has SQLite store one of these.
LEMMA NativeValues ==
  ASSUME NEW type \in ColumnTypes, NEW json, IsWrite([type |-> type, json |-> json]),
         NativeRecordValue(type, json) # Error
  PROVE  IsStored(type, NativeRecordValue(type, json))
<1>1. {0, 2} \subseteq Range(Numerals)  BY NumeralsAssumption
<1>2. \/ json \in {<<"null">>, <<"object">>}
      \/ json[1] = "bool" /\ json = <<"bool", json[2]>> /\ json[2] \in BOOLEAN
      \/ json[1] = "number" /\ json = <<"number", json[2]>> /\ json[2] \in Range(Numerals)
      \/ json[1] = "string" /\ json = <<"string", json[2]>> /\ json[2] \in STRING
  BY DEF IsWrite
<1>3. CASE json \in {<<"null">>, <<"object">>}
  BY <1>3 DEF NativeRecordValue, IsStored, Null, Error
<1>4. CASE json[1] = "bool" /\ json[2] \in BOOLEAN
  BY <1>4, <1>1 DEF NativeRecordValue, IsStored, Null, Error
<1>5. CASE json[1] = "number" /\ json[2] \in Range(Numerals)
  BY <1>5 DEF NativeRecordValue, IsStored, Null, Error
<1>6. CASE json[1] = "string"
  BY <1>6 DEF NativeRecordValue, IsStored, Null, Error, Text
<1> QED  BY <1>2, <1>3, <1>4, <1>5, <1>6

\* What is stored is what was sent, or the number that a text is, or the text of a number.
LEMMA StoredValues ==
  ASSUME NEW type \in ColumnTypes, NEW value, IsStored(type, value)
  PROVE  LET stored == Converted(type, value)
         IN  /\ IsStored(type, stored)
             /\ stored[1] = "text" /\ Affinity(type) = "numeric" => stored[2] \notin DOMAIN Numerals
             /\ stored[1] = "num" => Affinity(type) # "text"
<1>1. \A t \in DOMAIN Numerals : Numerals[t] \in Range(Numerals)  BY DEF Range
<1>2. CASE Affinity(type) = "numeric" /\ value[1] = "text" /\ value[2] \in DOMAIN Numerals
  <2>1. Converted(type, value) = <<"num", Numerals[value[2]]>>  BY <1>2 DEF Converted
  <2> QED  BY <1>1, <1>2, <2>1 DEF IsStored
<1>3. CASE Affinity(type) = "text" /\ value[1] = "num"
  <2>1. Converted(type, value) = <<"text", TextOf(value[2])>>  BY <1>3 DEF Converted, TextOf
  <2> QED  BY <1>3, <2>1 DEF IsStored
<1>4. CASE /\ ~(Affinity(type) = "numeric" /\ value[1] = "text" /\ value[2] \in DOMAIN Numerals)
           /\ ~(Affinity(type) = "text" /\ value[1] = "num")
  <2>1. Converted(type, value) = value  BY <1>4 DEF Converted
  <2> QED  BY <1>4, <2>1
<1> QED  BY <1>2, <1>3, <1>4

\* The filter makes what is stored of what was returned.
LEMMA ComesBack ==
  ASSUME NEW type \in ColumnTypes, NEW stored, IsStored(type, stored), stored # Null, Fits(type, stored),
         stored[1] = "text" /\ Affinity(type) = "numeric" => stored[2] \notin DOMAIN Numerals,
         stored[1] = "num" => Affinity(type) # "text"
  PROVE  LET raw == Returned(type, stored)
         IN  FilterValue(type, raw) # Error /\ Converted(type, FilterValue(type, raw)) = stored
<1>1. CASE stored = <<"num", stored[2]>> /\ stored[2] \in Range(Numerals)
  <2>1. /\ TextOf(stored[2]) \in DOMAIN Numerals /\ Numerals[TextOf(stored[2])] = stored[2]
    BY <1>1, TextOfNumber
  <2>2. type \in {"INTEGER", "REAL", "NUMERIC", "BOOLEAN", "DECIMAL"} \cup TimeTypes
    <3>1. stored[1] = "num"  BY <1>1
    <3> QED  BY <3>1 DEF ColumnTypes, Fits, Affinity
  <2>3. CASE type = "BOOLEAN"
    <3>1. stored = <<"num", 0>> \/ stored = <<"num", 2>>
      <4>1. stored[1] = "num"  BY <1>1
      <4> QED  BY <2>3, <1>1, <4>1 DEF Fits, TimeTypes
    <3>2. CASE stored = <<"num", 0>>
      <4>1. Returned(type, stored) = "false"  
        <5>1. stored[1] = "num" /\ stored[2] = 0  BY <3>2
        <5>2. Integer(stored[2])  BY <5>1 DEF Integer
        <5> QED  BY <2>3, <5>1, <5>2 DEF Returned, Integer
      <4> QED  BY <2>3, <3>2, <4>1 DEF FilterValue, Converted, Affinity, Error
    <3>3. CASE stored = <<"num", 2>>
      <4>1. Returned(type, stored) = "true"  
        <5>1. stored[1] = "num" /\ stored[2] = 2  BY <3>3
        <5>2. Integer(stored[2])  BY <5>1 DEF Integer
        <5> QED  BY <2>3, <5>1, <5>2 DEF Returned, Integer
      <4> QED  BY <2>3, <3>3, <4>1 DEF FilterValue, Converted, Affinity, Error
    <3> QED  BY <3>1, <3>2, <3>3
  <2>4. CASE type # "BOOLEAN"
    <3>1. Returned(type, stored) = TextOf(stored[2])  BY <2>4, <1>1 DEF Returned, TextOf
    <3>2. CASE type = "INTEGER"
      <4>1. stored[1] = "num" /\ Integer(stored[2])
        BY <3>2, <1>1 DEF Fits, TimeTypes
      <4>2. FilterValue(type, TextOf(stored[2])) = stored
        BY <3>2, <4>1, <2>1, <1>1 DEF FilterValue
      <4>3. Converted(type, stored) = stored
        BY <3>2, <4>1 DEF Converted, Affinity
      <4> QED  BY <3>1, <4>1, <4>2, <4>3 DEF Error
    <3>3. CASE type \in {"REAL", "NUMERIC"}
      BY <3>1, <3>3, <2>1, <1>1 DEF FilterValue, Converted, Fits, Affinity, Error
    <3>4. CASE type \in {"DECIMAL"} \cup TimeTypes
      <4>1. /\ type \notin {"INTEGER", "REAL", "NUMERIC", "BOOLEAN", "TEXT", "BLOB", ""}
            /\ Affinity(type) = "numeric"
        BY <3>4 DEF TimeTypes, Affinity
      <4>2. FilterValue(type, TextOf(stored[2])) = <<"text", TextOf(stored[2])>>
        BY <4>1 DEF FilterValue, Text
      <4>3. Converted(type, <<"text", TextOf(stored[2])>>) = <<"num", stored[2]>>
        BY <4>1, <2>1 DEF Converted
      <4> QED  BY <3>1, <4>2, <4>3, <1>1 DEF Error
    <3> QED  BY <2>2, <2>4, <3>2, <3>3, <3>4
  <2> QED  BY <2>3, <2>4
<1>2. CASE stored = <<"text", stored[2]>>
  <2>1. stored[1] = "text"  BY <1>2
  <2>2. type \in {"TEXT", "DECIMAL", ""} \cup TimeTypes  BY <2>1 DEF ColumnTypes, Fits
  <2>3. Returned(type, stored) = stored[2]
    <3>1. type \in TimeTypes /\ stored[2] \in DOMAIN Times => Times[stored[2]] = stored[2]
      BY <2>1 DEF Fits, TimeTypes
    <3> QED  BY <2>1, <3>1 DEF Returned
  <2>4. FilterValue(type, stored[2]) = stored  BY <1>2, <2>2 DEF FilterValue, Text, TimeTypes
  <2>5. Affinity(type) = "numeric" => stored[2] \notin DOMAIN Numerals  BY <2>1
  <2>6. Converted(type, stored) = stored  BY <2>1, <2>5 DEF Converted
  <2>7. stored # Error  BY <2>1 DEF Error
  <2> QED  BY <2>3, <2>4, <2>6, <2>7
<1>3. CASE stored = <<"blob", stored[2]>> /\ stored[2] \in Encodings /\ type = "BLOB"
  <2>1. stored[1] = "blob"  BY <1>3
  <2>2. Returned(type, stored) = stored[2]  BY <1>3, <2>1 DEF Returned
  <2>3. FilterValue(type, stored[2]) = stored  BY <1>3 DEF FilterValue, Text
  <2>4. Converted(type, stored) = stored  BY <2>1 DEF Converted
  <2>5. stored # Error  BY <2>1 DEF Error
  <2> QED  BY <2>2, <2>3, <2>4, <2>5
<1> QED  BY <1>1, <1>2, <1>3 DEF IsStored

\* What a request wrote is found by what was returned of it.
LEMMA FindsRecord ==
  ASSUME input.rule = "values", IsWrite(input)
  PROVE  RecordsAreFound
<1> DEFINE type == input.type
           value == NativeRecordValue(input.type, input.json)
           stored == Converted(type, value)
           raw == Returned(type, stored)
           finds(op, operand) == Satisfies(type, stored, [operator |-> op, operand |-> operand])
<1> SUFFICES ASSUME value # Error
             PROVE  IF stored = Null THEN finds("is", "null") /\ ~finds("is", "notnull")
                    ELSE Fits(type, stored) =>
                           /\ finds("eq", raw) /\ finds("in", {raw}) /\ finds("is", "notnull")
                           /\ ~finds("neq", raw) /\ ~finds("is", "null")
  BY DEF RecordsAreFound
<1>1. type \in ColumnTypes  BY DEF IsWrite
<1>2. IsStored(type, value)  BY NativeValues, <1>1 DEF IsWrite
<1>3. /\ IsStored(type, stored)
      /\ stored[1] = "text" /\ Affinity(type) = "numeric" => stored[2] \notin DOMAIN Numerals
      /\ stored[1] = "num" => Affinity(type) # "text"
  BY <1>1, <1>2, StoredValues
<1>4. /\ finds("is", "null") <=> stored = Null
      /\ finds("is", "notnull") <=> stored # Null
  BY DEF Satisfies
<1>5. CASE stored # Null /\ Fits(type, stored)
  <2>1. FilterValue(type, raw) # Error /\ Converted(type, FilterValue(type, raw)) = stored
    BY <1>1, <1>3, <1>5, ComesBack
  <2>2. finds("eq", raw) /\ finds("in", {raw}) /\ ~finds("neq", raw)
    BY <1>5, <2>1 DEF Satisfies
  <2> QED  BY <1>4, <1>5, <2>2
<1> QED  BY <1>4, <1>5
=============================================================================
