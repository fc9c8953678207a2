--------------------------- MODULE PtrTableProofs ---------------------------
(***************************************************************************)
(* Facts that several components need: about the pointer tables, for every *)
(* size and every content, what the search loop finds and what             *)
(* registration and removal keep; and about a stack without its top.       *)
(***************************************************************************)
EXTENDS PtrTable, FiniteSets, FiniteSetTheorems, SequenceTheorems,
        WellFoundedInduction, TLAPS

(* An array with integer indexes of which the first n are registered.      *)
IsTable(t, n) ==
  /\ t = [k \in DOMAIN t |-> t[k]]
  /\ DOMAIN t \subseteq Int
  /\ n \in Nat
  /\ 0 .. n - 1 \subseteq DOMAIN t

(* A nonempty set of naturals has a least element.                         *)
LEMMA LeastNatural ==
  ASSUME NEW M \in SUBSET Nat, M # {}
  PROVE  \E k \in M : \A j \in M : k <= j
<1>1. PICK k \in M : \A j \in M : <<j, k>> \notin OpToRel(<, Nat)
  BY NatLessThanWellFounded, WFMin, Zenon
<1>2. \A j \in M : j \in Nat
  OBVIOUS
<1>3. \A j \in M : ~(j < k)
  BY <1>1, <1>2, Zenon DEF OpToRel
<1> QED
  BY <1>2, <1>3

(* The search loop stops at the first index that holds the pointer.        *)
LEMMA FirstAtIsFirst ==
  ASSUME NEW t, NEW n \in Nat, NEW x \in Entries(t, n)
  PROVE  /\ FirstAt(t, n, x) \in 0 .. n - 1
         /\ t[FirstAt(t, n, x)] = x
         /\ \A j \in 0 .. n - 1 : t[j] = x => FirstAt(t, n, x) <= j
<1> DEFINE M == IndexesOf(t, n, x)
<1>1. M \in SUBSET Nat /\ M # {}
  BY DEF IndexesOf, Entries
<1>2. \E k \in M : \A j \in M : k <= j
  <2> HIDE DEF M
  <2> QED
    BY <1>1, LeastNatural
<1>3. FirstAt(t, n, x) \in M /\ \A j \in M : FirstAt(t, n, x) <= j
  BY <1>2 DEF FirstAt
<1> QED
  BY <1>3 DEF IndexesOf

(* Registration keeps the entries apart and adds the new one.              *)
LEMMA PutAdds ==
  ASSUME NEW t, NEW n, NEW x, IsTable(t, n), n \in DOMAIN t
  PROVE  /\ IsTable(Put(t, n, x), n + 1)
         /\ Entries(Put(t, n, x), n + 1) = Entries(t, n) \union {x}
         /\ NoDuplicates(t, n) /\ x \notin Entries(t, n)
              => NoDuplicates(Put(t, n, x), n + 1)
         /\ \A k \in 0 .. n - 1 : Put(t, n, x)[k] = t[k]
<1> n \in Nat
  BY DEF IsTable
<1>1. /\ Put(t, n, x) = [k \in DOMAIN t |-> IF k = n THEN x ELSE t[k]]
      /\ \A k \in 0 .. n - 1 : Put(t, n, x)[k] = t[k]
      /\ Put(t, n, x)[n] = x
  BY DEF Put, IsTable
<1>2. 0 .. n + 1 - 1 = (0 .. n - 1) \union {n}
  OBVIOUS
<1>3. Entries(Put(t, n, x), n + 1) = Entries(t, n) \union {x}
  BY <1>1, <1>2 DEF Entries
<1>4. NoDuplicates(t, n) /\ x \notin Entries(t, n)
        => NoDuplicates(Put(t, n, x), n + 1)
  BY <1>1, <1>2 DEF NoDuplicates, Entries
<1>5. IsTable(Put(t, n, x), n + 1)
  BY <1>1, <1>2 DEF IsTable
<1> QED
  BY <1>1, <1>3, <1>4, <1>5

(* Removal keeps the array an array of the same pointers.                  *)
LEMMA RemovedType ==
  ASSUME NEW S, NEW D, D \subseteq Int, NEW t \in [D -> S], NEW n \in Nat, NEW x,
         0 .. n - 1 \subseteq D
  PROVE  /\ Removed(t, n, x) \in [D -> S]
         /\ CountAfter(t, n, x) \in 0 .. n
<1>1. CountAfter(t, n, x) \in 0 .. n
  BY DEF CountAfter, Entries
<1>2. ASSUME NEW f \in 0 .. n - 1
      PROVE  ShiftDown(t, n, f) \in [D -> S]
  BY <1>2 DEF ShiftDown
<1> QED
  BY <1>1, <1>2, FirstAtIsFirst DEF Removed

(* The entry at k after the removal of the one at f.                       *)
LEMMA ShiftDownEntry ==
  ASSUME NEW t, NEW n, IsTable(t, n), NEW f \in 0 .. n - 1, NEW k \in 0 .. n - 2
  PROVE  ShiftDown(t, n, f)[k] = IF k < f THEN t[k] ELSE t[k + 1]
BY DEF ShiftDown, IsTable

(* From a table without duplicates a removal takes its entry, nothing more. *)
LEMMA RemovedEntries ==
  ASSUME NEW t, NEW n, NEW x, IsTable(t, n), NoDuplicates(t, n)
  PROVE  /\ Entries(Removed(t, n, x), CountAfter(t, n, x))
              = Entries(t, n) \ {x}
         /\ NoDuplicates(Removed(t, n, x), CountAfter(t, n, x))
<1> n \in Nat
  BY DEF IsTable
<1>1. CASE x \notin Entries(t, n)
  BY <1>1 DEF Removed, CountAfter
<1>2. CASE x \in Entries(t, n)
  <2> DEFINE f == FirstAt(t, n, x)
             r == ShiftDown(t, n, f)
  <2>1. /\ Removed(t, n, x) = r
        /\ CountAfter(t, n, x) = n - 1
    BY <1>2 DEF Removed, CountAfter
  <2>2. f \in 0 .. n - 1 /\ t[f] = x
    BY <1>2, FirstAtIsFirst
  <2>3. \A j \in 0 .. n - 1 : t[j] = x => j = f
    BY <2>2 DEF NoDuplicates
  <2>4. \A k \in 0 .. n - 2 : r[k] = IF k < f THEN t[k] ELSE t[k + 1]
    BY <2>2, ShiftDownEntry
  <2> HIDE DEF f, r
  <2>5. Entries(r, n - 1) \subseteq Entries(t, n) \ {x}
    <3> SUFFICES ASSUME NEW k \in 0 .. n - 2
                 PROVE  r[k] \in Entries(t, n) \ {x}
      BY DEF Entries
    <3>1. CASE k < f
      BY <3>1, <2>2, <2>3, <2>4 DEF Entries
    <3>2. CASE ~(k < f)
      BY <3>2, <2>2, <2>3, <2>4 DEF Entries
    <3> QED
      BY <3>1, <3>2
  <2>6. Entries(t, n) \ {x} \subseteq Entries(r, n - 1)
    <3> SUFFICES ASSUME NEW j \in 0 .. n - 1, j # f
                 PROVE  t[j] \in Entries(r, n - 1)
      BY <2>2 DEF Entries
    <3>1. CASE j < f
      BY <3>1, <2>2, <2>4 DEF Entries
    <3>2. CASE f < j
      <4>1. j - 1 \in 0 .. n - 2 /\ ~(j - 1 < f) /\ (j - 1) + 1 = j
        BY <3>2, <2>2
      <4>2. r[j - 1] = t[j]
        BY <4>1, <2>4
      <4> QED
        BY <4>1, <4>2 DEF Entries
    <3> QED
      BY <3>1, <3>2, <2>2
  <2>7. NoDuplicates(r, n - 1)
    <3> SUFFICES ASSUME NEW j \in 0 .. n - 2, NEW k \in 0 .. n - 2, r[j] = r[k]
                 PROVE  j = k
      BY DEF NoDuplicates
    <3> QED
      BY <2>2, <2>4 DEF NoDuplicates
  <2> QED
    BY <2>1, <2>5, <2>6, <2>7
<1> QED
  BY <1>1, <1>2

(* Registration keeps the order of what is registered.                     *)
LEMMA PutKeepsOrder ==
  ASSUME NEW t, NEW n, NEW x, NEW y, NEW z, IsTable(t, n), n \in DOMAIN t,
         Before(t, n, y, z)
  PROVE  Before(Put(t, n, x), n + 1, y, z)
<1>1. \A k \in 0 .. n - 1 : k \in 0 .. (n + 1) - 1
  BY DEF IsTable
<1> QED
  BY <1>1, PutAdds DEF Before

(* Removal keeps the order of what stays.                                  *)
LEMMA RemovedKeepsOrder ==
  ASSUME NEW t, NEW n, NEW x, NEW y, NEW z, IsTable(t, n),
         Before(t, n, y, z), y # x, z # x
  PROVE  Before(Removed(t, n, x), CountAfter(t, n, x), y, z)
<1> n \in Nat
  BY DEF IsTable
<1>1. CASE x \notin Entries(t, n)
  BY <1>1 DEF Removed, CountAfter
<1>2. CASE x \in Entries(t, n)
  <2> DEFINE f == FirstAt(t, n, x)
             r == ShiftDown(t, n, f)
             Place(k) == IF k < f THEN k ELSE k - 1
  <2>1. /\ Removed(t, n, x) = r
        /\ CountAfter(t, n, x) = n - 1
    BY <1>2 DEF Removed, CountAfter
  <2>2. f \in 0 .. n - 1 /\ t[f] = x
    BY <1>2, FirstAtIsFirst
  <2>3. \A k \in 0 .. n - 2 : r[k] = IF k < f THEN t[k] ELSE t[k + 1]
    BY <2>2, ShiftDownEntry
  <2> HIDE DEF f, r
  <2>4. \A k \in 0 .. n - 1 :
          k # f => Place(k) \in 0 .. n - 2 /\ r[Place(k)] = t[k]
    <3> SUFFICES ASSUME NEW k \in 0 .. n - 1, k # f
                 PROVE  Place(k) \in 0 .. n - 2 /\ r[Place(k)] = t[k]
      OBVIOUS
    <3>1. CASE k < f
      BY <3>1, <2>2, <2>3
    <3>2. CASE f < k
      <4>1. k - 1 \in 0 .. n - 2 /\ ~(k - 1 < f) /\ (k - 1) + 1 = k /\ ~(k < f)
        BY <3>2, <2>2
      <4> QED
        BY <4>1, <2>3
    <3> QED
      BY <3>1, <3>2, <2>2
  <2>5. PICK a \in 0 .. n - 1, b \in 0 .. n - 1 : a < b /\ t[a] = y /\ t[b] = z
    BY DEF Before
  <2>6. Place(a) < Place(b)
    BY <2>2, <2>5
  <2>7. /\ Place(a) \in 0 .. n - 2 /\ r[Place(a)] = y
        /\ Place(b) \in 0 .. n - 2 /\ r[Place(b)] = z
    BY <2>2, <2>4, <2>5
  <2>8. Before(r, n - 1, y, z)
    <3> HIDE DEF Place
    <3>1. Place(a) \in 0 .. (n - 1) - 1 /\ Place(b) \in 0 .. (n - 1) - 1
      BY <2>7
    <3> QED
      BY <2>6, <2>7, <3>1 DEF Before
  <2> QED
    BY <2>1, <2>8
<1> QED
  BY <1>1, <1>2

(* A table without duplicates holds as many pointers as it counts.         *)
LEMMA EntriesCardinality ==
  ASSUME NEW t, NEW n, IsTable(t, n), NoDuplicates(t, n)
  PROVE  IsFiniteSet(Entries(t, n)) /\ Cardinality(Entries(t, n)) = n
<1> DEFINE I == 0 .. n - 1
           f == [k \in I |-> t[k]]
<1>1. n \in Nat
  BY DEF IsTable
<1>2. IsFiniteSet(I) /\ Cardinality(I) = n
  BY <1>1, FS_Interval
<1>3. f \in Surjection(I, Entries(t, n))
  BY DEF Surjection, Entries
<1>4. f \in Injection(I, Entries(t, n))
  BY DEF Injection, Entries, NoDuplicates, IsInjective
<1>5. ExistsBijection(I, Entries(t, n))
  BY <1>3, <1>4 DEF ExistsBijection, Bijection
<1> QED
  BY <1>2, <1>5, FS_Bijection, Zenon

(* How often a pointer is listed, whatever the other entries are.          *)
AtMostOnce(t, n, x) == \A j, k \in 0 .. n - 1 : t[j] = x /\ t[k] = x => j = k
AtMostTwice(t, n, x) ==
  \A j, k, l \in 0 .. n - 1 :
    t[j] = x /\ t[k] = x /\ t[l] = x => j = k \/ k = l \/ j = l

(* Registration of y lists y once more and leaves the others.              *)
LEMMA PutOccurrences ==
  ASSUME NEW t, NEW n, NEW x, NEW y, IsTable(t, n), n \in DOMAIN t
  PROVE  /\ x # y /\ AtMostOnce(t, n, x) => AtMostOnce(Put(t, n, y), n + 1, x)
         /\ x # y /\ AtMostTwice(t, n, x) => AtMostTwice(Put(t, n, y), n + 1, x)
         /\ y \notin Entries(t, n) => AtMostOnce(Put(t, n, y), n + 1, y)
         /\ AtMostOnce(t, n, y) => AtMostTwice(Put(t, n, y), n + 1, y)
<1> DEFINE u == Put(t, n, y)
<1>1. n \in Nat /\ 0 .. (n + 1) - 1 = (0 .. n - 1) \union {n}
  BY DEF IsTable
<1>2. u[n] = y /\ \A k \in 0 .. n - 1 : u[k] = t[k]
  BY DEF Put, IsTable
<1> HIDE DEF u
<1>3. x # y /\ AtMostOnce(t, n, x) => AtMostOnce(u, n + 1, x)
  BY <1>1, <1>2 DEF AtMostOnce
<1>4. x # y /\ AtMostTwice(t, n, x) => AtMostTwice(u, n + 1, x)
  BY <1>1, <1>2 DEF AtMostTwice
<1>5. y \notin Entries(t, n) => AtMostOnce(u, n + 1, y)
  BY <1>1, <1>2 DEF AtMostOnce, Entries
<1>6. AtMostOnce(t, n, y) => AtMostTwice(u, n + 1, y)
  BY <1>1, <1>2 DEF AtMostOnce, AtMostTwice
<1> QED
  BY <1>3, <1>4, <1>5, <1>6 DEF u

(* Removal of y lists y once less, if it was listed, and leaves the others. *)
LEMMA RemovedOccurrences ==
  ASSUME NEW t, NEW n, NEW y, IsTable(t, n)
  PROVE  LET r == Removed(t, n, y)
             m == CountAfter(t, n, y)
         IN  /\ Entries(r, m) \subseteq Entries(t, n)
             /\ \A x : AtMostOnce(t, n, x) => AtMostOnce(r, m, x)
             /\ \A x : AtMostTwice(t, n, x) => AtMostTwice(r, m, x)
             /\ AtMostTwice(t, n, y) => AtMostOnce(r, m, y)
             /\ AtMostOnce(t, n, y) => y \notin Entries(r, m)
<1> DEFINE r == Removed(t, n, y)
           m == CountAfter(t, n, y)
<1>1. CASE y \notin Entries(t, n)
  <2>1. r = t /\ m = n
    BY <1>1 DEF Removed, CountAfter
  <2>2. AtMostOnce(t, n, y)
    BY <1>1 DEF AtMostOnce, Entries
  <2> HIDE DEF r, m
  <2>3. /\ Entries(r, m) \subseteq Entries(t, n)
        /\ \A x : AtMostOnce(t, n, x) => AtMostOnce(r, m, x)
        /\ \A x : AtMostTwice(t, n, x) => AtMostTwice(r, m, x)
        /\ AtMostTwice(t, n, y) => AtMostOnce(r, m, y)
        /\ AtMostOnce(t, n, y) => y \notin Entries(r, m)
    BY <1>1, <2>1, <2>2
  <2> QED
    BY <2>3 DEF r, m
<1>2. CASE y \in Entries(t, n)
  <2> DEFINE f == FirstAt(t, n, y)
             Up(k) == IF k < f THEN k ELSE k + 1
  <2>1. n \in Nat /\ f \in 0 .. n - 1 /\ t[f] = y
    BY <1>2, FirstAtIsFirst DEF IsTable
  <2>2. m = n - 1 /\ r = ShiftDown(t, n, f)
    BY <1>2 DEF Removed, CountAfter
  <2>3. \A k \in 0 .. n - 2 : r[k] = IF k < f THEN t[k] ELSE t[k + 1]
    BY <2>1, <2>2, ShiftDownEntry
  <2> HIDE DEF r, m, f
  <2>4. \A k \in 0 .. m - 1 : Up(k) \in 0 .. n - 1 /\ Up(k) # f /\ t[Up(k)] = r[k]
    BY <2>1, <2>2, <2>3
  <2>5. \A j, k \in 0 .. m - 1 : Up(j) = Up(k) => j = k
    BY <2>1, <2>2
  <2> HIDE DEF Up
  <2>6. Entries(r, m) \subseteq Entries(t, n)
    BY <2>4 DEF Entries
  <2>7. \A x : AtMostOnce(t, n, x) => AtMostOnce(r, m, x)
    BY <2>4, <2>5 DEF AtMostOnce
  <2>8. \A x : AtMostTwice(t, n, x) => AtMostTwice(r, m, x)
    BY <2>4, <2>5 DEF AtMostTwice
  <2>9. AtMostTwice(t, n, y) => AtMostOnce(r, m, y)
    BY <2>1, <2>4, <2>5 DEF AtMostOnce, AtMostTwice
  <2>10. AtMostOnce(t, n, y) => y \notin Entries(r, m)
    BY <2>1, <2>4 DEF AtMostOnce, Entries
  <2> QED
    BY <2>6, <2>7, <2>8, <2>9, <2>10 DEF r, m
<1> QED
  BY <1>1, <1>2

(* A sequence without its last element. *)
LEMMA WithoutLast ==
  ASSUME NEW S, NEW s \in Seq(S), s # <<>>
  PROVE  /\ SubSeq(s, 1, Len(s) - 1) \in Seq(S)
         /\ Len(SubSeq(s, 1, Len(s) - 1)) = Len(s) - 1
         /\ \A k \in 1 .. Len(s) - 1 : SubSeq(s, 1, Len(s) - 1)[k] = s[k]
<1> DEFINE m == Len(s) - 1
<1>1. m \in Nat /\ \A k \in 1 .. m : s[k] \in S
  OBVIOUS
<1> HIDE DEF m
<1>2. SubSeq(s, 1, m) \in Seq(S)
  BY <1>1, SubSeqProperties
<1>3. Len(SubSeq(s, 1, m)) = m
  BY <1>1, SubSeqProperties
<1>4. \A k \in 1 .. m : SubSeq(s, 1, m)[k] = s[k]
  BY <1>1, SubSeqProperties
<1> QED
  BY <1>2, <1>3, <1>4 DEF m
=============================================================================
