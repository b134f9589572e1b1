------------------------- MODULE ConsistentHashProof -------------------------
(***************************************************************************)
(* Theorems about ConsistentHash, for any nodes, any number of replicas    *)
(* and any hash function.                                                  *)
(***************************************************************************)
EXTENDS ConsistentHash, FiniteSetTheorems, SequenceTheorems, WellFoundedInduction, TLAPS

(***************************************************************************)
(* Induction, with the set of the numbers that have the property           *)
(***************************************************************************)

\* A set of numbers that is not empty has a least one.
LEMMA LeastNumber ==
  ASSUME NEW T \in SUBSET Nat, T # {}
  PROVE  \E x \in T : \A y \in T : x <= y
<1> DEFINE R == OpToRel(<, Nat)
<1>1. IsWellFoundedOn(R, Nat)
  BY NatLessThanWellFounded
<1>2. PICK x \in T : \A y \in T : ~(<<y, x>> \in R)
  BY <1>1, WFMin
<1>3. \A y \in T : ~(y < x)
  BY <1>2 DEF OpToRel
<1> QED BY <1>3

\* What holds of 0 and goes from a number to the next holds up to n.
LEMMA UpTo ==
  ASSUME NEW n \in Nat, NEW J, 0 \in J, \A i \in 1..n : i - 1 \in J => i \in J
  PROVE  0..n \subseteq J
<1> DEFINE T == {i \in 0..n : i \notin J}
<1>1. CASE T # {}
  <2>1. T \in SUBSET Nat
    OBVIOUS
  <2>2. PICK x \in T : \A y \in T : x <= y
    BY <1>1, <2>1, LeastNumber
  <2>3. x \in 1..n
    BY <2>2
  <2>4. x - 1 \in 0..n /\ x - 1 \notin T
    BY <2>2, <2>3
  <2> QED BY <2>2, <2>3, <2>4
<1> QED BY <1>1

\* The steps F[1], ..., F[n] can be applied to s, one after the other.
Iterates(S, n, s, F) ==
  \E g \in [0..n -> S] : g[0] = s /\ \A i \in 1..n : g[i] = F[i][g[i - 1]]

\* Steps on S.
Steps(S, n, F) == F \in [1..n -> [S -> S]]

\* Steps have their intermediate results.
LEMMA Iteration ==
  ASSUME NEW S, NEW n \in Nat, NEW s \in S, NEW F, Steps(S, n, F)
  PROVE  Iterates(S, n, s, F)
<1>0. F \in [1..n -> [S -> S]]
  BY DEF Steps
<1> DEFINE Good(k, g) == g[0] = s /\ \A i \in 1..k : g[i] = F[i][g[i - 1]]
           J == {k \in 0..n : \E g \in [0..k -> S] : Good(k, g)}
<1>1. 0 \in J
  <2> DEFINE f == [i \in 0..0 |-> s]
  <2>1. f \in [0..0 -> S] /\ f[0] = s /\ 1..0 = {}
    OBVIOUS
  <2>2. Good(0, f) /\ 0 \in 0..n
    BY <2>1
  <2> HIDE DEF f, Good
  <2> QED BY <2>1, <2>2
<1>2. ASSUME NEW k \in 1..n, k - 1 \in J
      PROVE  k \in J
  <2>1. PICK g \in [0..k - 1 -> S] : Good(k - 1, g)
    BY <1>2
  <2> DEFINE f == [i \in 0..k |-> IF i = k THEN F[k][g[k - 1]] ELSE g[i]]
  <2>2. g[k - 1] \in S
    OBVIOUS
  <2>3. F[k][g[k - 1]] \in S
    BY <1>0, <2>2
  <2>4. f \in [0..k -> S]
    BY <2>3
  <2>5. f[0] = s
    BY <2>1
  <2>6. ASSUME NEW i \in 1..k PROVE f[i] = F[i][f[i - 1]]
    <3>1. i - 1 \in 0..k /\ i - 1 # k /\ f[i - 1] = g[i - 1]
      OBVIOUS
    <3>2. CASE i = k
      BY <3>1, <3>2
    <3>3. CASE i # k
      <4>1. i \in 1..k - 1 /\ f[i] = g[i]
        BY <3>3
      <4> QED BY <2>1, <3>1, <4>1
    <3> QED BY <3>2, <3>3
  <2>7. Good(k, f)
    BY <2>5, <2>6
  <2> HIDE DEF f, Good
  <2> QED BY <2>4, <2>7
<1>3. 0..n \subseteq J
  <2> HIDE DEF J
  <2> QED BY <1>1, <1>2, UpTo
<1> QED BY <1>3 DEF Iterates
-----------------------------------------------------------------------------
(***************************************************************************)
(* Searching                                                               *)
(***************************************************************************)

Sorted(s) == \A i, j \in DOMAIN s : i <= j => s[i] <= s[j]
Strict(s) == \A i, j \in DOMAIN s : i < j => s[i] < s[j]

\* A set of indices without gaps from 1 on is known by its cardinality.
LEMMA DownClosed ==
  ASSUME NEW n \in Nat, NEW D \in SUBSET (1..n), \A i \in D : \A j \in 1..n : j <= i => j \in D
  PROVE  Cardinality(D) \in 0..n /\ D = 1..Cardinality(D)
<1> DEFINE T == {i \in 1..n + 1 : i \notin D}
<1>1. T \in SUBSET Nat /\ n + 1 \in T
  OBVIOUS
<1>2. PICK m \in T : \A y \in T : m <= y
  BY <1>1, LeastNumber
<1>3. m \in 1..n + 1 /\ m \notin D
  OBVIOUS
<1>4. ASSUME NEW i \in 1..n PROVE i \in D <=> i <= m - 1
  <2>1. CASE i < m
    <3>1. i \notin T
      BY <1>2, <1>3, <2>1
    <3> QED BY <1>3, <2>1, <3>1
  <2>2. CASE i >= m
    BY <1>3, <2>2
  <2> QED BY <1>3, <2>1, <2>2
<1>5. D = 1..m - 1
  <2>1. \A i \in 1..m - 1 : i \in 1..n
    BY <1>3
  <2>2. \A i \in 1..n : i <= m - 1 => i \in 1..m - 1
    BY <1>3
  <2>3. \A i \in D : i \in 1..m - 1
    BY <1>4, <2>2
  <2>4. \A i \in 1..m - 1 : i \in D
    BY <1>3, <1>4, <2>1
  <2> QED BY <2>3, <2>4
<1>6. Cardinality(1..m - 1) = m - 1
  BY <1>3, FS_Interval
<1> QED BY <1>3, <1>5, <1>6

\* A bound is a place in the list or the one behind it.
LEMMA BoundTypes ==
  ASSUME NEW s \in Seq(Hashes), NEW h
  PROVE  LowerBound(s, h) \in 1..Len(s) + 1 /\ UpperBound(s, h) \in 1..Len(s) + 1
<1>1. Len(s) \in Nat /\ DOMAIN s = 1..Len(s)
  BY LenProperties
<1>2. IsFiniteSet(1..Len(s)) /\ Cardinality(1..Len(s)) = Len(s)
  BY <1>1, FS_Interval
<1>3. ASSUME NEW D \in SUBSET (1..Len(s)) PROVE Cardinality(D) \in 0..Len(s)
  <2>1. IsFiniteSet(D) /\ Cardinality(D) <= Len(s)
    BY <1>2, FS_Subset
  <2>2. Cardinality(D) \in Nat
    BY <2>1, FS_CardinalityType
  <2> QED BY <1>1, <2>1, <2>2
<1> QED BY <1>1, <1>3 DEF LowerBound, UpperBound

\* The bounds split a sorted list.
LEMMA BoundsSplit ==
  ASSUME NEW s \in Seq(Hashes), Sorted(s), NEW h \in Hashes, NEW i \in 1..Len(s)
  PROVE  /\ i < LowerBound(s, h) <=> s[i] < h
         /\ i < UpperBound(s, h) <=> s[i] <= h
<1> DEFINE n == Len(s)
           L == {j \in DOMAIN s : s[j] < h}
           U == {j \in DOMAIN s : s[j] <= h}
<1>1. n \in Nat /\ DOMAIN s = 1..n /\ (\A j \in 1..n : s[j] \in Nat) /\ h \in Nat
  BY LenProperties, RingAssumption DEF Hashes
<1>2. L \in SUBSET (1..n) /\ \A j \in L : \A k \in 1..n : k <= j => k \in L
  <2>1. L \in SUBSET (1..n)
    BY <1>1
  <2>2. ASSUME NEW j \in L, NEW k \in 1..n, k <= j PROVE k \in L
    <3>1. j \in 1..n /\ s[j] < h
      BY <1>1
    <3>2. s[k] <= s[j]
      BY <1>1, <2>2, <3>1 DEF Sorted
    <3>3. s[k] < h
      BY <1>1, <3>1, <3>2
    <3> QED BY <1>1, <3>3
  <2> QED BY <2>1, <2>2
<1>3. U \in SUBSET (1..n) /\ \A j \in U : \A k \in 1..n : k <= j => k \in U
  <2>1. U \in SUBSET (1..n)
    BY <1>1
  <2>2. ASSUME NEW j \in U, NEW k \in 1..n, k <= j PROVE k \in U
    <3>1. j \in 1..n /\ s[j] <= h
      BY <1>1
    <3>2. s[k] <= s[j]
      BY <1>1, <2>2, <3>1 DEF Sorted
    <3>3. s[k] <= h
      BY <1>1, <3>1, <3>2
    <3> QED BY <1>1, <3>3
  <2> QED BY <2>1, <2>2
<1>4. Cardinality(L) \in 0..n /\ L = 1..Cardinality(L)
  <2> HIDE DEF L, n
  <2> QED BY <1>1, <1>2, DownClosed
<1>5. Cardinality(U) \in 0..n /\ U = 1..Cardinality(U)
  <2> HIDE DEF U, n
  <2> QED BY <1>1, <1>3, DownClosed
<1>6. i < LowerBound(s, h) <=> i \in L
  <2>1. LowerBound(s, h) = 1 + Cardinality(L)
    BY DEF LowerBound
  <2> HIDE DEF L
  <2> QED BY <1>1, <1>4, <2>1
<1>7. i < UpperBound(s, h) <=> i \in U
  <2>1. UpperBound(s, h) = 1 + Cardinality(U)
    BY DEF UpperBound
  <2> HIDE DEF U
  <2> QED BY <1>1, <1>5, <2>1
<1> QED BY <1>1, <1>6, <1>7
-----------------------------------------------------------------------------
(***************************************************************************)
(* Inserting and erasing one hash                                          *)
(***************************************************************************)

\* The beginning and the end of a list.
LEMMA Pieces ==
  ASSUME NEW s \in Seq(Hashes), NEW at \in 1..Len(s) + 1
  PROVE  /\ SubSeq(s, 1, at - 1) \in Seq(Hashes) /\ SubSeq(s, at, Len(s)) \in Seq(Hashes)
         /\ Len(SubSeq(s, 1, at - 1)) = at - 1 /\ Len(SubSeq(s, at, Len(s))) = Len(s) + 1 - at
         /\ \A i \in 1..at - 1 : SubSeq(s, 1, at - 1)[i] = s[i]
         /\ \A i \in 1..Len(s) + 1 - at : SubSeq(s, at, Len(s))[i] = s[at + i - 1]
<1>1. Len(s) \in Nat /\ \A i \in 1..Len(s) : s[i] \in Hashes
  BY LenProperties
<1>2. (\A i \in 1..at - 1 : s[i] \in Hashes) /\ (\A i \in at..Len(s) : s[i] \in Hashes)
  BY <1>1
<1>3. at \in Int /\ at - 1 \in Int /\ Len(s) \in Int /\ 1 \in Int
  BY <1>1
<1>4. /\ SubSeq(s, 1, at - 1) \in Seq(Hashes)
      /\ Len(SubSeq(s, 1, at - 1)) = IF 1 <= at - 1 THEN at - 1 - 1 + 1 ELSE 0
      /\ \A i \in 1..at - 1 - 1 + 1 : SubSeq(s, 1, at - 1)[i] = s[1 + i - 1]
  BY <1>2, <1>3, SubSeqProperties
<1>5. /\ SubSeq(s, at, Len(s)) \in Seq(Hashes)
      /\ Len(SubSeq(s, at, Len(s))) = IF at <= Len(s) THEN Len(s) - at + 1 ELSE 0
      /\ \A i \in 1..Len(s) - at + 1 : SubSeq(s, at, Len(s))[i] = s[at + i - 1]
  BY <1>2, <1>3, SubSeqProperties
<1>6. Len(SubSeq(s, 1, at - 1)) = at - 1 /\ Len(SubSeq(s, at, Len(s))) = Len(s) + 1 - at
  BY <1>1, <1>4, <1>5
<1>7. \A i \in 1..at - 1 : SubSeq(s, 1, at - 1)[i] = s[i]
  BY <1>1, <1>4
<1>8. \A i \in 1..Len(s) + 1 - at : SubSeq(s, at, Len(s))[i] = s[at + i - 1]
  BY <1>1, <1>5
<1> QED BY <1>4, <1>5, <1>6, <1>7, <1>8

\* Insert puts the hash at its lower bound and moves what follows.
LEMMA InsertPlaces ==
  ASSUME NEW s \in Seq(Hashes), NEW h \in Hashes
  PROVE  LET at == LowerBound(s, h)
             r == Insert(s, h)
         IN /\ r \in Seq(Hashes) /\ Len(r) = Len(s) + 1
            /\ \A i \in 1..at - 1 : r[i] = s[i]
            /\ r[at] = h
            /\ \A i \in at + 1..Len(s) + 1 : r[i] = s[i - 1]
<1> DEFINE at == LowerBound(s, h)
           a == SubSeq(s, 1, at - 1)
           b == SubSeq(s, at, Len(s))
<1>1. Len(s) \in Nat /\ at \in 1..Len(s) + 1
  BY LenProperties, BoundTypes
<1> HIDE DEF at
<1>2. /\ a \in Seq(Hashes) /\ b \in Seq(Hashes)
      /\ Len(a) = at - 1 /\ Len(b) = Len(s) + 1 - at
      /\ \A i \in 1..at - 1 : a[i] = s[i]
      /\ \A i \in 1..Len(s) + 1 - at : b[i] = s[at + i - 1]
  BY <1>1, Pieces
<1> HIDE DEF a, b
<1> DEFINE m == a \o <<h>>
           r == m \o b
<1>3. Insert(s, h) = r
  BY DEF Insert, a, b, at
<1>4. <<h>> \in Seq(Hashes) /\ Len(<<h>>) = 1 /\ <<h>>[1] = h
  OBVIOUS
<1>5. /\ m \in Seq(Hashes) /\ Len(m) = at
      /\ \A i \in 1..at : m[i] = IF i <= at - 1 THEN a[i] ELSE <<h>>[i - (at - 1)]
  BY <1>1, <1>2, <1>4, ConcatProperties
<1>6. m[at] = h /\ \A i \in 1..at - 1 : m[i] = s[i]
  BY <1>1, <1>2, <1>5
<1> HIDE DEF m
<1>7. /\ r \in Seq(Hashes) /\ Len(r) = Len(m) + Len(b)
      /\ \A i \in 1..Len(m) + Len(b) : r[i] = IF i <= Len(m) THEN m[i] ELSE b[i - Len(m)]
  BY <1>2, <1>5, ConcatProperties
<1>8. r \in Seq(Hashes) /\ Len(r) = Len(s) + 1
      /\ \A i \in 1..Len(s) + 1 : r[i] = IF i <= at THEN m[i] ELSE b[i - at]
  <2>1. Len(m) = at /\ Len(m) + Len(b) = Len(s) + 1
    BY <1>1, <1>2, <1>5
  <2> QED BY <1>7, <2>1
<1> HIDE DEF r
<1>9. \A i \in 1..at - 1 : r[i] = s[i]
  BY <1>1, <1>6, <1>8
<1>10. r[at] = h
  BY <1>1, <1>6, <1>8
<1>11. ASSUME NEW i \in at + 1..Len(s) + 1 PROVE r[i] = s[i - 1]
  <2>1. i \in 1..Len(s) + 1 /\ ~(i <= at) /\ i - at \in 1..Len(s) + 1 - at
    BY <1>1
  <2>2. r[i] = b[i - at] /\ b[i - at] = s[at + (i - at) - 1]
    BY <1>2, <1>8, <2>1
  <2>3. at + (i - at) - 1 = i - 1
    BY <1>1
  <2> QED BY <2>2, <2>3
<1> QED BY <1>3, <1>8, <1>9, <1>10, <1>11 DEF at

\* Erase takes the hash at the lower bound away, if it is there.
LEMMA ErasePlaces ==
  ASSUME NEW s \in Seq(Hashes), NEW h \in Hashes
  PROVE  LET at == LowerBound(s, h)
             r == Erase(s, h)
         IN /\ r \in Seq(Hashes)
            /\ \/ r = s /\ ~(at <= Len(s) /\ s[at] = h)
               \/ /\ at <= Len(s) /\ s[at] = h /\ Len(r) = Len(s) - 1
                  /\ \A i \in 1..at - 1 : r[i] = s[i]
                  /\ \A i \in at..Len(s) - 1 : r[i] = s[i + 1]
<1> DEFINE at == LowerBound(s, h)
           a == SubSeq(s, 1, at - 1)
           b == SubSeq(s, at + 1, Len(s))
           r == a \o b
<1>1. Len(s) \in Nat /\ at \in 1..Len(s) + 1
  BY LenProperties, BoundTypes
<1>2. CASE ~(at <= Len(s) /\ s[at] = h)
  BY <1>2 DEF Erase
<1>3. CASE at <= Len(s) /\ s[at] = h
  <2>1. Erase(s, h) = r
    BY <1>3 DEF Erase
  <2> HIDE DEF at
  <2>2. at + 1 \in 1..Len(s) + 1
    BY <1>1, <1>3
  <2>3. a \in Seq(Hashes) /\ Len(a) = at - 1 /\ \A i \in 1..at - 1 : a[i] = s[i]
    BY <1>1, Pieces
  <2>4. /\ b \in Seq(Hashes) /\ Len(b) = Len(s) + 1 - (at + 1)
        /\ \A i \in 1..Len(s) + 1 - (at + 1) : b[i] = s[at + 1 + i - 1]
    BY <2>2, Pieces
  <2> HIDE DEF a, b
  <2>5. /\ r \in Seq(Hashes) /\ Len(r) = Len(a) + Len(b)
        /\ \A i \in 1..Len(a) + Len(b) : r[i] = IF i <= Len(a) THEN a[i] ELSE b[i - Len(a)]
    BY <2>3, <2>4, ConcatProperties
  <2> HIDE DEF r
  <2>6. Len(r) = Len(s) - 1
    BY <1>1, <2>3, <2>4, <2>5
  <2>7. ASSUME NEW i \in 1..at - 1 PROVE r[i] = s[i]
    <3>1. i \in 1..Len(a) + Len(b) /\ i <= Len(a)
      BY <1>1, <1>3, <2>3, <2>4
    <3> QED BY <2>3, <2>5, <3>1
  <2>8. ASSUME NEW i \in at..Len(s) - 1 PROVE r[i] = s[i + 1]
    <3>1. /\ i \in 1..Len(a) + Len(b) /\ ~(i <= Len(a)) /\ i - Len(a) = i - (at - 1)
          /\ i - (at - 1) \in 1..Len(s) + 1 - (at + 1)
      BY <1>1, <1>3, <2>3, <2>4
    <3>2. r[i] = b[i - (at - 1)] /\ b[i - (at - 1)] = s[at + 1 + (i - (at - 1)) - 1]
      BY <2>4, <2>5, <3>1
    <3>3. at + 1 + (i - (at - 1)) - 1 = i + 1
      BY <1>1, <1>3
    <3> QED BY <3>2, <3>3
  <2> QED BY <1>3, <2>1, <2>5, <2>6, <2>7, <2>8 DEF at
<1> QED BY <1>2, <1>3

\* What Insert does to a sorted list.
LEMMA InsertEffect ==
  ASSUME NEW s \in Seq(Hashes), Sorted(s), NEW h \in Hashes
  PROVE  /\ Insert(s, h) \in Seq(Hashes) /\ Sorted(Insert(s, h))
         /\ Range(Insert(s, h)) = Range(s) \cup {h}
         /\ Strict(s) /\ h \notin Range(s) => Strict(Insert(s, h))
<1> DEFINE at == LowerBound(s, h)
           r == Insert(s, h)
           n == Len(s)
<1>1. /\ n \in Nat /\ DOMAIN s = 1..n /\ (\A i \in 1..n : s[i] \in Nat) /\ h \in Nat
      /\ at \in 1..n + 1
  BY LenProperties, BoundTypes, RingAssumption DEF Hashes
<1>2. /\ r \in Seq(Hashes) /\ Len(r) = n + 1
      /\ \A i \in 1..at - 1 : r[i] = s[i]
      /\ r[at] = h
      /\ \A i \in at + 1..n + 1 : r[i] = s[i - 1]
  BY InsertPlaces
<1>3. DOMAIN r = 1..n + 1
  BY <1>2, LenProperties
<1>4. \A i \in 1..n : i < at <=> s[i] < h
  BY BoundsSplit
<1> HIDE DEF at, r, n
<1>5. /\ \A i \in 1..n + 1 : i < at => i \in 1..n /\ r[i] = s[i] /\ s[i] < h
      /\ \A i \in 1..n + 1 : i > at => i - 1 \in 1..n /\ r[i] = s[i - 1] /\ h <= s[i - 1]
      /\ \A i \in 1..n + 1 : i = at => r[i] = h
  <2>1. ASSUME NEW i \in 1..n + 1, i < at PROVE i \in 1..n /\ r[i] = s[i] /\ s[i] < h
    <3>1. i \in 1..n /\ i \in 1..at - 1
      BY <1>1, <2>1
    <3> QED BY <1>2, <1>4, <2>1, <3>1
  <2>2. ASSUME NEW i \in 1..n + 1, i > at
        PROVE  i - 1 \in 1..n /\ r[i] = s[i - 1] /\ h <= s[i - 1]
    <3>1. i - 1 \in 1..n /\ i \in at + 1..n + 1 /\ ~(i - 1 < at)
      BY <1>1, <2>2
    <3>2. ~(s[i - 1] < h) /\ s[i - 1] \in Nat
      BY <1>1, <1>4, <3>1
    <3> QED BY <1>1, <1>2, <3>1, <3>2
  <2>3. \A i \in 1..n + 1 : i = at => r[i] = h
    BY <1>2
  <2> QED BY <2>1, <2>2, <2>3
<1>6. Sorted(r)
  <2> SUFFICES ASSUME NEW i \in 1..n + 1, NEW j \in 1..n + 1, i <= j PROVE r[i] <= r[j]
    BY <1>3 DEF Sorted
  <2>1. CASE i < at /\ j < at
    BY <1>1, <1>5, <2>1 DEF Sorted
  <2>2. CASE i < at /\ j >= at
    BY <1>1, <1>5, <2>2
  <2>3. CASE i = at
    BY <1>1, <1>5, <2>3
  <2>4. CASE i > at
    <3>1. j > at /\ i - 1 <= j - 1
      BY <1>1, <2>4
    <3> QED BY <1>1, <1>5, <2>4, <3>1 DEF Sorted
  <2> QED BY <1>1, <2>1, <2>2, <2>3, <2>4
<1>7. Range(r) = Range(s) \cup {h}
  <2>1. ASSUME NEW x \in Range(r) PROVE x \in Range(s) \cup {h}
    <3>1. PICK i \in 1..n + 1 : x = r[i]
      BY <1>3 DEF Range
    <3>2. \A k \in 1..n : s[k] \in Range(s)
      BY <1>1 DEF Range
    <3>3. i < at \/ i > at \/ i = at
      BY <1>1
    <3> QED BY <1>5, <3>1, <3>2, <3>3
  <2>2. h \in Range(r)
    BY <1>1, <1>2, <1>3 DEF Range
  <2>3. ASSUME NEW x \in Range(s) PROVE x \in Range(r)
    <3>1. PICK i \in 1..n : x = s[i]
      BY <1>1 DEF Range
    <3>2. CASE i < at
      <4>1. i \in 1..at - 1 /\ i \in 1..n + 1
        BY <1>1, <3>2
      <4> QED BY <1>2, <1>3, <3>1, <4>1 DEF Range
    <3>3. CASE i >= at
      <4>1. i + 1 \in at + 1..n + 1 /\ i + 1 \in 1..n + 1 /\ i + 1 - 1 = i
        BY <1>1, <3>3
      <4>2. r[i + 1] = s[i]
        BY <1>2, <4>1
      <4> QED BY <1>3, <3>1, <4>1, <4>2 DEF Range
    <3> QED BY <1>1, <3>2, <3>3
  <2> QED BY <2>1, <2>2, <2>3
<1>8. ASSUME Strict(s), h \notin Range(s) PROVE Strict(r)
  <2> SUFFICES ASSUME NEW i \in 1..n + 1, NEW j \in 1..n + 1, i < j PROVE r[i] < r[j]
    BY <1>3 DEF Strict
  <2>0. \A k \in 1..n : s[k] # h
    BY <1>1, <1>8 DEF Range
  <2>1. CASE i < at /\ j < at
    BY <1>1, <1>5, <1>8, <2>1 DEF Strict
  <2>2. CASE i < at /\ j >= at
    BY <1>1, <1>5, <2>2
  <2>3. CASE i = at
    BY <1>1, <1>5, <2>0, <2>3
  <2>4. CASE i > at
    <3>1. j > at /\ i - 1 < j - 1
      BY <1>1, <2>4
    <3> QED BY <1>1, <1>5, <1>8, <2>4, <3>1 DEF Strict
  <2> QED BY <1>1, <2>1, <2>2, <2>3, <2>4
<1> QED BY <1>2, <1>6, <1>7, <1>8 DEF r

\* What Erase does to a sorted list.
LEMMA EraseEffect ==
  ASSUME NEW s \in Seq(Hashes), Sorted(s), NEW h \in Hashes
  PROVE  /\ Erase(s, h) \in Seq(Hashes) /\ Sorted(Erase(s, h))
         /\ Range(s) \ {h} \subseteq Range(Erase(s, h))
         /\ Range(Erase(s, h)) \subseteq Range(s)
         /\ Strict(s) => Strict(Erase(s, h)) /\ h \notin Range(Erase(s, h))
<1> DEFINE at == LowerBound(s, h)
           r == Erase(s, h)
           n == Len(s)
<1>1. /\ n \in Nat /\ DOMAIN s = 1..n /\ (\A i \in 1..n : s[i] \in Nat) /\ h \in Nat
      /\ at \in 1..n + 1
  BY LenProperties, BoundTypes, RingAssumption DEF Hashes
<1>2. /\ r \in Seq(Hashes)
      /\ \/ r = s /\ ~(at <= n /\ s[at] = h)
         \/ /\ at <= n /\ s[at] = h /\ Len(r) = n - 1
            /\ \A i \in 1..at - 1 : r[i] = s[i]
            /\ \A i \in at..n - 1 : r[i] = s[i + 1]
  BY ErasePlaces
<1>3. \A i \in 1..n : i < at <=> s[i] < h
  BY BoundsSplit
<1> HIDE DEF at, r, n
<1>4. CASE r = s /\ ~(at <= n /\ s[at] = h)
  <2>1. ASSUME NEW k \in 1..n, s[k] = h PROVE FALSE
    <3>1. ~(k < at) /\ at \in 1..n /\ at <= k
      BY <1>1, <1>3, <2>1
    <3>2. ~(s[at] < h) /\ s[at] <= s[k]
      BY <1>1, <1>3, <3>1 DEF Sorted
    <3> QED BY <1>1, <1>4, <2>1, <3>1, <3>2
  <2>2. h \notin Range(s)
    BY <1>1, <2>1 DEF Range
  <2> QED BY <1>2, <1>4, <2>2 DEF r
<1>5. CASE /\ at <= n /\ s[at] = h /\ Len(r) = n - 1
           /\ \A i \in 1..at - 1 : r[i] = s[i]
           /\ \A i \in at..n - 1 : r[i] = s[i + 1]
  <2>1. DOMAIN r = 1..n - 1 /\ at \in 1..n
    BY <1>1, <1>2, <1>5, LenProperties
  <2>2. /\ \A i \in 1..n - 1 : i < at => i \in 1..n /\ r[i] = s[i]
        /\ \A i \in 1..n - 1 : i >= at => i + 1 \in 1..n /\ r[i] = s[i + 1]
    <3>1. \A i \in 1..n - 1 : i < at => i \in 1..at - 1 /\ i \in 1..n
      BY <1>1
    <3>2. \A i \in 1..n - 1 : i >= at => i \in at..n - 1 /\ i + 1 \in 1..n
      BY <1>1
    <3> QED BY <1>5, <3>1, <3>2
  <2>3. Sorted(r)
    <3> SUFFICES ASSUME NEW i \in 1..n - 1, NEW j \in 1..n - 1, i <= j PROVE r[i] <= r[j]
      BY <2>1 DEF Sorted
    <3>1. CASE j < at
      <4>1. i < at
        BY <1>1, <3>1
      <4> QED BY <1>1, <2>2, <3>1, <4>1 DEF Sorted
    <3>2. CASE i < at /\ j >= at
      <4>1. i <= j + 1
        OBVIOUS
      <4> QED BY <1>1, <2>2, <3>2, <4>1 DEF Sorted
    <3>3. CASE i >= at
      <4>1. j >= at /\ i + 1 <= j + 1
        BY <1>1, <3>3
      <4> QED BY <1>1, <2>2, <3>3, <4>1 DEF Sorted
    <3> QED BY <1>1, <3>1, <3>2, <3>3
  <2>4. ASSUME Strict(s) PROVE Strict(r)
    <3> SUFFICES ASSUME NEW i \in 1..n - 1, NEW j \in 1..n - 1, i < j PROVE r[i] < r[j]
      BY <2>1 DEF Strict
    <3>1. CASE j < at
      <4>1. i < at
        BY <1>1, <3>1
      <4> QED BY <1>1, <2>2, <2>4, <3>1, <4>1 DEF Strict
    <3>2. CASE i < at /\ j >= at
      <4>1. i < j + 1
        OBVIOUS
      <4> QED BY <1>1, <2>2, <2>4, <3>2, <4>1 DEF Strict
    <3>3. CASE i >= at
      <4>1. j >= at /\ i + 1 < j + 1
        BY <1>1, <3>3
      <4> QED BY <1>1, <2>2, <2>4, <3>3, <4>1 DEF Strict
    <3> QED BY <1>1, <3>1, <3>2, <3>3
  <2>5. Range(r) \subseteq Range(s)
    <3> SUFFICES ASSUME NEW i \in 1..n - 1 PROVE r[i] \in Range(s)
      BY <2>1 DEF Range
    <3>1. \A k \in 1..n : s[k] \in Range(s)
      BY <1>1 DEF Range
    <3>2. i < at \/ i >= at
      BY <1>1
    <3> QED BY <2>2, <3>1, <3>2
  <2>6. ASSUME NEW x \in Range(s), x # h PROVE x \in Range(r)
    <3>1. PICK i \in 1..n : x = s[i]
      BY <1>1 DEF Range
    <3>2. CASE i < at
      <4>1. i \in 1..at - 1 /\ i \in 1..n - 1
        BY <1>1, <2>1, <3>2
      <4> QED BY <1>5, <2>1, <3>1, <4>1 DEF Range
    <3>3. CASE i > at
      <4>1. i - 1 \in at..n - 1 /\ i - 1 \in 1..n - 1 /\ i - 1 + 1 = i
        BY <1>1, <3>3
      <4>2. r[i - 1] = s[i]
        BY <1>5, <4>1
      <4> QED BY <2>1, <3>1, <4>1, <4>2 DEF Range
    <3>4. CASE i = at
      BY <1>5, <2>6, <3>1, <3>4
    <3> QED BY <1>1, <3>2, <3>3, <3>4
  <2>7. ASSUME Strict(s) PROVE h \notin Range(r)
    <3> SUFFICES ASSUME NEW i \in 1..n - 1, r[i] = h PROVE FALSE
      BY <2>1 DEF Range
    <3>1. CASE i < at
      BY <1>1, <1>3, <2>2, <3>1
    <3>2. CASE i >= at
      <4>1. i + 1 > at /\ i + 1 \in 1..n /\ r[i] = s[i + 1]
        BY <1>1, <2>2, <3>2
      <4>2. s[at] < s[i + 1]
        BY <1>1, <2>1, <2>7, <4>1 DEF Strict
      <4>3. s[at] = h /\ s[i + 1] = h /\ h \in Nat
        BY <1>1, <1>5, <4>1
      <4> QED BY <4>2, <4>3
    <3> QED BY <1>1, <3>1, <3>2
  <2> QED BY <1>2, <2>3, <2>4, <2>5, <2>6, <2>7 DEF r
<1> QED BY <1>2, <1>4, <1>5
-----------------------------------------------------------------------------
(***************************************************************************)
(* Inserting and erasing the virtual nodes of a node                       *)
(***************************************************************************)

\* The hashes of the first i virtual nodes.
FirstPoints(node, i) == {hashFunction[<<node, j>>] : j \in 1..i}

\* One more virtual node, one more hash.
LEMMA NextPoint ==
  ASSUME NEW node \in Nodes, NEW i \in 1..Replicas, hashFunction \in [VirtualNodes -> Hashes]
  PROVE  /\ hashFunction[<<node, i>>] \in Hashes
         /\ FirstPoints(node, i) = FirstPoints(node, i - 1) \cup {hashFunction[<<node, i>>]}
         /\ Distinct => hashFunction[<<node, i>>] \notin FirstPoints(node, i - 1)
         /\ FirstPoints(node, i) \subseteq Points(node)
<1>1. \A j \in 1..Replicas : <<node, j>> \in VirtualNodes
  BY DEF VirtualNodes
<1>2. \A j \in 1..i : j \in 1..Replicas
  BY RingAssumption
<1>3. \A j : j \in 1..i <=> j \in 1..i - 1 \/ j = i
  BY RingAssumption
<1>4. hashFunction[<<node, i>>] \in Hashes
  BY <1>1
<1>5. FirstPoints(node, i) = FirstPoints(node, i - 1) \cup {hashFunction[<<node, i>>]}
  BY <1>3 DEF FirstPoints
<1>6. ASSUME Distinct, NEW j \in 1..i - 1, hashFunction[<<node, j>>] = hashFunction[<<node, i>>]
      PROVE  FALSE
  <2>1. j \in 1..Replicas /\ j # i
    BY RingAssumption
  <2>2. <<node, j>> = <<node, i>>
    BY <1>1, <1>6, <2>1 DEF Distinct
  <2> QED BY <2>1, <2>2
<1>7. FirstPoints(node, i) \subseteq Points(node)
  BY <1>2 DEF FirstPoints, Points
<1> QED BY <1>4, <1>5, <1>6, <1>7 DEF FirstPoints

\* addNode's loop, its list after every round.
LEMMA InsertAllRounds ==
  ASSUME NEW s \in Seq(Hashes), NEW node \in Nodes, hashFunction \in [VirtualNodes -> Hashes]
  PROVE  \E g : /\ InsertAll(s, node) = g[Replicas]
                /\ g[0] = s
                /\ \A i \in 1..Replicas : g[i] = Insert(g[i - 1], hashFunction[<<node, i>>])
<1> DEFINE F == [i \in 1..Replicas |->
                   [q \in Seq(Hashes) |-> Insert(q, hashFunction[<<node, i>>])]]
           Rounds(g) == g = [i \in 0..Replicas |->
                               IF i = 0 THEN s
                                        ELSE Insert(g[i - 1], hashFunction[<<node, i>>])]
<1>1. F \in [1..Replicas -> [Seq(Hashes) -> Seq(Hashes)]]
  <2>1. ASSUME NEW q \in Seq(Hashes), NEW i \in 1..Replicas
        PROVE  Insert(q, hashFunction[<<node, i>>]) \in Seq(Hashes)
    BY NextPoint, InsertPlaces
  <2> QED BY <2>1
<1>2. PICK g \in [0..Replicas -> Seq(Hashes)] :
        g[0] = s /\ \A i \in 1..Replicas : g[i] = F[i][g[i - 1]]
  <2>1. Replicas \in Nat /\ Steps(Seq(Hashes), Replicas, F)
    BY <1>1, RingAssumption DEF Steps
  <2> HIDE DEF F
  <2>2. Iterates(Seq(Hashes), Replicas, s, F)
    BY <2>1, Iteration
  <2> QED BY <2>2 DEF Iterates
<1>3. ASSUME NEW i \in 1..Replicas
      PROVE  g[i] = Insert(g[i - 1], hashFunction[<<node, i>>])
  <2>1. i - 1 \in 0..Replicas
    BY RingAssumption
  <2>2. g[i - 1] \in Seq(Hashes)
    BY <2>1
  <2> QED BY <1>2, <2>2
<1>4. Rounds(g)
  <2>1. \A i \in 0..Replicas : i = 0 \/ i \in 1..Replicas
    BY RingAssumption
  <2> QED BY <1>2, <1>3, <2>1
<1> DEFINE list == CHOOSE f : Rounds(f)
<1>5. Rounds(list)
  BY <1>4
<1>6. InsertAll(s, node) = list[Replicas]
  BY DEF InsertAll
<1>7. list[0] = s /\ \A i \in 1..Replicas : list[i] = Insert(list[i - 1], hashFunction[<<node, i>>])
  <2>1. 0 \in 0..Replicas /\ \A i \in 1..Replicas : i \in 0..Replicas /\ i # 0
    BY RingAssumption
  <2> HIDE DEF list
  <2> QED BY <1>5, <2>1
<1> QED BY <1>6, <1>7

\* removeNode's loop, its list after every round.
LEMMA EraseAllRounds ==
  ASSUME NEW s \in Seq(Hashes), NEW node \in Nodes, hashFunction \in [VirtualNodes -> Hashes]
  PROVE  \E g : /\ EraseAll(s, node) = g[Replicas]
                /\ g[0] = s
                /\ \A i \in 1..Replicas : g[i] = Erase(g[i - 1], hashFunction[<<node, i>>])
<1> DEFINE F == [i \in 1..Replicas |->
                   [q \in Seq(Hashes) |-> Erase(q, hashFunction[<<node, i>>])]]
           Rounds(g) == g = [i \in 0..Replicas |->
                               IF i = 0 THEN s
                                        ELSE Erase(g[i - 1], hashFunction[<<node, i>>])]
<1>1. F \in [1..Replicas -> [Seq(Hashes) -> Seq(Hashes)]]
  <2>1. ASSUME NEW q \in Seq(Hashes), NEW i \in 1..Replicas
        PROVE  Erase(q, hashFunction[<<node, i>>]) \in Seq(Hashes)
    BY NextPoint, ErasePlaces
  <2> QED BY <2>1
<1>2. PICK g \in [0..Replicas -> Seq(Hashes)] :
        g[0] = s /\ \A i \in 1..Replicas : g[i] = F[i][g[i - 1]]
  <2>1. Replicas \in Nat /\ Steps(Seq(Hashes), Replicas, F)
    BY <1>1, RingAssumption DEF Steps
  <2> HIDE DEF F
  <2>2. Iterates(Seq(Hashes), Replicas, s, F)
    BY <2>1, Iteration
  <2> QED BY <2>2 DEF Iterates
<1>3. ASSUME NEW i \in 1..Replicas
      PROVE  g[i] = Erase(g[i - 1], hashFunction[<<node, i>>])
  <2>1. i - 1 \in 0..Replicas
    BY RingAssumption
  <2>2. g[i - 1] \in Seq(Hashes)
    BY <2>1
  <2> QED BY <1>2, <2>2
<1>4. Rounds(g)
  <2>1. \A i \in 0..Replicas : i = 0 \/ i \in 1..Replicas
    BY RingAssumption
  <2> QED BY <1>2, <1>3, <2>1
<1> DEFINE list == CHOOSE f : Rounds(f)
<1>5. Rounds(list)
  BY <1>4
<1>6. EraseAll(s, node) = list[Replicas]
  BY DEF EraseAll
<1>7. list[0] = s /\ \A i \in 1..Replicas : list[i] = Erase(list[i - 1], hashFunction[<<node, i>>])
  <2>1. 0 \in 0..Replicas /\ \A i \in 1..Replicas : i \in 0..Replicas /\ i # 0
    BY RingAssumption
  <2> HIDE DEF list
  <2> QED BY <1>5, <2>1
<1> QED BY <1>6, <1>7

\* What addNode does to a sorted list.
LEMMA InsertAllEffect ==
  ASSUME NEW s \in Seq(Hashes), Sorted(s), NEW node \in Nodes,
         hashFunction \in [VirtualNodes -> Hashes]
  PROVE  /\ InsertAll(s, node) \in Seq(Hashes) /\ Sorted(InsertAll(s, node))
         /\ Range(InsertAll(s, node)) = Range(s) \cup Points(node)
         /\ Distinct /\ Strict(s) /\ Range(s) \cap Points(node) = {}
              => Strict(InsertAll(s, node))
<1>1. PICK g : /\ InsertAll(s, node) = g[Replicas]
               /\ g[0] = s
               /\ \A i \in 1..Replicas : g[i] = Insert(g[i - 1], hashFunction[<<node, i>>])
  BY InsertAllRounds
<1> DEFINE Fresh == Distinct /\ Strict(s) /\ Range(s) \cap Points(node) = {}
           Good(i) == /\ g[i] \in Seq(Hashes) /\ Sorted(g[i])
                      /\ Range(g[i]) = Range(s) \cup FirstPoints(node, i)
                      /\ Fresh => Strict(g[i])
           J == {i \in 0..Replicas : Good(i)}
<1>2. 0 \in J
  <2>1. FirstPoints(node, 0) = {}
    BY DEF FirstPoints
  <2>2. 0 \in 0..Replicas
    BY RingAssumption
  <2> QED BY <1>1, <2>1, <2>2
<1>3. ASSUME NEW i \in 1..Replicas, i - 1 \in J
      PROVE  i \in J
  <2> DEFINE h == hashFunction[<<node, i>>]
             t == g[i - 1]
  <2>1. /\ h \in Hashes /\ FirstPoints(node, i) = FirstPoints(node, i - 1) \cup {h}
        /\ Distinct => h \notin FirstPoints(node, i - 1)
        /\ h \in Points(node)
    BY NextPoint DEF Points
  <2>2. /\ t \in Seq(Hashes) /\ Sorted(t) /\ Range(t) = Range(s) \cup FirstPoints(node, i - 1)
        /\ Fresh => Strict(t)
    BY <1>3
  <2>3. g[i] = Insert(t, h)
    BY <1>1
  <2>4. i \in 0..Replicas
    BY RingAssumption
  <2> HIDE DEF h, t
  <2>5. /\ g[i] \in Seq(Hashes) /\ Sorted(g[i]) /\ Range(g[i]) = Range(t) \cup {h}
        /\ Strict(t) /\ h \notin Range(t) => Strict(g[i])
    BY <2>1, <2>2, <2>3, InsertEffect
  <2>6. Fresh => h \notin Range(t)
    BY <2>1, <2>2
  <2>7. Range(g[i]) = Range(s) \cup FirstPoints(node, i)
    BY <2>1, <2>2, <2>5
  <2>8. Good(i)
    BY <2>2, <2>5, <2>6, <2>7
  <2> QED BY <2>4, <2>8
<1>4. Replicas \in J
  <2>1. Replicas \in Nat /\ Replicas \in 0..Replicas
    BY RingAssumption
  <2> HIDE DEF J
  <2> QED BY <1>2, <1>3, <2>1, UpTo
<1>5. FirstPoints(node, Replicas) = Points(node)
  BY DEF FirstPoints, Points
<1> QED BY <1>1, <1>4, <1>5

\* What removeNode does to a sorted list.
LEMMA EraseAllEffect ==
  ASSUME NEW s \in Seq(Hashes), Sorted(s), NEW node \in Nodes,
         hashFunction \in [VirtualNodes -> Hashes]
  PROVE  /\ EraseAll(s, node) \in Seq(Hashes) /\ Sorted(EraseAll(s, node))
         /\ Range(s) \ Points(node) \subseteq Range(EraseAll(s, node))
         /\ Range(EraseAll(s, node)) \subseteq Range(s)
         /\ Strict(s) => /\ Strict(EraseAll(s, node))
                         /\ Range(EraseAll(s, node)) \cap Points(node) = {}
<1>1. PICK g : /\ EraseAll(s, node) = g[Replicas]
               /\ g[0] = s
               /\ \A i \in 1..Replicas : g[i] = Erase(g[i - 1], hashFunction[<<node, i>>])
  BY EraseAllRounds
<1> DEFINE Good(i) == /\ g[i] \in Seq(Hashes) /\ Sorted(g[i])
                      /\ Range(s) \ FirstPoints(node, i) \subseteq Range(g[i])
                      /\ Range(g[i]) \subseteq Range(s)
                      /\ Strict(s) => /\ Strict(g[i])
                                      /\ Range(g[i]) \cap FirstPoints(node, i) = {}
           J == {i \in 0..Replicas : Good(i)}
<1>2. 0 \in J
  <2>1. FirstPoints(node, 0) = {}
    BY DEF FirstPoints
  <2>2. 0 \in 0..Replicas
    BY RingAssumption
  <2> QED BY <1>1, <2>1, <2>2
<1>3. ASSUME NEW i \in 1..Replicas, i - 1 \in J
      PROVE  i \in J
  <2> DEFINE h == hashFunction[<<node, i>>]
             t == g[i - 1]
  <2>1. h \in Hashes /\ FirstPoints(node, i) = FirstPoints(node, i - 1) \cup {h}
    BY NextPoint
  <2>2. /\ t \in Seq(Hashes) /\ Sorted(t)
        /\ Range(s) \ FirstPoints(node, i - 1) \subseteq Range(t) /\ Range(t) \subseteq Range(s)
        /\ Strict(s) => Strict(t) /\ Range(t) \cap FirstPoints(node, i - 1) = {}
    BY <1>3
  <2>3. g[i] = Erase(t, h)
    BY <1>1
  <2>4. i \in 0..Replicas
    BY RingAssumption
  <2> HIDE DEF h, t
  <2>5. /\ g[i] \in Seq(Hashes) /\ Sorted(g[i])
        /\ Range(t) \ {h} \subseteq Range(g[i]) /\ Range(g[i]) \subseteq Range(t)
        /\ Strict(t) => Strict(g[i]) /\ h \notin Range(g[i])
    BY <2>1, <2>2, <2>3, EraseEffect
  <2>6. Range(s) \ FirstPoints(node, i) \subseteq Range(g[i]) /\ Range(g[i]) \subseteq Range(s)
    BY <2>1, <2>2, <2>5
  <2>7. Strict(s) => Strict(g[i]) /\ Range(g[i]) \cap FirstPoints(node, i) = {}
    BY <2>1, <2>2, <2>5
  <2>8. Good(i)
    BY <2>5, <2>6, <2>7
  <2> QED BY <2>4, <2>8
<1>4. Replicas \in J
  <2>1. Replicas \in Nat /\ Replicas \in 0..Replicas
    BY RingAssumption
  <2> HIDE DEF J
  <2> QED BY <1>2, <1>3, <2>1, UpTo
<1>5. FirstPoints(node, Replicas) = Points(node)
  BY DEF FirstPoints, Points
<1> QED BY <1>1, <1>4, <1>5
-----------------------------------------------------------------------------
(***************************************************************************)
(* Looking up a key                                                        *)
(***************************************************************************)

\* Found, of any list.
FoundIn(s, key) ==
  LET at == UpperBound(s, key) IN s[IF at > Len(s) THEN 1 ELSE at]

\* The binary search and the wrap find the hash that comes next on the circle.
LEMMA FoundIsNearest ==
  ASSUME NEW s \in Seq(Hashes), Sorted(s), s # << >>, NEW key \in Hashes
  PROVE  /\ FoundIn(s, key) \in Range(s)
         /\ \A x \in Range(s) : Distance(key, FoundIn(s, key)) <= Distance(key, x)
<1> DEFINE n == Len(s)
           at == UpperBound(s, key)
           k == IF at > n THEN 1 ELSE at
<1>1. /\ n \in Nat /\ DOMAIN s = 1..n /\ at \in 1..n + 1 /\ n # 0
      /\ \A i \in 1..n : s[i] \in Hashes
  BY LenProperties, EmptySeq, BoundTypes
<1>2. \A i \in 1..n : i < at <=> s[i] <= key
  BY BoundsSplit
<1>3. FoundIn(s, key) = s[k]
  BY DEF FoundIn
<1> HIDE DEF n, at
<1>4. k \in 1..n
  BY <1>1
<1>5. MaxHash \in Nat /\ key \in 0..MaxHash /\ \A i \in 1..n : s[i] \in 0..MaxHash
  BY <1>1, RingAssumption DEF Hashes
<1>6. ASSUME NEW i \in 1..n PROVE Distance(key, s[k]) <= Distance(key, s[i])
  <2>1. CASE at > n
    <3>1. s[1] <= key /\ s[i] <= key /\ s[1] <= s[i] /\ k = 1
      BY <1>1, <1>2, <1>4, <2>1 DEF Sorted
    <3> QED BY <1>4, <1>5, <3>1 DEF Distance
  <2>2. CASE at <= n
    <3>1. k = at /\ at \in 1..n /\ ~(s[at] <= key)
      BY <1>1, <1>2, <2>2
    <3>2. CASE i < at
      <4>1. s[i] <= key
        BY <1>2, <3>2
      <4> QED BY <1>5, <3>1, <4>1 DEF Distance
    <3>3. CASE i >= at
      <4>1. ~(s[i] <= key) /\ s[at] <= s[i]
        BY <1>1, <1>2, <3>1, <3>3 DEF Sorted
      <4> QED BY <1>5, <3>1, <4>1 DEF Distance
    <3> QED BY <1>1, <3>2, <3>3
  <2> QED BY <1>1, <2>1, <2>2
<1>7. s[k] \in Range(s)
  BY <1>1, <1>4 DEF Range
<1>8. ASSUME NEW x \in Range(s) PROVE Distance(key, s[k]) <= Distance(key, x)
  <2>1. PICK i \in 1..n : x = s[i]
    BY <1>1 DEF Range
  <2> QED BY <1>6, <2>1
<1> QED BY <1>3, <1>7, <1>8

\* There is one nearest hash.
LEMMA NearestIsOne ==
  ASSUME NEW key \in Hashes, NEW x \in Hashes, NEW y \in Hashes,
         Distance(key, x) <= Distance(key, y), Distance(key, y) <= Distance(key, x)
  PROVE  x = y
<1>1. MaxHash \in Nat /\ key \in 0..MaxHash /\ x \in 0..MaxHash /\ y \in 0..MaxHash
  BY RingAssumption DEF Hashes
<1>2. Distance(key, x) \in Nat /\ Distance(key, y) \in Nat
  BY <1>1 DEF Distance
<1>3. Distance(key, x) = Distance(key, y)
  BY <1>2
<1> QED BY <1>1, <1>3 DEF Distance

\* A key that is found in the larger of two lists, at a hash of both, is found there
\* in the smaller one.
LEMMA FoundInBoth ==
  ASSUME NEW s \in Seq(Hashes), Sorted(s), s # << >>,
         NEW t \in Seq(Hashes), Sorted(t), t # << >>,
         NEW key \in Hashes, Range(s) \subseteq Range(t), FoundIn(t, key) \in Range(s)
  PROVE  FoundIn(s, key) = FoundIn(t, key)
<1> DEFINE x == FoundIn(s, key)
           y == FoundIn(t, key)
<1>1. x \in Range(s) /\ \A z \in Range(s) : Distance(key, x) <= Distance(key, z)
  BY FoundIsNearest
<1>2. y \in Range(s) /\ \A z \in Range(t) : Distance(key, y) <= Distance(key, z)
  BY FoundIsNearest
<1>3. \A z \in Range(s) : z \in Hashes
  BY LenProperties DEF Range
<1> HIDE DEF x, y
<1>4. x \in Hashes /\ y \in Hashes
  BY <1>1, <1>2, <1>3
<1>5. Distance(key, x) <= Distance(key, y) /\ Distance(key, y) <= Distance(key, x)
  BY <1>1, <1>2
<1>6. x = y
  BY <1>4, <1>5, NearestIsOne
<1> QED BY <1>6 DEF x, y
-----------------------------------------------------------------------------
(***************************************************************************)
(* The invariant of the ring                                               *)
(***************************************************************************)

MemberPoints == {hashFunction[v] : v \in members \X (1..Replicas)}

\* Without collisions the list holds every hash of a member once, and circle_ its node.
Owned ==
  /\ Strict(sortedHashes)
  /\ Range(sortedHashes) = DOMAIN circle
  /\ DOMAIN circle = MemberPoints
  /\ \A v \in members \X (1..Replicas) : circle[hashFunction[v]] = v[1]

RingInv ==
  /\ hashFunction \in [VirtualNodes -> Hashes]
  /\ \A h \in DOMAIN circle : h \in Hashes /\ circle[h] \in Nodes \cup {NoNode}
  /\ sortedHashes \in Seq(Hashes)
  /\ members \subseteq Nodes
  /\ Sorted(sortedHashes)
  /\ DOMAIN circle \subseteq Range(sortedHashes)
  /\ Distinct => Owned

\* The points of a node are hashes, and without collisions no other node's.
LEMMA PointsOf ==
  ASSUME hashFunction \in [VirtualNodes -> Hashes], members \subseteq Nodes, NEW node \in Nodes
  PROVE  /\ Points(node) \subseteq Hashes
         /\ \A v \in members \X (1..Replicas) :
              /\ v \in VirtualNodes /\ hashFunction[v] \in Hashes
              /\ v[1] = node => hashFunction[v] \in Points(node)
              /\ Distinct /\ v[1] # node => hashFunction[v] \notin Points(node)
<1>1. \A j \in 1..Replicas : <<node, j>> \in VirtualNodes /\ <<node, j>>[1] = node
  BY DEF VirtualNodes
<1>2. Points(node) \subseteq Hashes
  BY <1>1 DEF Points
<1>3. ASSUME NEW v \in members \X (1..Replicas)
      PROVE  /\ v \in VirtualNodes /\ hashFunction[v] \in Hashes
             /\ v[1] = node => hashFunction[v] \in Points(node)
             /\ Distinct /\ v[1] # node => hashFunction[v] \notin Points(node)
  <2>1. v \in VirtualNodes /\ v = <<v[1], v[2]>> /\ v[2] \in 1..Replicas
    BY DEF VirtualNodes
  <2>2. v[1] = node => hashFunction[v] \in Points(node)
    BY <2>1 DEF Points
  <2>3. ASSUME Distinct, v[1] # node, NEW j \in 1..Replicas,
               hashFunction[v] = hashFunction[<<node, j>>]
        PROVE  FALSE
    <3>1. v = <<node, j>>
      BY <1>1, <2>1, <2>3 DEF Distinct
    <3> QED BY <1>1, <2>3, <3>1
  <2> QED BY <2>1, <2>2, <2>3 DEF Points
<1> QED BY <1>2, <1>3

\* The ring starts empty.
LEMMA RingInitInv == RingInit => RingInv
<1> SUFFICES ASSUME RingInit PROVE RingInv
  OBVIOUS
<1>1. /\ hashFunction \in [VirtualNodes -> Hashes] /\ members = {}
      /\ circle = << >> /\ sortedHashes = << >>
  BY DEF RingInit
<1>2. DOMAIN circle = {} /\ DOMAIN sortedHashes = {} /\ sortedHashes \in Seq(Hashes)
  BY <1>1
<1>3. Range(sortedHashes) = {}
  BY <1>2 DEF Range
<1>4. members \X (1..Replicas) = {} /\ MemberPoints = {}
  BY <1>1 DEF MemberPoints
<1> QED BY <1>1, <1>2, <1>3, <1>4 DEF RingInv, Owned, Sorted, Strict

\* addNode keeps the books.
LEMMA AddNodeInv ==
  ASSUME RingInv, NEW node \in Nodes \ members, AddNode(node)
  PROVE  RingInv'
<1> DEFINE P == Points(node)
<1>1. /\ hashFunction \in [VirtualNodes -> Hashes] /\ members \subseteq Nodes
      /\ sortedHashes \in Seq(Hashes) /\ Sorted(sortedHashes)
      /\ DOMAIN circle \subseteq Range(sortedHashes) /\ (Distinct => Owned)
      /\ \A h \in DOMAIN circle : h \in Hashes /\ circle[h] \in Nodes \cup {NoNode}
  BY DEF RingInv
<1>2. /\ hashFunction' = hashFunction /\ members' = members \cup {node}
      /\ sortedHashes' = InsertAll(sortedHashes, node)
      /\ circle' = [h \in DOMAIN circle \cup P |-> IF h \in P THEN node ELSE circle[h]]
  BY DEF AddNode
<1>3. /\ sortedHashes' \in Seq(Hashes) /\ Sorted(sortedHashes')
      /\ Range(sortedHashes') = Range(sortedHashes) \cup P
      /\ Distinct /\ Strict(sortedHashes) /\ Range(sortedHashes) \cap P = {}
           => Strict(sortedHashes')
  BY <1>1, <1>2, InsertAllEffect
<1>4. /\ P \subseteq Hashes
      /\ \A v \in members \X (1..Replicas) :
           /\ v \in VirtualNodes /\ hashFunction[v] \in Hashes
           /\ Distinct /\ v[1] # node => hashFunction[v] \notin P
  BY <1>1, PointsOf
<1>5. \A j \in 1..Replicas : hashFunction[<<node, j>>] \in P
  BY DEF Points
<1> HIDE DEF P
<1>6. /\ DOMAIN circle' = DOMAIN circle \cup P
      /\ \A h \in P : circle'[h] = node
      /\ \A h \in DOMAIN circle \ P : circle'[h] = circle[h]
  BY <1>2
<1>7. \A h \in DOMAIN circle' : h \in Hashes /\ circle'[h] \in Nodes \cup {NoNode}
  BY <1>1, <1>4, <1>6
<1>8. Distinct' <=> Distinct
  BY <1>2 DEF Distinct
<1>9. ASSUME Distinct PROVE Owned'
  <2>1. /\ Strict(sortedHashes) /\ Range(sortedHashes) = DOMAIN circle
        /\ DOMAIN circle = MemberPoints
        /\ \A v \in members \X (1..Replicas) : circle[hashFunction[v]] = v[1]
    BY <1>1, <1>9 DEF Owned
  <2>2. \A v \in members \X (1..Replicas) : v[1] # node /\ hashFunction[v] \notin P
    BY <1>4, <1>9
  <2>3. MemberPoints \cap P = {}
    BY <2>2 DEF MemberPoints
  <2>4. Strict(sortedHashes')
    BY <1>3, <1>9, <2>1, <2>3
  <2>5. \A v \in members' \X (1..Replicas) :
          \/ v \in members \X (1..Replicas)
          \/ v[1] = node /\ hashFunction[v] \in P
    <3>1. ASSUME NEW v \in members' \X (1..Replicas), v[1] \notin members
          PROVE  v[1] = node /\ hashFunction[v] \in P
      <4>1. v[1] = node /\ v[2] \in 1..Replicas /\ v = <<v[1], v[2]>>
        BY <1>2, <3>1
      <4> QED BY <1>5, <4>1
    <3>2. ASSUME NEW v \in members' \X (1..Replicas), v[1] \in members
          PROVE  v \in members \X (1..Replicas)
      BY <3>2
    <3> QED BY <3>1, <3>2
  <2>6. \A v \in members \X (1..Replicas) : v \in members' \X (1..Replicas)
    BY <1>2
  <2>7. ASSUME NEW h \in P PROVE \E v \in members' \X (1..Replicas) : h = hashFunction[v]
    <3>1. PICK j \in 1..Replicas : h = hashFunction[<<node, j>>]
      BY <2>7 DEF P, Points
    <3>2. <<node, j>> \in members' \X (1..Replicas)
      BY <1>2
    <3> QED BY <3>1, <3>2
  <2>8. MemberPoints' = {hashFunction[v] : v \in members' \X (1..Replicas)}
    BY <1>2 DEF MemberPoints
  <2>9. MemberPoints' = MemberPoints \cup P
    <3>1. \A h \in MemberPoints' : h \in MemberPoints \cup P
      BY <2>5, <2>8 DEF MemberPoints
    <3>2. \A h \in MemberPoints : h \in MemberPoints'
      BY <2>6, <2>8 DEF MemberPoints
    <3>3. \A h \in P : h \in MemberPoints'
      BY <2>7, <2>8
    <3> QED BY <3>1, <3>2, <3>3
  <2>10. \A v \in members' \X (1..Replicas) : circle'[hashFunction[v]] = v[1]
    <3>1. ASSUME NEW v \in members \X (1..Replicas) PROVE circle'[hashFunction[v]] = v[1]
      <4>1. hashFunction[v] \in DOMAIN circle
        BY <2>1 DEF MemberPoints
      <4> QED BY <1>6, <2>1, <2>2, <4>1
    <3> QED BY <1>6, <2>5, <3>1
  <2>11. Range(sortedHashes') = DOMAIN circle' /\ DOMAIN circle' = MemberPoints'
    BY <1>3, <1>6, <2>1, <2>9
  <2>12. \A v \in members' \X (1..Replicas) : circle'[hashFunction'[v]] = v[1]
    BY <1>2, <2>10
  <2> QED BY <2>4, <2>11, <2>12 DEF Owned, Strict, Range
<1>10. DOMAIN circle' \subseteq Range(sortedHashes')
  BY <1>1, <1>3, <1>6
<1>11. members' \subseteq Nodes /\ hashFunction' \in [VirtualNodes -> Hashes]
  BY <1>1, <1>2
<1> QED BY <1>3, <1>7, <1>8, <1>9, <1>10, <1>11 DEF RingInv, Sorted, Range

\* removeNode keeps the books: under a collision the list may keep a hash that
\* circle_ has lost, never the other way round.
LEMMA RemoveNodeInv ==
  ASSUME RingInv, NEW node \in members, RemoveNode(node)
  PROVE  RingInv'
<1> DEFINE P == Points(node)
<1>1. /\ hashFunction \in [VirtualNodes -> Hashes] /\ members \subseteq Nodes
      /\ sortedHashes \in Seq(Hashes) /\ Sorted(sortedHashes)
      /\ DOMAIN circle \subseteq Range(sortedHashes) /\ (Distinct => Owned)
      /\ \A h \in DOMAIN circle : h \in Hashes /\ circle[h] \in Nodes \cup {NoNode}
  BY DEF RingInv
<1>2. /\ hashFunction' = hashFunction /\ members' = members \ {node}
      /\ sortedHashes' = EraseAll(sortedHashes, node)
      /\ circle' = [h \in DOMAIN circle \ P |-> circle[h]]
  BY DEF RemoveNode
<1>3. /\ sortedHashes' \in Seq(Hashes) /\ Sorted(sortedHashes')
      /\ Range(sortedHashes) \ P \subseteq Range(sortedHashes')
      /\ Range(sortedHashes') \subseteq Range(sortedHashes)
      /\ Strict(sortedHashes) => Strict(sortedHashes') /\ Range(sortedHashes') \cap P = {}
  <2>1. node \in Nodes
    BY <1>1
  <2> QED BY <1>1, <1>2, <2>1, EraseAllEffect
<1>4. \A v \in members \X (1..Replicas) :
        /\ v[1] = node => hashFunction[v] \in P
        /\ Distinct /\ v[1] # node => hashFunction[v] \notin P
  <2>1. node \in Nodes
    BY <1>1
  <2> QED BY <1>1, <2>1, PointsOf
<1> HIDE DEF P
<1>5. DOMAIN circle' = DOMAIN circle \ P /\ \A h \in DOMAIN circle \ P : circle'[h] = circle[h]
  BY <1>2
<1>6. \A h \in DOMAIN circle' : h \in Hashes /\ circle'[h] \in Nodes \cup {NoNode}
  BY <1>1, <1>5
<1>7. Distinct' <=> Distinct
  BY <1>2 DEF Distinct
<1>8. ASSUME Distinct PROVE Owned'
  <2>1. /\ Strict(sortedHashes) /\ Range(sortedHashes) = DOMAIN circle
        /\ DOMAIN circle = MemberPoints
        /\ \A v \in members \X (1..Replicas) : circle[hashFunction[v]] = v[1]
    BY <1>1, <1>8 DEF Owned
  <2>2. \A v \in members \X (1..Replicas) :
          v \in members' \X (1..Replicas) <=> hashFunction[v] \notin P
    <3>1. \A v \in members \X (1..Replicas) : v \in members' \X (1..Replicas) <=> v[1] # node
      BY <1>2
    <3> QED BY <1>4, <1>8, <3>1
  <2>3. \A v \in members' \X (1..Replicas) : v \in members \X (1..Replicas)
    BY <1>2
  <2>4. MemberPoints' = {hashFunction[v] : v \in members' \X (1..Replicas)}
    BY <1>2 DEF MemberPoints
  <2>5. MemberPoints' = MemberPoints \ P
    BY <2>2, <2>3, <2>4 DEF MemberPoints
  <2>6. Range(sortedHashes') = DOMAIN circle' /\ DOMAIN circle' = MemberPoints'
    BY <1>3, <1>5, <2>1, <2>5
  <2>7. \A v \in members' \X (1..Replicas) : circle'[hashFunction'[v]] = v[1]
    <3>1. ASSUME NEW v \in members' \X (1..Replicas) PROVE circle'[hashFunction[v]] = v[1]
      <4>1. v \in members \X (1..Replicas) /\ hashFunction[v] \notin P
        BY <2>2, <2>3
      <4>2. hashFunction[v] \in DOMAIN circle
        BY <2>1, <4>1 DEF MemberPoints
      <4> QED BY <1>5, <2>1, <4>1, <4>2
    <3> QED BY <1>2, <3>1
  <2>8. Strict(sortedHashes')
    BY <1>3, <2>1
  <2> QED BY <2>6, <2>7, <2>8 DEF Owned, Strict, Range
<1>9. DOMAIN circle' \subseteq Range(sortedHashes')
  BY <1>1, <1>3, <1>5
<1>10. members' \subseteq Nodes /\ hashFunction' \in [VirtualNodes -> Hashes]
  BY <1>1, <1>2
<1> QED BY <1>3, <1>6, <1>7, <1>8, <1>9, <1>10 DEF RingInv, Sorted, Range

\* While circle_ is not empty, getNode dereferences an element of the list.
LEMMA FoundInList ==
  ASSUME RingInv, ~Throws, NEW key \in Hashes
  PROVE  /\ sortedHashes # << >> /\ Found(key) = FoundIn(sortedHashes, key)
         /\ Found(key) \in Range(sortedHashes) /\ Found(key) \in Hashes
         /\ \A x \in Range(sortedHashes) : Distance(key, Found(key)) <= Distance(key, x)
<1>1. /\ sortedHashes \in Seq(Hashes) /\ Sorted(sortedHashes)
      /\ DOMAIN circle \subseteq Range(sortedHashes) /\ DOMAIN circle # {}
  BY DEF RingInv, Throws
<1>2. PICK h : h \in Range(sortedHashes)
  BY <1>1
<1>3. DOMAIN sortedHashes # {}
  BY <1>2 DEF Range
<1>4. sortedHashes # << >>
  BY <1>3
<1>5. Found(key) = FoundIn(sortedHashes, key)
  BY DEF Found, FoundIn
<1>6. /\ FoundIn(sortedHashes, key) \in Range(sortedHashes)
      /\ \A x \in Range(sortedHashes) :
           Distance(key, FoundIn(sortedHashes, key)) <= Distance(key, x)
  BY <1>1, <1>4, FoundIsNearest
<1>7. \A z \in Range(sortedHashes) : z \in Hashes
  BY <1>1, LenProperties DEF Range
<1> QED BY <1>4, <1>5, <1>6, <1>7

\* getNode keeps the books, the entry that operator[] may make included.
LEMMA LookupInv ==
  ASSUME RingInv, NEW key \in Hashes, Lookup(key)
  PROVE  RingInv'
<1> DEFINE f == Found(key)
<1>1. /\ hashFunction \in [VirtualNodes -> Hashes] /\ members \subseteq Nodes
      /\ sortedHashes \in Seq(Hashes) /\ Sorted(sortedHashes)
      /\ DOMAIN circle \subseteq Range(sortedHashes) /\ (Distinct => Owned)
      /\ \A h \in DOMAIN circle : h \in Hashes /\ circle[h] \in Nodes \cup {NoNode}
  BY DEF RingInv
<1>2. /\ hashFunction' = hashFunction /\ members' = members /\ sortedHashes' = sortedHashes
      /\ circle' = [h \in DOMAIN circle \cup {f} |-> IF h = f THEN GetNode(key) ELSE circle[h]]
      /\ ~Throws
  BY DEF Lookup
<1>3. f \in Range(sortedHashes) /\ f \in Hashes
  BY <1>2, FoundInList
<1>4. /\ f \in DOMAIN circle => GetNode(key) = circle[f]
      /\ f \notin DOMAIN circle => GetNode(key) = NoNode
  BY DEF GetNode
<1> HIDE DEF f
<1>5. DOMAIN circle' = DOMAIN circle \cup {f} /\ \A h \in DOMAIN circle : circle'[h] = circle[h]
  BY <1>2, <1>4
<1>6. circle'[f] \in Nodes \cup {NoNode}
  BY <1>1, <1>2, <1>4
<1>7. \A h \in DOMAIN circle' : h \in Hashes /\ circle'[h] \in Nodes \cup {NoNode}
  BY <1>1, <1>3, <1>5, <1>6
<1>8. Distinct' <=> Distinct
  BY <1>2 DEF Distinct
<1>9. ASSUME Distinct PROVE Owned'
  <2>1. /\ Strict(sortedHashes) /\ Range(sortedHashes) = DOMAIN circle
        /\ DOMAIN circle = MemberPoints
        /\ \A v \in members \X (1..Replicas) : circle[hashFunction[v]] = v[1]
    BY <1>1, <1>9 DEF Owned
  <2>2. DOMAIN circle' = DOMAIN circle
    BY <1>3, <1>5, <2>1
  <2>3. MemberPoints' = MemberPoints
    BY <1>2 DEF MemberPoints
  <2>4. \A v \in members \X (1..Replicas) : hashFunction[v] \in DOMAIN circle
    BY <2>1 DEF MemberPoints
  <2>5. \A v \in members \X (1..Replicas) : circle'[hashFunction[v]] = v[1]
    BY <1>5, <2>1, <2>4
  <2> QED BY <1>2, <2>1, <2>2, <2>3, <2>5 DEF Owned, Strict, Range
<1>10. DOMAIN circle' \subseteq Range(sortedHashes)
  BY <1>1, <1>3, <1>5
<1> QED BY <1>1, <1>2, <1>7, <1>8, <1>9, <1>10 DEF RingInv

\* The invariant is inductive.
LEMMA RingInvInductive == RingInv /\ [RingNext]_ringVars => RingInv'
<1> SUFFICES ASSUME RingInv, [RingNext]_ringVars PROVE RingInv'
  OBVIOUS
<1>1. CASE \E node \in Nodes \ members : AddNode(node)
  BY <1>1, AddNodeInv
<1>2. CASE \E node \in members : RemoveNode(node)
  BY <1>2, RemoveNodeInv
<1>3. CASE \E key \in Hashes : Lookup(key)
  BY <1>3, LookupInv
<1>4. CASE UNCHANGED ringVars
  BY <1>4 DEF ringVars, RingInv, Distinct, Owned, MemberPoints
<1> QED BY <1>1, <1>2, <1>3, <1>4 DEF RingNext

\* A strictly ascending list has as many elements as its set of values.
LEMMA StrictLength ==
  ASSUME NEW s \in Seq(Hashes), Strict(s)
  PROVE  Len(s) = Cardinality(Range(s))
<1> DEFINE n == Len(s)
<1>1. n \in Nat /\ DOMAIN s = 1..n /\ s \in [1..n -> Hashes] /\ \A i \in 1..n : s[i] \in Nat
  BY LenProperties, RingAssumption DEF Hashes
<1>2. \A i, j \in 1..n : i # j => s[i] # s[j]
  <2> TAKE i, j \in 1..n
  <2>1. i < j \/ j < i \/ i = j
    OBVIOUS
  <2> QED BY <1>1, <2>1 DEF Strict
<1>3. s \in [1..n -> Range(s)] /\ \A y \in Range(s) : \E i \in 1..n : s[i] = y
  BY <1>1 DEF Range
<1>4. s \in Bijection(1..n, Range(s))
  BY <1>2, <1>3 DEF Bijection, Injection, Surjection, IsInjective
<1>5. ExistsBijection(1..n, Range(s))
  BY <1>4 DEF ExistsBijection
<1>6. Cardinality(Range(s)) = n
  BY <1>1, <1>5, FS_CountingElements
<1> QED BY <1>6

\* RingBooksAgree holds, for any nodes, replicas and hash function: addNode, removeNode
\* and getNode keep sortedHashes_ sorted and over circle_, and the two equal when no
\* hashes collide.
THEOREM RingBooksCorrect == RingSpec => []RingBooksAgree
<1>1. RingInit => RingInv
  BY RingInitInv
<1>2. RingInv /\ [RingNext]_ringVars => RingInv'
  BY RingInvInductive
<1>3. RingInv => RingBooksAgree
  <2> SUFFICES ASSUME RingInv PROVE RingBooksAgree
    OBVIOUS
  <2>1. RingTypeOK
    BY DEF RingInv, RingTypeOK, Range
  <2>2. \A i \in 1..Len(sortedHashes) - 1 : sortedHashes[i] <= sortedHashes[i + 1]
    <3>1. sortedHashes \in Seq(Hashes) /\ Sorted(sortedHashes)
      BY DEF RingInv
    <3>2. Len(sortedHashes) \in Nat /\ DOMAIN sortedHashes = 1..Len(sortedHashes)
      BY <3>1, LenProperties
    <3>3. \A i \in 1..Len(sortedHashes) - 1 :
            i \in 1..Len(sortedHashes) /\ i + 1 \in 1..Len(sortedHashes) /\ i <= i + 1
      BY <3>2
    <3> QED BY <3>1, <3>2, <3>3 DEF Sorted
  <2>3. Distinct => /\ Range(sortedHashes) = DOMAIN circle
                    /\ Len(sortedHashes) = Cardinality(DOMAIN circle)
    BY StrictLength DEF RingInv, Owned
  <2> QED BY <2>1, <2>2, <2>3 DEF RingInv, RingBooksAgree
<1> QED BY <1>1, <1>2, <1>3, PTL DEF RingSpec

\* GetNodeIsNext holds, for any nodes, replicas and hash function without collisions:
\* getNode returns the owner of the next point on the circle.
THEOREM GetNodeCorrect == RingSpec => []GetNodeIsNext
<1>1. RingInit => RingInv
  BY RingInitInv
<1>2. RingInv /\ [RingNext]_ringVars => RingInv'
  BY RingInvInductive
<1>3. RingInv => GetNodeIsNext
  <2> SUFFICES ASSUME RingInv, Distinct, members # {}
               PROVE  /\ ~Throws
                      /\ \A key \in Hashes :
                           \E v \in members \X (1..Replicas) :
                             /\ \A w \in members \X (1..Replicas) :
                                  Distance(key, hashFunction[v]) <= Distance(key, hashFunction[w])
                             /\ GetNode(key) = v[1]
    BY DEF GetNodeIsNext
  <2>1. /\ Range(sortedHashes) = DOMAIN circle /\ DOMAIN circle = MemberPoints
        /\ \A v \in members \X (1..Replicas) : circle[hashFunction[v]] = v[1]
    BY DEF RingInv, Owned
  <2>2. \A v \in members \X (1..Replicas) : hashFunction[v] \in MemberPoints
    BY DEF MemberPoints
  <2>3. ~Throws
    <3>1. PICK m \in members : TRUE
      OBVIOUS
    <3>2. <<m, 1>> \in members \X (1..Replicas)
      BY RingAssumption
    <3> QED BY <2>1, <2>2, <3>2 DEF Throws
  <2>4. ASSUME NEW key \in Hashes
        PROVE  \E v \in members \X (1..Replicas) :
                 /\ \A w \in members \X (1..Replicas) :
                      Distance(key, hashFunction[v]) <= Distance(key, hashFunction[w])
                 /\ GetNode(key) = v[1]
    <3>1. /\ Found(key) \in MemberPoints
          /\ \A x \in MemberPoints : Distance(key, Found(key)) <= Distance(key, x)
      BY <2>1, <2>3, FoundInList
    <3>2. PICK v \in members \X (1..Replicas) : Found(key) = hashFunction[v]
      BY <3>1 DEF MemberPoints
    <3>3. GetNode(key) = v[1]
      BY <2>1, <3>1, <3>2 DEF GetNode
    <3>4. \A w \in members \X (1..Replicas) :
            Distance(key, hashFunction[v]) <= Distance(key, hashFunction[w])
      BY <2>2, <3>1, <3>2
    <3> QED BY <3>3, <3>4
  <2> QED BY <2>3, <2>4
<1> QED BY <1>1, <1>2, <1>3, PTL DEF RingSpec
-----------------------------------------------------------------------------
\* addNode takes keys for the new node only, even when its hashes collide.
LEMMA AddNodeTakes ==
  ASSUME RingInv, NEW node \in Nodes \ members, AddNode(node), NEW key \in Hashes,
         ~Throws, GetNode(key) # NoNode
  PROVE  GetNode(key)' \in {GetNode(key), node}
<1> DEFINE P == Points(node)
           f == Found(key)
           g == FoundIn(sortedHashes', key)
<1>1. /\ hashFunction \in [VirtualNodes -> Hashes]
      /\ sortedHashes \in Seq(Hashes) /\ Sorted(sortedHashes)
  BY DEF RingInv
<1>2. /\ sortedHashes' = InsertAll(sortedHashes, node)
      /\ circle' = [h \in DOMAIN circle \cup P |-> IF h \in P THEN node ELSE circle[h]]
  BY DEF AddNode
<1>3. /\ sortedHashes' \in Seq(Hashes) /\ Sorted(sortedHashes')
      /\ Range(sortedHashes') = Range(sortedHashes) \cup P
  BY <1>1, <1>2, InsertAllEffect
<1>4. /\ sortedHashes # << >> /\ f = FoundIn(sortedHashes, key) /\ f \in Range(sortedHashes)
  BY FoundInList
<1>5. f \in DOMAIN circle /\ GetNode(key) = circle[f]
  BY DEF GetNode
<1>6. sortedHashes' # << >>
  <2>1. f \in Range(sortedHashes')
    BY <1>3, <1>4
  <2>2. DOMAIN sortedHashes' # {}
    BY <2>1 DEF Range
  <2> QED BY <2>2
<1>7. g \in Range(sortedHashes')
  BY <1>3, <1>6, FoundIsNearest
<1>8. GetNode(key)' = IF g \in DOMAIN circle' THEN circle'[g] ELSE NoNode
  BY DEF GetNode, Found, FoundIn, UpperBound
<1>9. g \in Range(sortedHashes) => g = f
  <2>1. Range(sortedHashes) \subseteq Range(sortedHashes')
    BY <1>3
  <2> QED BY <1>1, <1>3, <1>4, <1>6, <2>1, FoundInBoth
<1> HIDE DEF P, f, g
<1>10. CASE g \in P
  BY <1>2, <1>8, <1>10
<1>11. CASE g \notin P
  <2>1. g = f
    BY <1>3, <1>7, <1>9, <1>11
  <2> QED BY <1>2, <1>5, <1>8, <1>11, <2>1
<1> QED BY <1>10, <1>11

\* Without collisions removeNode moves the keys of the node that leaves and no other.
LEMMA RemoveNodeLeaves ==
  ASSUME RingInv, NEW node \in members, RemoveNode(node), NEW key \in Hashes,
         Distinct, ~Throws', GetNode(key) # node
  PROVE  GetNode(key)' = GetNode(key)
<1> DEFINE P == Points(node)
           f == Found(key)
           g == FoundIn(sortedHashes', key)
<1>1. /\ hashFunction \in [VirtualNodes -> Hashes] /\ members \subseteq Nodes
      /\ sortedHashes \in Seq(Hashes) /\ Sorted(sortedHashes) /\ Strict(sortedHashes)
      /\ Range(sortedHashes) = DOMAIN circle /\ DOMAIN circle = MemberPoints
      /\ \A v \in members \X (1..Replicas) : circle[hashFunction[v]] = v[1]
  BY DEF RingInv, Owned
<1>2. /\ sortedHashes' = EraseAll(sortedHashes, node)
      /\ circle' = [h \in DOMAIN circle \ P |-> circle[h]]
  BY DEF RemoveNode
<1>3. node \in Nodes
  BY <1>1
<1>4. /\ sortedHashes' \in Seq(Hashes) /\ Sorted(sortedHashes')
      /\ Range(sortedHashes) \ P \subseteq Range(sortedHashes')
      /\ Range(sortedHashes') \subseteq Range(sortedHashes)
  BY <1>1, <1>2, <1>3, EraseAllEffect
<1>5. ~Throws
  BY <1>2 DEF Throws
<1>6. /\ sortedHashes # << >> /\ f = FoundIn(sortedHashes, key) /\ f \in Range(sortedHashes)
  BY <1>5, FoundInList
<1>7. f \in DOMAIN circle /\ GetNode(key) = circle[f]
  BY <1>1, <1>6 DEF GetNode
<1>8. GetNode(key)' = IF g \in DOMAIN circle' THEN circle'[g] ELSE NoNode
  BY DEF GetNode, Found, FoundIn, UpperBound
<1>9. f \notin P
  <2>1. PICK v \in members \X (1..Replicas) : f = hashFunction[v]
    BY <1>1, <1>7 DEF MemberPoints
  <2>2. v[1] # node
    BY <1>1, <1>7, <2>1
  <2>3. Distinct /\ v[1] # node => hashFunction[v] \notin P
    BY <1>1, <1>3, PointsOf
  <2> QED BY <2>1, <2>2, <2>3
<1>10. f \in Range(sortedHashes')
  BY <1>4, <1>6, <1>9
<1>11. sortedHashes' # << >>
  <2>1. DOMAIN sortedHashes' # {}
    BY <1>10 DEF Range
  <2> QED BY <2>1
<1>12. g = f
  BY <1>1, <1>4, <1>6, <1>10, <1>11, FoundInBoth
<1> HIDE DEF P, f, g
<1> QED BY <1>2, <1>7, <1>8, <1>9, <1>12

\* KeysStay holds, for any nodes, replicas and hash function: the promise of consistent
\* hashing, that a change of the ring moves no key it does not have to.
THEOREM KeysStayCorrect == RingSpec => KeysStay
<1> DEFINE Stay ==
      \A key \in Hashes :
        /\ \A node \in members' \ members :
             ~Throws /\ GetNode(key) # NoNode => GetNode(key)' \in {GetNode(key), node}
        /\ \A node \in members \ members' :
             Distinct /\ ~Throws' /\ GetNode(key) # node => GetNode(key)' = GetNode(key)
<1>1. RingInit => RingInv
  BY RingInitInv
<1>2. RingInv /\ [RingNext]_ringVars => RingInv'
  BY RingInvInductive
<1>3. RingInv /\ RingNext => Stay
  <2> SUFFICES ASSUME RingInv, RingNext PROVE Stay
    OBVIOUS
  <2>1. ASSUME NEW n \in Nodes \ members, AddNode(n) PROVE Stay
    <3>1. members' \ members \subseteq {n} /\ members \ members' = {}
      BY <2>1 DEF AddNode
    <3>2. \A key \in Hashes : ~Throws /\ GetNode(key) # NoNode
                                => GetNode(key)' \in {GetNode(key), n}
      BY <2>1, AddNodeTakes
    <3> QED BY <3>1, <3>2
  <2>2. ASSUME NEW n \in members, RemoveNode(n) PROVE Stay
    <3>1. members' \ members = {} /\ members \ members' \subseteq {n}
      BY <2>2 DEF RemoveNode
    <3>2. \A key \in Hashes : Distinct /\ ~Throws' /\ GetNode(key) # n
                                => GetNode(key)' = GetNode(key)
      BY <2>2, RemoveNodeLeaves
    <3> QED BY <3>1, <3>2
  <2>3. ASSUME NEW key \in Hashes, Lookup(key) PROVE Stay
    <3>1. members' = members
      BY <2>3 DEF Lookup
    <3> QED BY <3>1
  <2> QED BY <2>1, <2>2, <2>3 DEF RingNext
<1>4. RingInv /\ [RingNext]_ringVars => [Stay]_ringVars
  BY <1>3
<1> HIDE DEF Stay
<1>5. RingSpec => [][Stay]_ringVars
  BY <1>1, <1>2, <1>4, PTL DEF RingSpec
<1> QED BY <1>5 DEF KeysStay, Stay
=============================================================================
