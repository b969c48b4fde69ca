---------------------------- MODULE Orders_proofs ----------------------------
(* What holds of rows in an order and of the rows a loop keeps, whatever the *)
(* rows are.                                                                 *)
EXTENDS Orders, Sequences, Functions, FiniteSetTheorems, SequenceTheorems, TLAPS

\* A relation that puts the elements of s in one order.
OrdersAll(order, s) ==
    /\ \A x \in s : <<x, x>> \notin order
    /\ \A x, y \in s : x # y => <<x, y>> \in order \/ <<y, x>> \in order
    /\ \A x, y, z \in s : <<x, y>> \in order /\ <<y, z>> \in order => <<x, z>> \in order

\* How many elements of s are before x.
Ahead(s, order, x) == Cardinality({y \in s : <<y, x>> \in order})

LEMMA AheadIs ==
    ASSUME NEW s, IsFiniteSet(s), NEW order, OrdersAll(order, s)
    PROVE  /\ \A x \in s : Ahead(s, order, x) \in 0..(Cardinality(s) - 1)
           /\ \A x, y \in s : <<x, y>> \in order => Ahead(s, order, x) < Ahead(s, order, y)
           /\ \A x, y \in s : Ahead(s, order, x) = Ahead(s, order, y) => x = y
           /\ \A x, y \in s : Ahead(s, order, x) < Ahead(s, order, y) => <<x, y>> \in order
           /\ \A k \in 0..(Cardinality(s) - 1) : \E x \in s : Ahead(s, order, x) = k
  <1> DEFINE less(x) == {y \in s : <<y, x>> \in order}
             n == Cardinality(s)
  <1>0. n \in Nat
    BY FS_CardinalityType
  <1>1. \A x \in s : less(x) \in SUBSET s /\ x \notin less(x)
    BY DEF OrdersAll
  <1>2. \A x \in s : IsFiniteSet(less(x)) /\ Cardinality(less(x)) \in Nat /\ Cardinality(less(x)) < n
    <2> SUFFICES ASSUME NEW x \in s
                 PROVE  IsFiniteSet(less(x)) /\ Cardinality(less(x)) \in Nat /\ Cardinality(less(x)) < n
      OBVIOUS
    <2>1. less(x) \in SUBSET s /\ less(x) # s
      BY <1>1
    <2> HIDE DEF less
    <2> QED
      BY <1>0, <2>1, FS_Subset, FS_CardinalityType
  <1>3. \A x, y \in s : <<x, y>> \in order => Cardinality(less(x)) < Cardinality(less(y))
    <2> SUFFICES ASSUME NEW x \in s, NEW y \in s, <<x, y>> \in order
                 PROVE  Cardinality(less(x)) < Cardinality(less(y))
      OBVIOUS
    <2>1. less(x) \in SUBSET less(y) /\ x \in less(y) /\ x \notin less(x)
      BY DEF OrdersAll
    <2>2. IsFiniteSet(less(y)) /\ Cardinality(less(x)) \in Nat /\ Cardinality(less(y)) \in Nat
      BY <1>2
    <2> HIDE DEF less
    <2>3. Cardinality(less(x)) <= Cardinality(less(y)) /\ Cardinality(less(x)) # Cardinality(less(y))
      BY <2>1, <2>2, FS_Subset
    <2> QED
      BY <2>2, <2>3
  <1>4. \A x \in s : Ahead(s, order, x) = Cardinality(less(x))
    BY DEF Ahead
  <1> HIDE DEF less
  <1>5. \A x, y \in s : x # y => <<x, y>> \in order \/ <<y, x>> \in order
    BY DEF OrdersAll
  <1>6. \A x \in s : Ahead(s, order, x) \in 0..(n - 1)
    BY <1>0, <1>2, <1>4
  <1>7. ASSUME NEW x \in s, NEW y \in s
        PROVE  /\ Ahead(s, order, x) = Ahead(s, order, y) => x = y
               /\ Ahead(s, order, x) < Ahead(s, order, y) => <<x, y>> \in order
    <2>1. Ahead(s, order, x) \in Nat /\ Ahead(s, order, y) \in Nat
      BY <1>0, <1>6
    <2>2. CASE x = y
      BY <2>1, <2>2
    <2>3. CASE <<x, y>> \in order
      BY <1>3, <1>4, <2>1, <2>3
    <2>4. CASE <<y, x>> \in order
      BY <1>3, <1>4, <2>1, <2>4
    <2> QED
      BY <1>5, <2>2, <2>3, <2>4
  <1>9. ASSUME NEW k \in 0..(n - 1) PROVE \E x \in s : Ahead(s, order, x) = k
    <2> DEFINE f == [x \in s |-> Ahead(s, order, x)]
    <2>1. f \in Injection(s, 0..(n - 1))
      BY <1>6, <1>7 DEF Injection, IsInjective
    <2>2. IsFiniteSet(0..(n - 1)) /\ Cardinality(0..(n - 1)) = n
      BY <1>0, FS_Interval
    <2> HIDE DEF f, n
    <2>3. f \in Surjection(s, 0..(n - 1))
      BY <2>1, <2>2, FS_Injection DEF n
    <2> QED
      BY <2>3 DEF Surjection, f
  <1> QED
    BY <1>3, <1>4, <1>6, <1>7, <1>9

LEMMA InOrderOfIs ==
    ASSUME NEW s, IsFiniteSet(s), NEW order, OrdersAll(order, s)
    PROVE  LET q == InOrderOf(s, order)
           IN /\ q \in Seq(s) /\ Len(q) = Cardinality(s) /\ DOMAIN q = 1..Cardinality(s)
              /\ Range(q) = s
              /\ \A k \in 1..Cardinality(s) : q[k] \in s /\ Ahead(s, order, q[k]) = k - 1
              /\ \A j, k \in 1..Cardinality(s) : q[j] = q[k] => j = k
              /\ \A j, k \in 1..Cardinality(s) : j < k => <<q[j], q[k]>> \in order
  <1> DEFINE q == InOrderOf(s, order)
             n == Cardinality(s)
  <1>0. n \in Nat
    BY FS_CardinalityType
  <1>1. q = [k \in 1..n |-> CHOOSE x \in s : Ahead(s, order, x) = k - 1]
    BY DEF InOrderOf, Ahead
  <1> HIDE DEF q
  <1>2. \A k \in 1..n : q[k] \in s /\ Ahead(s, order, q[k]) = k - 1
    <2> SUFFICES ASSUME NEW k \in 1..n PROVE q[k] \in s /\ Ahead(s, order, q[k]) = k - 1
      OBVIOUS
    <2>1. \E x \in s : Ahead(s, order, x) = k - 1
      <3>1. k - 1 \in 0..(n - 1)
        BY <1>0
      <3> QED
        BY <3>1, AheadIs
    <2> QED
      BY <1>1, <2>1
  <1>3. q \in [1..n -> s]
    BY <1>1, <1>2
  <1>4. q \in Seq(s) /\ Len(q) = n /\ DOMAIN q = 1..n
    BY <1>0, <1>3, SeqDef, LenProperties
  <1>5. \A j, k \in 1..n : q[j] = q[k] => j = k
    BY <1>0, <1>2
  <1>6. \A j, k \in 1..n : j < k => <<q[j], q[k]>> \in order
    BY <1>0, <1>2, AheadIs
  <1>7. ASSUME NEW x \in s PROVE \E k \in 1..n : q[k] = x
    <2>1. Ahead(s, order, x) \in 0..(n - 1)
      BY AheadIs
    <2>2. Ahead(s, order, x) + 1 \in 1..n
      BY <1>0, <2>1
    <2> DEFINE k == Ahead(s, order, x) + 1
    <2>3. Ahead(s, order, q[k]) = Ahead(s, order, x) /\ q[k] \in s
      BY <1>2, <2>1, <2>2
    <2> QED
      BY <2>2, <2>3, AheadIs
  <1>8. Range(q) = s
    BY <1>3, <1>7 DEF Range
  <1> QED
    BY <1>2, <1>4, <1>5, <1>6, <1>8 DEF q

----------------------------------------------------------------------------
\* No element has two places.
OnceEach(s) == \A i, j \in DOMAIN s : s[i] = s[j] => i = j

LEMMA PlacesInOrder ==
    ASSUME NEW at, IsFiniteSet(at), \A i \in at : i \in Nat
    PROVE  OrdersAll({p \in at \X at : p[1] < p[2]}, at)
  <1> DEFINE R == {p \in at \X at : p[1] < p[2]}
  <1>1. \A x, y \in at : <<x, y>> \in R <=> x < y
    OBVIOUS
  <1> HIDE DEF R
  <1>2. \A x \in at : <<x, x>> \notin R
    BY <1>1
  <1>3. \A x, y \in at : x # y => <<x, y>> \in R \/ <<y, x>> \in R
    BY <1>1
  <1>4. \A x, y, z \in at : <<x, y>> \in R /\ <<y, z>> \in R => <<x, z>> \in R
    BY <1>1
  <1> QED
    BY <1>2, <1>3, <1>4 DEF OrdersAll, R

LEMMA ThoseIs ==
    ASSUME NEW S, NEW s \in Seq(S), NEW keep
    PROVE  /\ Those(s, keep) \in Seq(S) /\ Len(Those(s, keep)) \in Nat
           /\ DOMAIN Those(s, keep) = 1..Len(Those(s, keep))
           /\ Range(Those(s, keep)) = Range(s) \cap keep
           /\ OnceEach(s) => OnceEach(Those(s, keep))
           /\ Range(s) \subseteq keep => Those(s, keep) = s
  <1> DEFINE at == {i \in DOMAIN s : s[i] \in keep}
             R == {p \in at \X at : p[1] < p[2]}
             q == InOrderOf(at, R)
             n == Cardinality(at)
             t == Those(s, keep)
  <1>1. Len(s) \in Nat /\ DOMAIN s = 1..Len(s) /\ \A i \in DOMAIN s : s[i] \in S
    BY LenProperties, ElementOfSeq
  <1>2. IsFiniteSet(at) /\ at \in SUBSET DOMAIN s /\ \A i \in at : i \in Nat
    <2>1. IsFiniteSet(1..Len(s))
      BY <1>1, FS_Interval
    <2>2. at \in SUBSET (1..Len(s))
      BY <1>1
    <2> QED
      BY <1>1, <2>1, <2>2, FS_Subset
  <1>3. n \in Nat
    BY <1>2, FS_CardinalityType
  <1>4. t = [k \in 1..n |-> s[q[k]]]
    BY DEF Those
  <1>5. \A i : i \in at <=> i \in DOMAIN s /\ s[i] \in keep
    OBVIOUS
  <1> HIDE DEF at
  <1>6. OrdersAll(R, at)
    BY <1>2, PlacesInOrder
  <1>7. /\ DOMAIN q = 1..n /\ Range(q) = at
        /\ \A k \in 1..n : q[k] \in at /\ Ahead(at, R, q[k]) = k - 1
        /\ \A j, k \in 1..n : q[j] = q[k] => j = k
    BY <1>2, <1>6, InOrderOfIs
  <1> HIDE DEF q, n, t
  <1>8. t \in [1..n -> S]
    BY <1>1, <1>2, <1>4, <1>7
  <1>9. t \in Seq(S) /\ Len(t) = n /\ DOMAIN t = 1..n
    BY <1>3, <1>8, SeqDef, LenProperties
  <1>10. Range(t) = Range(s) \cap keep
    <2>1. ASSUME NEW x \in Range(t) PROVE x \in Range(s) \cap keep
      <3>1. PICK k \in 1..n : x = t[k]
        BY <1>9 DEF Range
      <3>2. q[k] \in at /\ x = s[q[k]]
        BY <1>4, <1>7, <3>1
      <3> QED
        BY <1>5, <3>2 DEF Range
    <2>2. ASSUME NEW x \in Range(s) \cap keep PROVE x \in Range(t)
      <3>1. PICK i \in DOMAIN s : x = s[i]
        BY DEF Range
      <3>2. i \in at
        BY <1>5, <3>1
      <3>3. PICK k \in 1..n : q[k] = i
        BY <1>7, <3>2 DEF Range
      <3>4. t[k] = x
        BY <1>4, <3>1, <3>3
      <3> QED
        BY <1>9, <3>4 DEF Range
    <2> QED
      BY <2>1, <2>2
  <1>11. ASSUME OnceEach(s) PROVE OnceEach(t)
    <2> SUFFICES ASSUME NEW j \in 1..n, NEW k \in 1..n, t[j] = t[k] PROVE j = k
      BY <1>9 DEF OnceEach
    <2>1. q[j] \in DOMAIN s /\ q[k] \in DOMAIN s /\ s[q[j]] = s[q[k]]
      BY <1>4, <1>5, <1>7
    <2>2. q[j] = q[k]
      BY <1>11, <2>1 DEF OnceEach
    <2> QED
      BY <1>7, <2>2
  <1>12. ASSUME Range(s) \subseteq keep PROVE t = s
    <2>1. at = 1..Len(s)
      BY <1>1, <1>5, <1>12 DEF Range
    <2>2. n = Len(s)
      <3>1. Cardinality(1..Len(s)) = Len(s)
        BY <1>1, FS_Interval
      <3> QED
        BY <2>1, <3>1 DEF n
    <2>3. ASSUME NEW x \in 1..n PROVE Ahead(at, R, x) = x - 1
      <3>1. {y \in at : <<y, x>> \in R} = 1..(x - 1)
        BY <1>1, <2>1, <2>2
      <3>2. x - 1 \in Nat
        BY <1>3
      <3> HIDE DEF R
      <3>3. Cardinality(1..(x - 1)) = x - 1
        BY <3>2, FS_Interval
      <3> QED
        BY <3>1, <3>3 DEF Ahead
    <2>4. \A k \in 1..n : q[k] \in 1..n /\ q[k] = k
      <3> SUFFICES ASSUME NEW k \in 1..n PROVE q[k] \in 1..n /\ q[k] = k
        OBVIOUS
      <3>1. q[k] \in 1..n /\ Ahead(at, R, q[k]) = k - 1
        BY <1>7, <2>1, <2>2
      <3>2. q[k] - 1 = k - 1
        BY <2>3, <3>1
      <3> QED
        BY <1>3, <3>1, <3>2
    <2>5. t = [k \in 1..n |-> s[k]]
      BY <1>4, <2>4
    <2> QED
      BY <1>1, <2>2, <2>5
  <1> QED
    BY <1>3, <1>9, <1>10, <1>11, <1>12 DEF t
=============================================================================
