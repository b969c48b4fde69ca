--------------------------- MODULE Requests_proofs ----------------------------
(* What the request table and the moderation queue promise, proved for every *)
(* set of keys, callers, limits, windows, capacities and sweep intervals, and*)
(* for every set of submissions, of admins and of files.                     *)
EXTENDS RateLimiter, SubmissionQueue, FiniteSetTheorems, WellFoundedInduction, TLAPS

-----------------------------------------------------------------------------
(* The request table (RateLimiter).                                        *)

\* Why the table stays bounded: a new key enters only when the sweep left room,
\* and a key in the table was asked for with a window the longest one covers.
TableInv ==
    /\ clock \in Nat /\ maxWindow \in Nat
    /\ call \in [Callers -> {NoCall} \cup [at: {"lock"}, key: Keys, now: Nat]]
    /\ DOMAIN hits \subseteq Keys /\ IsFiniteSet(DOMAIN hits)
    /\ TableIsBounded

\* A waiting call is for one of the keys, read at some moment.
LEMMA CallOfWaiting ==
    ASSUME TableInv, NEW c \in Callers, Waiting(c)
    PROVE  call[c].key \in Keys /\ call[c].now \in Nat
<1>1. call[c] # NoCall
  BY DEF Waiting, NoCall
<1>2. call[c] \in [at: {"lock"}, key: Keys, now: Nat]
  BY <1>1 DEF TableInv
<1> QED
  BY <1>2

\* The longest window covers this call's and every earlier one.
LEMMA LongestCovers ==
    ASSUME LimiterAssumption, maxWindow \in Nat, NEW k \in Keys
    PROVE  Longest(k) \in Nat /\ Window[k] <= Longest(k) /\ maxWindow <= Longest(k)
BY DEF LimiterAssumption, Longest

\* A sweep, if any, only takes keys away.
LEMMA TrackedShrinks ==
    ASSUME NEW k, NEW now
    PROVE  Tracked(k, now) \subseteq DOMAIN hits
BY DEF Tracked, Kept

\* A table on fewer keys, under a longer window, is as good.
LEMMA Shrunk ==
    ASSUME LimiterAssumption, TableInv, NEW k \in Keys, NEW keys \in SUBSET DOMAIN hits
    PROVE  /\ keys \subseteq Keys /\ IsFiniteSet(keys)
           /\ Cardinality(keys) \in Nat /\ Cardinality(keys) <= Capacity
           /\ \A j \in keys : Window[j] <= Longest(k)
<1>1. IsFiniteSet(keys) /\ Cardinality(keys) <= Cardinality(DOMAIN hits)
  BY FS_Subset DEF TableInv
<1>2. Cardinality(keys) \in Nat /\ Cardinality(DOMAIN hits) \in Nat /\ Capacity \in Nat
  BY <1>1, FS_CardinalityType DEF TableInv, LimiterAssumption
<1>3. Cardinality(keys) <= Capacity
  BY <1>1, <1>2 DEF TableInv, TableIsBounded
<1>4. ASSUME NEW j \in keys PROVE Window[j] <= Longest(k)
  <2>1. j \in Keys /\ Window[j] \in Nat /\ Window[j] <= maxWindow
    BY DEF TableInv, TableIsBounded, LimiterAssumption
  <2> QED
    BY <2>1, LongestCovers DEF TableInv
<1> QED
  BY <1>1, <1>2, <1>3, <1>4 DEF TableInv

\* And one more key fits where there is room.
LEMMA RoomForOne ==
    ASSUME LimiterAssumption, TableInv, NEW k \in Keys, NEW keys \in SUBSET DOMAIN hits,
           k \in keys \/ Cardinality(keys) < Capacity
    PROVE  /\ keys \cup {k} \subseteq Keys /\ IsFiniteSet(keys \cup {k})
           /\ Cardinality(keys \cup {k}) <= Capacity
           /\ \A j \in keys \cup {k} : Window[j] <= Longest(k)
<1>1. /\ keys \subseteq Keys /\ IsFiniteSet(keys)
      /\ Cardinality(keys) \in Nat /\ Cardinality(keys) <= Capacity
      /\ \A j \in keys : Window[j] <= Longest(k)
  BY Shrunk
<1>2. IsFiniteSet(keys \cup {k})
      /\ Cardinality(keys \cup {k}) = IF k \in keys THEN Cardinality(keys) ELSE Cardinality(keys) + 1
  BY <1>1, FS_AddElement
<1>3. Cardinality(keys \cup {k}) <= Capacity
  BY <1>1, <1>2 DEF LimiterAssumption
<1>4. Window[k] <= Longest(k)
  BY LongestCovers DEF TableInv
<1> QED
  BY <1>1, <1>2, <1>3, <1>4

\* What every call leaves behind, given the keys of its table.
LEMMA TableAfterCall ==
    ASSUME LimiterAssumption, TableInv, NEW c \in Callers, NEW k \in Keys,
           NEW keys, DOMAIN hits' = keys,
           keys \subseteq Keys, IsFiniteSet(keys), Cardinality(keys) <= Capacity,
           \A j \in keys : Window[j] <= Longest(k),
           maxWindow' = Longest(k), clock' = clock,
           call' = [call EXCEPT ![c] = NoCall]
    PROVE  TableInv'
<1>1. maxWindow' \in Nat /\ clock' \in Nat
  BY LongestCovers DEF TableInv
<1>2. call' \in [Callers -> {NoCall} \cup [at: {"lock"}, key: Keys, now: Nat]]
  BY DEF TableInv
<1>3. TableIsBounded'
  BY DEF TableIsBounded
<1> QED
  BY <1>1, <1>2, <1>3 DEF TableInv

LEMMA TableInvInit == LimiterAssumption /\ Init => TableInv
<1> SUFFICES ASSUME LimiterAssumption, Init PROVE TableInv
  OBVIOUS
<1>1. DOMAIN hits = {}
  BY DEF Init
<1>2. IsFiniteSet({}) /\ Cardinality({}) = 0
  BY FS_EmptySet
<1>3. TableIsBounded
  BY <1>1, <1>2 DEF TableIsBounded, LimiterAssumption
<1> QED
  BY <1>1, <1>2, <1>3 DEF Init, TableInv

LEMMA TableInvNext == LimiterAssumption /\ TableInv /\ [Next]_vars => TableInv'
<1> SUFFICES ASSUME LimiterAssumption, TableInv, [Next]_vars PROVE TableInv'
  OBVIOUS
<1>1. CASE Tick
  BY <1>1 DEF Tick, TableInv, TableIsBounded
<1>2. ASSUME NEW c \in Callers, NEW k \in Keys, Enter(c, k) PROVE TableInv'
  BY <1>2 DEF Enter, TableInv, TableIsBounded
<1>3. ASSUME NEW c \in Callers, AllowTracked(c) PROVE TableInv'
  <2> DEFINE k == call[c].key
             keys == Tracked(k, call[c].now)
  <2>1. k \in Keys
    BY <1>3, CallOfWaiting DEF AllowTracked
  <2>2. keys \in SUBSET DOMAIN hits
    BY TrackedShrinks
  <2>3. k \in keys /\ keys \cup {k} = keys
    BY <1>3 DEF AllowTracked
  <2>4. DOMAIN hits' = keys
    BY <1>3, <2>3 DEF AllowTracked, LetThrough
  <2>5. /\ keys \subseteq Keys /\ IsFiniteSet(keys) /\ Cardinality(keys) <= Capacity
        /\ \A j \in keys : Window[j] <= Longest(k)
    BY <2>1, <2>2, Shrunk
  <2>6. maxWindow' = Longest(k) /\ clock' = clock /\ call' = [call EXCEPT ![c] = NoCall]
    BY <1>3 DEF AllowTracked, Leave
  <2> HIDE DEF k, keys
  <2> QED
    BY <2>1, <2>4, <2>5, <2>6, TableAfterCall
<1>4. ASSUME NEW c \in Callers, AllowNew(c) PROVE TableInv'
  <2> DEFINE k == call[c].key
             now == call[c].now
             keys == Tracked(k, now)
             left == IF Cardinality(keys) >= Capacity
                     THEN keys \cap Kept(now, Longest(k)) ELSE keys
  <2>1. k \in Keys
    BY <1>4, CallOfWaiting DEF AllowNew
  <2>2. left \in SUBSET DOMAIN hits
    BY TrackedShrinks
  <2>3. maxWindow' = Longest(k) /\ clock' = clock /\ call' = [call EXCEPT ![c] = NoCall]
    BY <1>4 DEF AllowNew, Leave
  <2>4. \/ DOMAIN hits' = left
        \/ DOMAIN hits' = left \cup {k} /\ ~(Cardinality(left) >= Capacity)
    BY <1>4 DEF AllowNew, LetThrough
  <2> HIDE DEF k, left
  <2>5. CASE DOMAIN hits' = left
    BY <2>1, <2>2, <2>3, <2>5, Shrunk, TableAfterCall
  <2>6. CASE DOMAIN hits' = left \cup {k} /\ ~(Cardinality(left) >= Capacity)
    <3>1. Cardinality(left) < Capacity
      <4>1. Cardinality(left) \in Nat /\ Capacity \in Nat
        BY <2>1, <2>2, Shrunk DEF LimiterAssumption
      <4> QED
        BY <4>1, <2>6
    <3>2. /\ left \cup {k} \subseteq Keys /\ IsFiniteSet(left \cup {k})
          /\ Cardinality(left \cup {k}) <= Capacity
          /\ \A j \in left \cup {k} : Window[j] <= Longest(k)
      BY <2>1, <2>2, <3>1, RoomForOne
    <3> DEFINE table == left \cup {k}
    <3>3. DOMAIN hits' = table
      BY <2>6
    <3> HIDE DEF table
    <3>4. /\ table \subseteq Keys /\ IsFiniteSet(table) /\ Cardinality(table) <= Capacity
          /\ \A j \in table : Window[j] <= Longest(k)
      BY <3>2 DEF table
    <3> QED
      BY <2>1, <2>3, <3>3, <3>4, TableAfterCall
  <2> QED
    BY <2>4, <2>5, <2>6
<1>5. CASE UNCHANGED vars
  BY <1>5 DEF vars, TableInv, TableIsBounded
<1> QED
  BY <1>1, <1>2, <1>3, <1>4, <1>5 DEF Next

\* The limiter's table never outgrows its capacity, however many callers flood
\* it with however many keys, and no sweep measures a tracked key by a window
\* shorter than its own (RateLimiter.allow, RateLimiter._sweep).
THEOREM TableBounded == Spec => []TableIsBounded
<1>1. Init => TableInv
  BY TableInvInit, LimiterAssumption
<1>2. TableInv /\ [Next]_vars => TableInv'
  BY TableInvNext, LimiterAssumption
<1>3. TableInv => TableIsBounded
  BY DEF TableInv
<1> QED
  BY <1>1, <1>2, <1>3, PTL DEF Spec

----------------------------------------------------------------------------
(* The limit.  What the table may forget of a key is too old to count: calls  *)
(* enter at most `late` out of the order they read the clock in, so a moment  *)
(* still in its window by that much is in the list of its key, and the last   *)
(* entry of that list is no older than the moment by more than `late`.        *)

\* The moments of a list, none later than clk, are in order up to lt.
InOrder(a, clk, lt) ==
    \A i \in DOMAIN a : /\ a[i] <= clk
                        /\ \A j \in DOMAIN a : i <= j => a[i] <= a[j] + lt

\* No w - 2 * lt moments in a row hold more than lim of a list.
Fits(a, clk, lt, w, lim) ==
    \A from \in 0 .. clk :
        Cardinality({i \in DOMAIN a : a[i] \in from .. from + w - 1 - 2 * lt}) <= lim

WhatCountsIsHeld ==
    \A k \in Keys : \A i \in DOMAIN admitted[k] :
        clock - admitted[k][i] < Window[k] - late => k \in DOMAIN hits /\ i \in hits[k]

LimitInv ==
    /\ TableInv /\ late \in Nat
    /\ admitted \in [Keys -> Seq(Nat)]
    /\ \A k \in DOMAIN hits : hits[k] \subseteq DOMAIN admitted[k]
    /\ \A c \in Callers : Waiting(c) => call[c].now <= clock
    /\ \A k \in Keys : InOrder(admitted[k], clock, late)
    /\ WhatCountsIsHeld
    /\ \A k \in Keys : Fits(admitted[k], clock, late, Window[k], Limit[k])

\* A set of places that is not empty has a last one.
LEMMA LastOfMany ==
    ASSUME NEW n \in Nat, NEW T, T \subseteq 1 .. n, T # {}
    PROVE  \E m \in T : \A j \in T : j <= m
<1> DEFINE Before == OpToRel(<, Nat)
           S == {n - j : j \in T}
<1>1. IsWellFoundedOn(Before, Nat)
  BY NatLessThanWellFounded
<1>2. \A x, y \in Nat : x < y => <<x, y>> \in Before
  BY DEF OpToRel
<1> HIDE DEF Before
<1>3. S \subseteq Nat /\ S # {}
  <2>1. \A j \in T : j \in 1 .. n
    OBVIOUS
  <2>2. \A j \in 1 .. n : n - j \in Nat
    OBVIOUS
  <2>3. S # {}
    OBVIOUS
  <2>4. S \subseteq Nat
    BY <2>1, <2>2
  <2> QED
    BY <2>3, <2>4
<1> HIDE DEF S
<1>4. PICK x \in S : \A y \in S : <<y, x>> \notin Before
  BY <1>1, <1>3, WFMin
<1>5. PICK m \in T : x = n - m
  BY DEF S
<1>6. \A j \in T : n - j \in S
  BY DEF S
<1>7. \A j \in T : ~(n - j < n - m)
  BY <1>2, <1>3, <1>4, <1>5, <1>6
<1> QED
  BY <1>7

LEMMA OrderStays ==
    ASSUME NEW a \in Seq(Nat), NEW clk \in Nat, NEW lt \in Nat, NEW clk2 \in Nat, NEW lt2 \in Nat,
           clk <= clk2, lt <= lt2, InOrder(a, clk, lt)
    PROVE  InOrder(a, clk2, lt2)
<1>1. \A i \in DOMAIN a : a[i] \in Nat
  OBVIOUS
<1> QED
  BY <1>1 DEF InOrder

LEMMA OrderGrows ==
    ASSUME NEW a \in Seq(Nat), NEW clk \in Nat, NEW lt \in Nat, NEW lt2 \in Nat, NEW now \in Nat,
           lt <= lt2, now <= clk, clk - now <= lt2, InOrder(a, clk, lt)
    PROVE  InOrder(Append(a, now), clk, lt2)
<1> DEFINE b == Append(a, now)  n == Len(a)
<1>1. n \in Nat /\ DOMAIN a = 1 .. n /\ DOMAIN b = 1 .. n + 1
  OBVIOUS
<1>2. \A i \in 1 .. n : b[i] = a[i] /\ a[i] \in Nat /\ a[i] <= clk
  BY DEF InOrder
<1>3. b[n + 1] = now
  OBVIOUS
<1>4. \A i, j \in 1 .. n : i <= j => a[i] <= a[j] + lt
  BY DEF InOrder
<1> HIDE DEF b, n
<1>5. ASSUME NEW i \in 1 .. n + 1
      PROVE  b[i] <= clk /\ \A j \in 1 .. n + 1 : i <= j => b[i] <= b[j] + lt2
  <2>1. CASE i = n + 1
    <3>1. \A j \in 1 .. n + 1 : i <= j => j = n + 1
      BY <1>1, <2>1
    <3> QED
      BY <1>3, <2>1, <3>1
  <2>2. CASE i \in 1 .. n
    <3>1. b[i] = a[i] /\ a[i] \in Nat /\ a[i] <= clk
      BY <1>2, <2>2
    <3>2. ASSUME NEW j \in 1 .. n + 1, i <= j
          PROVE  b[i] <= b[j] + lt2
      <4>1. CASE j = n + 1
        BY <1>3, <3>1, <4>1
      <4>2. CASE j \in 1 .. n
        <5>1. b[j] = a[j] /\ a[j] \in Nat /\ a[i] <= a[j] + lt
          BY <1>2, <1>4, <2>2, <3>2, <4>2
        <5> QED
          BY <3>1, <5>1
      <4> QED
        BY <1>1, <4>1, <4>2
    <3> QED
      BY <3>1, <3>2
  <2> QED
    BY <1>1, <2>1, <2>2
<1>6. InOrder(b, clk, lt2)
  BY <1>1, <1>5 DEF InOrder
<1> QED
  BY <1>6 DEF b

\* What is chosen from a list is a finite set of its places.
LEMMA ChosenPlaces ==
    ASSUME NEW a \in Seq(Nat), NEW T, T \subseteq DOMAIN a
    PROVE  IsFiniteSet(T) /\ Cardinality(T) \in Nat
<1>1. DOMAIN a = 1 .. Len(a) /\ Len(a) \in Nat
  OBVIOUS
<1>2. IsFiniteSet(DOMAIN a)
  BY <1>1, FS_Interval
<1>3. IsFiniteSet(T)
  BY <1>2, FS_Subset
<1> QED
  BY <1>3, FS_CardinalityType

LEMMA FitStays ==
    ASSUME NEW a \in Seq(Nat), NEW clk \in Nat, NEW lt \in Nat, NEW clk2 \in Nat, NEW lt2 \in Nat,
           NEW w \in Nat, NEW lim \in Nat, clk <= clk2, lt <= lt2,
           InOrder(a, clk, lt), Fits(a, clk, lt, w, lim)
    PROVE  Fits(a, clk2, lt2, w, lim)
<1> SUFFICES ASSUME NEW from \in 0 .. clk2
             PROVE  Cardinality({i \in DOMAIN a : a[i] \in from .. from + w - 1 - 2 * lt2}) <= lim
  BY DEF Fits
<1> DEFINE A == {i \in DOMAIN a : a[i] \in from .. from + w - 1 - 2 * lt}
           B == {i \in DOMAIN a : a[i] \in from .. from + w - 1 - 2 * lt2}
<1>1. \A i \in DOMAIN a : a[i] \in Nat /\ a[i] <= clk
  BY DEF InOrder
<1>2. CASE from <= clk
  <2>1. Cardinality(A) <= lim
    BY <1>2 DEF Fits
  <2>2. B \subseteq A
    BY <1>1
  <2>3. IsFiniteSet(A) /\ Cardinality(A) \in Nat /\ Cardinality(B) \in Nat
    BY ChosenPlaces
  <2>4. Cardinality(B) <= Cardinality(A)
    BY <2>2, <2>3, FS_Subset
  <2> QED
    BY <2>1, <2>3, <2>4
<1>3. CASE ~(from <= clk)
  <2>1. B = {}
    BY <1>1, <1>3
  <2> HIDE DEF B
  <2>2. Cardinality(B) = 0
    BY <2>1, FS_EmptySet
  <2>3. Cardinality(B) <= lim
    BY <2>2
  <2> QED
    BY <2>3 DEF B
<1> QED
  BY <1>2, <1>3

\* One more moment fits when what counts beside it is below the limit.
LEMMA FitGrows ==
    ASSUME NEW a \in Seq(Nat), NEW clk \in Nat, NEW lt \in Nat, NEW lt2 \in Nat, NEW now \in Nat,
           NEW w \in Nat, NEW lim \in Nat, lt <= lt2, now <= clk, clk - now <= lt2,
           InOrder(a, clk, lt), Fits(a, clk, lt, w, lim),
           NEW before, IsFiniteSet(before), Cardinality(before) < lim,
           \A i \in DOMAIN a : clk - a[i] < w - lt2 => i \in before
    PROVE  Fits(Append(a, now), clk, lt2, w, lim)
<1> DEFINE b == Append(a, now)  n == Len(a)
<1> SUFFICES ASSUME NEW from \in 0 .. clk
             PROVE  Cardinality({i \in DOMAIN b : b[i] \in from .. from + w - 1 - 2 * lt2}) <= lim
  BY DEF Fits
<1> DEFINE A == {i \in DOMAIN a : a[i] \in from .. from + w - 1 - 2 * lt2}
           B == {i \in DOMAIN b : b[i] \in from .. from + w - 1 - 2 * lt2}
<1>1. n \in Nat /\ DOMAIN a = 1 .. n /\ DOMAIN b = 1 .. n + 1
  OBVIOUS
<1>2. \A i \in 1 .. n : b[i] = a[i] /\ a[i] \in Nat
  OBVIOUS
<1>3. b[n + 1] = now
  OBVIOUS
<1>4. Fits(a, clk, lt2, w, lim)
  BY FitStays
<1>5. Cardinality(A) <= lim
  BY <1>4 DEF Fits
<1> HIDE DEF b, n
<1>6. CASE now \notin from .. from + w - 1 - 2 * lt2
  <2>1. \A i \in B : i # n + 1
    BY <1>3, <1>6
  <2>2. B = A
    BY <1>1, <1>2, <2>1
  <2> QED
    BY <1>5, <2>2
<1>7. CASE now \in from .. from + w - 1 - 2 * lt2
  <2>1. \A i \in A : i \in DOMAIN a /\ clk - a[i] < w - lt2
    <3>1. ASSUME NEW i \in A PROVE clk - a[i] < w - lt2
      <4>1. a[i] \in Nat /\ from <= a[i]
        BY <1>1, <1>2
      <4>2. from <= now /\ now <= from + w - 1 - 2 * lt2
        BY <1>7
      <4> QED
        BY <4>1, <4>2
    <3> QED
      BY <3>1
  <2>2. A \subseteq before
    BY <2>1
  <2>3. IsFiniteSet(A) /\ Cardinality(A) \in Nat
    BY ChosenPlaces
  <2>4. Cardinality(A) <= Cardinality(before) /\ Cardinality(before) \in Nat
    BY <2>2, FS_Subset, FS_CardinalityType
  <2>5. B = A \cup {n + 1} /\ n + 1 \notin A
    BY <1>1, <1>2, <1>3, <1>7
  <2> HIDE DEF A, B
  <2>6. Cardinality(A \cup {n + 1}) = Cardinality(A) + 1
    BY <2>3, <2>5, FS_AddElement
  <2>7. Cardinality(B) <= lim
    BY <2>3, <2>4, <2>5, <2>6
  <2> QED
    BY <2>7 DEF B
<1> QED
  BY <1>6, <1>7

LEMMA ListsHaveALast ==
    ASSUME LimitInv, NEW k \in DOMAIN hits, NEW i \in hits[k]
    PROVE  \E m \in hits[k] : IsLast(m, k)
<1>1. k \in Keys
  BY DEF LimitInv, TableInv
<1>2. admitted[k] \in Seq(Nat) /\ hits[k] \subseteq DOMAIN admitted[k]
  BY <1>1 DEF LimitInv
<1>3. hits[k] \subseteq 1 .. Len(admitted[k]) /\ Len(admitted[k]) \in Nat
  BY <1>2
<1>4. \E m \in hits[k] : \A j \in hits[k] : j <= m
  BY <1>3, LastOfMany
<1> QED
  BY <1>4 DEF IsLast

\* A call under the lock: what it read, and how late it is.
LEMMA CallOf ==
    ASSUME LimiterAssumption, LimitInv, NEW c \in Callers, Waiting(c), Leave(c)
    PROVE  /\ call[c].key \in Keys /\ call[c].now \in Nat /\ call[c].now <= clock
           /\ clock' = clock /\ late' \in Nat /\ late <= late' /\ clock - call[c].now <= late'
<1>1. call[c].key \in Keys /\ call[c].now \in Nat /\ call[c].now <= clock /\ clock \in Nat /\ late \in Nat
  BY CallOfWaiting DEF LimitInv, TableInv
<1> QED
  BY <1>1 DEF Leave

\* The last entry of a list is no older than a moment that counts by more than `late`.
LEMMA YoungEnough ==
    ASSUME NEW now \in Nat, NEW clk \in Nat, NEW first \in Nat, NEW last \in Nat,
           NEW lt \in Nat, NEW lt2 \in Nat, NEW w \in Nat, NEW longest \in Nat,
           now <= clk, lt <= lt2, clk - first < w - lt2, first <= last + lt, w <= longest
    PROVE  now - last < longest
OBVIOUS

\* A key with a moment that counts survives every sweep.
LEMMA CountedKeysStay ==
    ASSUME LimiterAssumption, LimitInv, NEW c \in Callers, Waiting(c), Leave(c),
           NEW k \in Keys, NEW i \in DOMAIN admitted[k],
           clock - admitted[k][i] < Window[k] - late'
    PROVE  /\ k \in DOMAIN hits /\ i \in hits[k]
           /\ k \in Kept(call[c].now, Longest(call[c].key)) /\ k \in Tracked(call[c].key, call[c].now)
<1>1. /\ call[c].key \in Keys /\ call[c].now \in Nat /\ call[c].now <= clock
      /\ late' \in Nat /\ late <= late'
  BY CallOf
<1>2. /\ clock \in Nat /\ late \in Nat /\ Window[k] \in Nat /\ admitted[k] \in Seq(Nat)
      /\ \A j \in DOMAIN admitted[k] : admitted[k][j] \in Nat
  BY DEF LimitInv, TableInv, LimiterAssumption
<1>3. k \in DOMAIN hits /\ i \in hits[k]
  <2>1. clock - admitted[k][i] < Window[k] - late
    BY <1>1, <1>2
  <2> QED
    BY <2>1 DEF LimitInv, WhatCountsIsHeld
<1>4. PICK m \in hits[k] : IsLast(m, k)
  BY <1>3, ListsHaveALast
<1>5. m \in DOMAIN admitted[k] /\ i <= m
  BY <1>3, <1>4 DEF IsLast, LimitInv
<1>6. admitted[k][i] <= admitted[k][m] + late
  BY <1>3, <1>5 DEF LimitInv, InOrder
<1>7. Longest(call[c].key) \in Nat /\ Window[k] <= Longest(call[c].key)
  <2>1. Longest(call[c].key) \in Nat /\ maxWindow <= Longest(call[c].key) /\ maxWindow \in Nat
    BY <1>1, LongestCovers DEF LimitInv, TableInv
  <2>2. Window[k] <= maxWindow
    BY <1>3 DEF LimitInv, TableInv, TableIsBounded
  <2> QED
    BY <1>2, <2>1, <2>2
<1>8. call[c].now - admitted[k][m] < Longest(call[c].key)
  <2>1. admitted[k][i] \in Nat /\ admitted[k][m] \in Nat
    BY <1>2, <1>5
  <2> QED
    BY <1>1, <1>2, <1>6, <1>7, <2>1, YoungEnough
<1>9. k \in Kept(call[c].now, Longest(call[c].key))
  BY <1>3, <1>4, <1>8 DEF Kept
<1> QED
  BY <1>3, <1>9 DEF Tracked

LEMMA NothingAdmitted ==
    ASSUME LimiterAssumption, LimitInv, admitted' = admitted,
           clock' \in Nat, clock <= clock', late' \in Nat, late <= late', NEW k \in Keys
    PROVE  /\ InOrder(admitted'[k], clock', late')
           /\ Fits(admitted'[k], clock', late', Window[k], Limit[k])
<1>1. /\ admitted[k] \in Seq(Nat) /\ clock \in Nat /\ late \in Nat
      /\ Window[k] \in Nat /\ Limit[k] \in Nat
      /\ InOrder(admitted[k], clock, late) /\ Fits(admitted[k], clock, late, Window[k], Limit[k])
  BY DEF LimitInv, TableInv, LimiterAssumption
<1>2. InOrder(admitted[k], clock', late')
  BY <1>1, OrderStays
<1>3. Fits(admitted[k], clock', late', Window[k], Limit[k])
  BY <1>1, FitStays
<1> QED
  BY <1>2, <1>3

\* One call is let through: what counts beside it was below the limit.
LEMMA OneAdmitted ==
    ASSUME LimiterAssumption, LimitInv, NEW c \in Callers, Waiting(c), Leave(c),
           NEW before, IsFiniteSet(before), Cardinality(before) < Limit[call[c].key],
           \A i \in DOMAIN admitted[call[c].key] :
               clock - admitted[call[c].key][i] < Window[call[c].key] - late' => i \in before,
           admitted' = [admitted EXCEPT ![call[c].key] = Append(@, call[c].now)]
    PROVE  /\ admitted' \in [Keys -> Seq(Nat)]
           /\ \A k \in Keys : /\ InOrder(admitted'[k], clock', late')
                              /\ Fits(admitted'[k], clock', late', Window[k], Limit[k])
<1> DEFINE key == call[c].key  now == call[c].now
<1>1. /\ key \in Keys /\ now \in Nat /\ now <= clock /\ clock' = clock
      /\ late' \in Nat /\ late <= late' /\ clock - now <= late'
  BY CallOf
<1>2. \A k \in Keys : /\ admitted[k] \in Seq(Nat) /\ clock \in Nat /\ late \in Nat
                      /\ Window[k] \in Nat /\ Limit[k] \in Nat
                      /\ InOrder(admitted[k], clock, late)
                      /\ Fits(admitted[k], clock, late, Window[k], Limit[k])
  BY DEF LimitInv, TableInv, LimiterAssumption
<1>3. admitted \in [Keys -> Seq(Nat)]
  BY DEF LimitInv
<1> HIDE DEF key, now
<1>4. admitted' = [admitted EXCEPT ![key] = Append(@, now)]
  BY DEF key, now
<1>5. Append(admitted[key], now) \in Seq(Nat)
  BY <1>1, <1>2
<1>6. admitted' \in [Keys -> Seq(Nat)] /\ admitted'[key] = Append(admitted[key], now)
      /\ \A k \in Keys \ {key} : admitted'[k] = admitted[k]
  BY <1>1, <1>3, <1>4, <1>5
<1>7. InOrder(Append(admitted[key], now), clock, late')
  BY <1>1, <1>2, OrderGrows
<1>8. Fits(Append(admitted[key], now), clock, late', Window[key], Limit[key])
  <2>1. \A i \in DOMAIN admitted[key] : clock - admitted[key][i] < Window[key] - late' => i \in before
    BY DEF key
  <2>2. Cardinality(before) < Limit[key]
    BY DEF key
  <2> QED
    BY <1>1, <1>2, <2>1, <2>2, FitGrows
<1>9. ASSUME NEW k \in Keys \ {key}
      PROVE  InOrder(admitted[k], clock, late') /\ Fits(admitted[k], clock, late', Window[k], Limit[k])
  <2>1. /\ admitted[k] \in Seq(Nat) /\ clock \in Nat /\ late \in Nat /\ clock <= clock
        /\ Window[k] \in Nat /\ Limit[k] \in Nat /\ late' \in Nat /\ late <= late'
        /\ InOrder(admitted[k], clock, late) /\ Fits(admitted[k], clock, late, Window[k], Limit[k])
    BY <1>1, <1>2
  <2>2. InOrder(admitted[k], clock, late')
    BY <2>1, OrderStays
  <2>3. Fits(admitted[k], clock, late', Window[k], Limit[k])
    BY <2>1, FitStays
  <2> QED
    BY <2>2, <2>3
<1> QED
  BY <1>1, <1>6, <1>7, <1>8, <1>9

\* What an allowed or a refused call leaves in the table is what counts.
LEMMA CountedAfterCall ==
    ASSUME LimiterAssumption, LimitInv, NEW c \in Callers, Waiting(c), Leave(c),
           \/ admitted' = admitted
           \/ admitted' = [admitted EXCEPT ![call[c].key] = Append(@, call[c].now)]
              /\ Len(admitted[call[c].key]) + 1 \in hits'[call[c].key]
              /\ call[c].key \in DOMAIN hits',
           NEW kept, kept \subseteq DOMAIN hits', NEW live,
           Kept(call[c].now, Longest(call[c].key)) \cap Tracked(call[c].key, call[c].now) \subseteq kept,
           \A j \in kept : hits'[j] = IF j = call[c].key THEN live ELSE hits[j],
           call[c].key \in kept => Live(call[c].key, call[c].now) \subseteq live
    PROVE  WhatCountsIsHeld'
<1> DEFINE key == call[c].key  now == call[c].now
<1>1. /\ key \in Keys /\ now \in Nat /\ now <= clock /\ clock' = clock
      /\ late' \in Nat /\ late <= late' /\ clock \in Nat
  BY CallOf DEF LimitInv, TableInv
<1>2. admitted \in [Keys -> Seq(Nat)] /\ \A j \in Keys : Window[j] \in Nat
  BY DEF LimitInv, LimiterAssumption
<1> HIDE DEF key, now
<1>3. SUFFICES ASSUME NEW j \in Keys, NEW i \in DOMAIN admitted'[j],
                      clock' - admitted'[j][i] < Window[j] - late'
               PROVE  j \in DOMAIN hits' /\ i \in hits'[j]
  BY DEF WhatCountsIsHeld
<1>4. ASSUME i \in DOMAIN admitted[j], admitted'[j][i] = admitted[j][i]
      PROVE  j \in DOMAIN hits' /\ i \in hits'[j]
  <2>1. clock - admitted[j][i] < Window[j] - late'
    BY <1>1, <1>3, <1>4
  <2>2. i \in hits[j] /\ j \in Kept(now, Longest(key)) /\ j \in Tracked(key, now)
    BY <1>4, <2>1, CountedKeysStay DEF key, now
  <2>3. j \in kept /\ j \in DOMAIN hits'
    BY <2>2 DEF key, now
  <2>4. CASE j # key
    BY <2>2, <2>3, <2>4 DEF key
  <2>5. CASE j = key
    <3>1. admitted[j][i] \in Nat
      BY <1>2, <1>4
    <3>2. now - admitted[j][i] < Window[j]
      BY <1>1, <1>2, <2>1, <3>1
    <3>3. i \in Live(key, now)
      BY <2>2, <2>5, <3>2 DEF Live
    <3>4. hits'[j] = live /\ Live(key, now) \subseteq live
      BY <2>3, <2>5 DEF key, now
    <3> QED
      BY <2>3, <3>3, <3>4
  <2> QED
    BY <2>4, <2>5
<1>5. CASE admitted' = admitted
  BY <1>4, <1>5
<1>6. CASE /\ admitted' = [admitted EXCEPT ![key] = Append(@, now)]
           /\ Len(admitted[key]) + 1 \in hits'[key] /\ key \in DOMAIN hits'
  <2>1. CASE j # key
    <3>1. admitted'[j] = admitted[j]
      BY <1>2, <1>6, <2>1
    <3> QED
      BY <1>4, <3>1
  <2>2. CASE j = key
    <3>1. admitted'[j] = Append(admitted[j], now) /\ admitted[j] \in Seq(Nat)
      BY <1>1, <1>2, <1>6, <2>2
    <3>2. i \in 1 .. Len(admitted[j]) + 1 /\ Len(admitted[j]) \in Nat
          /\ DOMAIN admitted[j] = 1 .. Len(admitted[j])
      BY <3>1
    <3>3. CASE i = Len(admitted[j]) + 1
      BY <1>6, <2>2, <3>3
    <3>4. CASE i \in 1 .. Len(admitted[j])
      <4>1. i \in DOMAIN admitted[j] /\ admitted'[j][i] = admitted[j][i]
        BY <1>1, <3>1, <3>2, <3>4
      <4> QED
        BY <1>4, <4>1
    <3>5. i = Len(admitted[j]) + 1 \/ i \in 1 .. Len(admitted[j])
      BY <3>2
    <3> QED
      BY <3>3, <3>4, <3>5
  <2> QED
    BY <2>1, <2>2
<1> QED
  BY <1>5, <1>6 DEF key, now

LEMMA LimitInvInit == LimiterAssumption /\ Init => LimitInv
<1> SUFFICES ASSUME LimiterAssumption, Init PROVE LimitInv
  OBVIOUS
<1>1. TableInv
  BY TableInvInit
<1>2. /\ admitted = [k \in Keys |-> <<>>] /\ late = 0 /\ DOMAIN hits = {} /\ clock = 0
      /\ \A c \in Callers : ~Waiting(c)
  BY DEF Init, Waiting, NoCall
<1>3. \A k \in Keys : admitted[k] = <<>> /\ admitted[k] \in Seq(Nat) /\ DOMAIN admitted[k] = {}
  BY <1>2
<1>4. ASSUME NEW k \in Keys PROVE Fits(admitted[k], clock, late, Window[k], Limit[k])
  <2> SUFFICES ASSUME NEW from \in 0 .. clock
               PROVE  Cardinality({i \in DOMAIN admitted[k] :
                                      admitted[k][i] \in from .. from + Window[k] - 1 - 2 * late}) <= Limit[k]
    BY DEF Fits
  <2> DEFINE A == {i \in DOMAIN admitted[k] : admitted[k][i] \in from .. from + Window[k] - 1 - 2 * late}
  <2>1. A = {}
    BY <1>3
  <2> HIDE DEF A
  <2>2. Cardinality(A) = 0
    BY <2>1, FS_EmptySet
  <2>3. Limit[k] \in Nat
    BY DEF LimiterAssumption
  <2>4. Cardinality(A) <= Limit[k]
    BY <2>2, <2>3
  <2> QED
    BY <2>4 DEF A
<1>5. admitted \in [Keys -> Seq(Nat)] /\ \A k \in Keys : InOrder(admitted[k], clock, late)
  BY <1>2, <1>3 DEF InOrder
<1>6. WhatCountsIsHeld
  BY <1>3 DEF WhatCountsIsHeld
<1> QED
  BY <1>1, <1>2, <1>4, <1>5, <1>6 DEF LimitInv

\* The parts of the invariant a call leaves behind, put together.
LEMMA LimitAfterCall ==
    ASSUME LimiterAssumption, LimitInv, NEW c \in Callers, Waiting(c), Leave(c),
           TableInv', WhatCountsIsHeld', admitted' \in [Keys -> Seq(Nat)],
           \A k \in Keys : /\ InOrder(admitted'[k], clock', late')
                           /\ Fits(admitted'[k], clock', late', Window[k], Limit[k]),
           \A k \in DOMAIN hits' : hits'[k] \subseteq DOMAIN admitted'[k]
    PROVE  LimitInv'
<1>1. late' \in Nat
  BY CallOf
<1>2. \A d \in Callers : Waiting(d)' => call'[d].now <= clock'
  BY DEF LimitInv, TableInv, Leave, Waiting, NoCall
<1> QED
  BY <1>1, <1>2 DEF LimitInv

\* A call that is refused keeps what counts of its key, and every key that counts.
LEMMA AfterRefusal ==
    ASSUME LimiterAssumption, LimitInv, NEW c \in Callers, Waiting(c), Leave(c), TableInv',
           admitted' = admitted, NEW kept, kept \subseteq DOMAIN hits, NEW live,
           Kept(call[c].now, Longest(call[c].key)) \cap Tracked(call[c].key, call[c].now) \subseteq kept,
           DOMAIN hits' \in {kept, kept \cup {call[c].key}},
           \A j \in DOMAIN hits' : hits'[j] = IF j = call[c].key THEN live ELSE hits[j],
           call[c].key \in kept => Live(call[c].key, call[c].now) \subseteq live,
           live \subseteq DOMAIN admitted[call[c].key]
    PROVE  LimitInv'
<1>1. /\ call[c].key \in Keys /\ clock \in Nat /\ clock' = clock
      /\ late' \in Nat /\ late <= late' /\ clock <= clock'
  BY CallOf DEF LimitInv, TableInv
<1>2. \A k \in Keys : /\ InOrder(admitted'[k], clock', late')
                      /\ Fits(admitted'[k], clock', late', Window[k], Limit[k])
  BY <1>1, NothingAdmitted
<1>3. WhatCountsIsHeld'
  BY CountedAfterCall
<1>4. \A k \in DOMAIN hits' : hits'[k] \subseteq DOMAIN admitted'[k]
  BY DEF LimitInv
<1> QED
  BY <1>2, <1>3, <1>4, LimitAfterCall DEF LimitInv

\* A call that is let through had fewer than Limit moments that count beside it.
LEMMA AfterAdmission ==
    ASSUME LimiterAssumption, LimitInv, NEW c \in Callers, Waiting(c), Leave(c), TableInv',
           NEW kept, kept \subseteq DOMAIN hits, NEW before,
           LetThrough(call[c].key, call[c].now, kept, before),
           Kept(call[c].now, Longest(call[c].key)) \cap Tracked(call[c].key, call[c].now) \subseteq kept,
           call[c].key \in kept => Live(call[c].key, call[c].now) \subseteq before,
           before \subseteq DOMAIN admitted[call[c].key],
           Cardinality(before) < Limit[call[c].key]
    PROVE  LimitInv'
<1> DEFINE key == call[c].key  now == call[c].now
<1>1. /\ key \in Keys /\ now \in Nat /\ now <= clock /\ clock \in Nat /\ clock' = clock
      /\ late' \in Nat /\ late <= late'
  BY CallOf DEF LimitInv, TableInv
<1>2. admitted \in [Keys -> Seq(Nat)] /\ Window[key] \in Nat
  BY <1>1 DEF LimitInv, LimiterAssumption
<1>3. /\ admitted' = [admitted EXCEPT ![key] = Append(@, now)]
      /\ DOMAIN hits' = kept \cup {key}
      /\ hits'[key] = before \cup {Len(admitted[key]) + 1}
      /\ \A j \in kept \ {key} : hits'[j] = hits[j]
  BY DEF LetThrough
<1>4. IsFiniteSet(before)
  BY <1>1, <1>2, ChosenPlaces
<1>5. ASSUME NEW i \in DOMAIN admitted[key], clock - admitted[key][i] < Window[key] - late'
      PROVE  i \in before
  <2>1. i \in hits[key] /\ key \in kept
    BY <1>1, <1>5, CountedKeysStay
  <2>2. admitted[key][i] \in Nat
    BY <1>1, <1>2
  <2>3. now - admitted[key][i] < Window[key]
    <3> HIDE DEF key, now
    <3>1. clock - admitted[key][i] < Window[key] - late'
      BY <1>5
    <3>2. clock - admitted[key][i] < Window[key]
      BY <1>1, <1>2, <2>2, <3>1
    <3> QED
      BY <1>1, <1>2, <2>2, <3>2
  <2>4. i \in Live(key, now)
    BY <2>1, <2>3 DEF Live
  <2> QED
    BY <2>1, <2>4
<1>6. /\ admitted' \in [Keys -> Seq(Nat)]
      /\ \A k \in Keys : /\ InOrder(admitted'[k], clock', late')
                         /\ Fits(admitted'[k], clock', late', Window[k], Limit[k])
  BY <1>3, <1>4, <1>5, OneAdmitted
<1>7. WhatCountsIsHeld'
  <2> DEFINE live == before \cup {Len(admitted[key]) + 1}
  <2>1. \A j \in kept : hits'[j] = IF j = key THEN live ELSE hits[j]
    BY <1>3
  <2>2. key \in kept => Live(key, now) \subseteq live
    OBVIOUS
  <2>3. kept \subseteq DOMAIN hits' /\ key \in DOMAIN hits' /\ Len(admitted[key]) + 1 \in hits'[key]
    BY <1>3
  <2> HIDE DEF live
  <2> QED
    BY <1>3, <2>1, <2>2, <2>3, CountedAfterCall, ZenonT(60)
<1>8. ASSUME NEW k \in DOMAIN hits' PROVE hits'[k] \subseteq DOMAIN admitted'[k]
  <2>1. CASE k = key
    <3>1. admitted'[key] = Append(admitted[key], now) /\ admitted[key] \in Seq(Nat)
      BY <1>1, <1>2, <1>3
    <3>2. /\ DOMAIN admitted'[key] = 1 .. Len(admitted[key]) + 1
          /\ DOMAIN admitted[key] = 1 .. Len(admitted[key]) /\ Len(admitted[key]) \in Nat
      BY <1>1, <3>1
    <3>3. DOMAIN admitted[key] \subseteq DOMAIN admitted'[key] /\ Len(admitted[key]) + 1 \in DOMAIN admitted'[key]
      BY <3>2
    <3> QED
      BY <1>3, <2>1, <3>3
  <2>2. CASE k # key
    <3>1. k \in kept /\ hits'[k] = hits[k] /\ k \in DOMAIN hits
      BY <1>3, <2>2
    <3>2. k \in Keys /\ admitted'[k] = admitted[k]
      BY <1>2, <1>3, <2>2, <3>1 DEF LimitInv, TableInv
    <3> QED
      BY <3>1, <3>2 DEF LimitInv
  <2> QED
    BY <2>1, <2>2
<1> QED
  BY <1>6, <1>7, <1>8, LimitAfterCall

LEMMA LimitInvNext == LimiterAssumption /\ LimitInv /\ [Next]_vars => LimitInv'
<1> SUFFICES ASSUME LimiterAssumption, LimitInv, [Next]_vars PROVE LimitInv'
  OBVIOUS
<1>1. TableInv'
  BY TableInvNext DEF LimitInv
<1>2. ASSUME UNCHANGED <<hits, admitted, late>>, clock' \in Nat, clock <= clock',
             \A c \in Callers : Waiting(c)' => call'[c].now <= clock'
      PROVE  LimitInv'
  <2>1. clock \in Nat /\ late \in Nat /\ late' = late
    BY <1>2 DEF LimitInv, TableInv
  <2>2. \A k \in Keys : /\ InOrder(admitted'[k], clock', late')
                        /\ Fits(admitted'[k], clock', late', Window[k], Limit[k])
    BY <1>2, <2>1, NothingAdmitted
  <2>3. WhatCountsIsHeld'
    <3> SUFFICES ASSUME NEW k \in Keys, NEW i \in DOMAIN admitted[k],
                        clock' - admitted[k][i] < Window[k] - late
                 PROVE  k \in DOMAIN hits /\ i \in hits[k]
      BY <1>2 DEF WhatCountsIsHeld
    <3>1. admitted[k][i] \in Nat /\ Window[k] \in Nat
      BY DEF LimitInv, LimiterAssumption
    <3>2. clock - admitted[k][i] < Window[k] - late
      BY <1>2, <2>1, <3>1
    <3> QED
      BY <3>2 DEF LimitInv, WhatCountsIsHeld
  <2> QED
    BY <1>1, <1>2, <2>2, <2>3 DEF LimitInv
<1>3. CASE Tick
  <2>1. clock \in Nat /\ clock' = clock + 1 /\ UNCHANGED <<hits, admitted, late, call>>
    BY <1>3 DEF Tick, LimitInv, TableInv
  <2>2. ASSUME NEW c \in Callers, Waiting(c)' PROVE call'[c].now <= clock'
    <3>1. Waiting(c) /\ call'[c] = call[c]
      BY <2>1, <2>2 DEF Waiting
    <3>2. call[c].now \in Nat /\ call[c].now <= clock
      BY <3>1, CallOfWaiting DEF LimitInv
    <3> QED
      BY <2>1, <3>1, <3>2
  <2> QED
    BY <1>2, <2>1, <2>2
<1>4. ASSUME NEW c \in Callers, NEW k \in Keys, Enter(c, k) PROVE LimitInv'
  <2>1. clock \in Nat /\ clock' = clock /\ UNCHANGED <<hits, admitted, late>>
        /\ call' = [call EXCEPT ![c] = [at |-> "lock", key |-> k, now |-> clock]]
    BY <1>4 DEF Enter, LimitInv, TableInv
  <2>2. ASSUME NEW d \in Callers, Waiting(d)' PROVE call'[d].now <= clock'
    <3>1. CASE d = c
      BY <2>1, <3>1 DEF LimitInv, TableInv
    <3>2. CASE d # c
      BY <2>1, <2>2, <3>2 DEF LimitInv, TableInv, Waiting
    <3> QED
      BY <3>1, <3>2
  <2> QED
    BY <1>2, <2>1, <2>2
<1>5. ASSUME NEW c \in Callers, AllowTracked(c) PROVE LimitInv'
  <2> DEFINE k == call[c].key
             now == call[c].now
             keys == Tracked(k, now)
             live == Live(k, now)
  <2>1. Waiting(c) /\ Leave(c) /\ k \in keys
    BY <1>5 DEF AllowTracked
  <2>2. keys \subseteq DOMAIN hits
    BY TrackedShrinks
  <2>3. k \in Keys /\ live \subseteq DOMAIN admitted[k]
    BY <2>1, <2>2, CallOf DEF Live, LimitInv
  <2>4. Cardinality(live) \in Nat /\ Limit[k] \in Nat
    BY <2>3, ChosenPlaces DEF LimitInv, LimiterAssumption
  <2>5. CASE /\ hits' = [j \in keys |-> IF j = k THEN live ELSE hits[j]]
             /\ UNCHANGED admitted
    BY <1>1, <2>1, <2>2, <2>3, <2>5, AfterRefusal
  <2>6. CASE LetThrough(k, now, keys, live) /\ ~(Cardinality(live) >= Limit[k])
    <3>1. Cardinality(live) < Limit[k]
      BY <2>4, <2>6
    <3> QED
      BY <1>1, <2>1, <2>2, <2>3, <2>6, <3>1, AfterAdmission
  <2> QED
    BY <1>5, <2>5, <2>6 DEF AllowTracked
<1>6. ASSUME NEW c \in Callers, AllowNew(c) PROVE LimitInv'
  <2> DEFINE k == call[c].key
             now == call[c].now
             keys == Tracked(k, now)
             left == IF Cardinality(keys) >= Capacity
                     THEN keys \cap Kept(now, Longest(k)) ELSE keys
  <2>1. Waiting(c) /\ Leave(c) /\ k \notin keys
    BY <1>6 DEF AllowNew
  <2>2. left \subseteq DOMAIN hits /\ k \notin left /\ Kept(now, Longest(k)) \cap keys \subseteq left
    BY <2>1, TrackedShrinks
  <2>3. k \in Keys /\ Limit[k] \in Nat /\ Cardinality({}) = 0
    BY <2>1, CallOf, FS_EmptySet DEF LimiterAssumption
  <2>4. \/ hits' = [j \in left |-> hits[j]] /\ UNCHANGED admitted
        \/ hits' = [j \in left \cup {k} |-> IF j = k THEN {} ELSE hits[j]] /\ UNCHANGED admitted
        \/ Limit[k] # 0 /\ LetThrough(k, now, left, {})
    BY <1>6 DEF AllowNew
  <2> HIDE DEF left
  <2>5. CASE hits' = [j \in left |-> hits[j]] /\ UNCHANGED admitted
    <3>1. \A j \in DOMAIN hits' : hits'[j] = IF j = k THEN {} ELSE hits[j]
      BY <2>2, <2>5
    <3> QED
      BY <1>1, <2>1, <2>2, <2>5, <3>1, AfterRefusal
  <2>6. CASE /\ hits' = [j \in left \cup {k} |-> IF j = k THEN {} ELSE hits[j]]
             /\ UNCHANGED admitted
    BY <1>1, <2>1, <2>2, <2>6, AfterRefusal
  <2>7. CASE Limit[k] # 0 /\ LetThrough(k, now, left, {})
    <3>1. Cardinality({}) < Limit[k]
      BY <2>3, <2>7
    <3> QED
      BY <1>1, <2>1, <2>2, <2>7, <3>1, AfterAdmission
  <2> QED
    BY <2>4, <2>5, <2>6, <2>7
<1>7. CASE UNCHANGED vars
  BY <1>1, <1>2, <1>7 DEF vars, LimitInv, TableInv, Waiting
<1> QED
  BY <1>3, <1>4, <1>5, <1>6, <1>7 DEF Next

\* No key is let through more than Limit times within its window, less twice the
\* longest a call waited for the lock: however keys are swept, refused and let in
\* again in between (RateLimiter.allow).
THEOREM LimitKept == Spec => []LimitHolds
<1>1. Init => LimitInv
  BY LimitInvInit, LimiterAssumption
<1>2. LimitInv /\ [Next]_vars => LimitInv'
  BY LimitInvNext, LimiterAssumption
<1>3. LimitInv => LimitHolds
  BY DEF LimitInv, LimitHolds, Fits, Within
<1> QED
  BY <1>1, <1>2, <1>3, PTL DEF Spec

-----------------------------------------------------------------------------
(* The moderation queue (SubmissionQueue).                                 *)

\* Every approved line is a Role on the board.
OnBoard(seq) == \A i \in DOMAIN seq : seq[i].status = "approved" => seq[i].id \in board

ApprovedAreOnTheBoard ==
    /\ \A i \in Inodes : OnBoard(lines[i])
    /\ \A a \in Admins : OnBoard(rows[a])

\* An admin who is deciding has the row at hand.
ChoicesAreRows ==
    \A a \in Admins : pc[a] = "decide" =>
        /\ choice[a] \in [at: Nat, id: Submissions, verdict: Verdicts]
        /\ choice[a].at \in DOMAIN rows[a]
        /\ rows[a][choice[a].at].id = choice[a].id

\* A temporary file that is whole, while somebody saves, is the work of one who has
\* still to rename it and holds the rows that are in it.
WholeFilesHaveWriters ==
    (/\ tmp # None /\ whole[tmp]
     /\ \E a \in Admins : pc[a] \in {"write", "replace"}) =>
        \E b \in Admins : pc[b] = "replace" /\ IdsOf(rows[b]) \subseteq IdsOf(lines[tmp])

QueueInv ==
    SubmissionsTypeOK /\ ApprovedAreOnTheBoard /\ ChoicesAreRows /\ WholeFilesHaveWriters

----------------------------------------------------------------------------
(* Rows in sequences.                                                      *)

LEMMA IdsOfLines ==
    ASSUME NEW seq, NEW id
    PROVE  id \in IdsOf(seq) <=> \E i \in DOMAIN seq : seq[i].id = id
BY DEF IdsOf, ToSet

\* What is written is the rows, and what was there beyond them.
LEMMA WrittenRows ==
    ASSUME NEW new \in Seq(Line), NEW old \in Seq(Line)
    PROVE  /\ Written(new, old) \in Seq(Line)
           /\ IdsOf(new) \subseteq IdsOf(Written(new, old))
           /\ OnBoard(new) /\ OnBoard(old) => OnBoard(Written(new, old))
<1> DEFINE rest == SubSeq(old, Len(new) + 1, Len(old))
<1>1. Len(new) \in Nat /\ Len(old) \in Nat /\ rest \in Seq(Line)
  OBVIOUS
<1>2. Written(new, old) = new \o rest
  BY DEF Written
<1>3. Written(new, old) \in Seq(Line)
  BY <1>1, <1>2
<1>4. \A i \in DOMAIN new : i \in DOMAIN (new \o rest) /\ (new \o rest)[i] = new[i]
  BY <1>1
<1>5. IdsOf(new) \subseteq IdsOf(Written(new, old))
  <2>1. ASSUME NEW id \in IdsOf(new) PROVE id \in IdsOf(new \o rest)
    <3>1. PICK i \in DOMAIN new : new[i].id = id
      BY IdsOfLines
    <3>2. i \in DOMAIN (new \o rest) /\ (new \o rest)[i].id = id
      BY <1>4, <3>1
    <3> QED
      BY <3>2, IdsOfLines
  <2> QED
    BY <1>2, <2>1
<1>6. ASSUME OnBoard(new), OnBoard(old) PROVE OnBoard(Written(new, old))
  <2>1. ASSUME NEW i \in DOMAIN rest PROVE \E j \in DOMAIN old : rest[i] = old[j]
    <3>1. i \in Nat /\ i >= 1 /\ Len(new) + i <= Len(old) /\ rest[i] = old[Len(new) + i]
      BY <1>1
    <3>2. Len(new) + i \in DOMAIN old
      BY <1>1, <3>1
    <3> QED
      BY <3>1, <3>2
  <2>2. ASSUME NEW i \in DOMAIN (new \o rest)
        PROVE  \/ i \in DOMAIN new /\ (new \o rest)[i] = new[i]
               \/ \E j \in DOMAIN rest : (new \o rest)[i] = rest[j]
    <3>1. i \in 1 .. Len(new) + Len(rest) /\ Len(rest) \in Nat
      BY <1>1
    <3>2. CASE i <= Len(new)
      BY <1>1, <3>1, <3>2
    <3>3. CASE i > Len(new)
      <4>1. (new \o rest)[i] = rest[i - Len(new)] /\ i - Len(new) \in DOMAIN rest
        BY <1>1, <3>1, <3>3
      <4> QED
        BY <4>1
    <3> QED
      BY <1>1, <3>1, <3>2, <3>3
  <2> QED
    <3>1. ASSUME NEW i \in DOMAIN (new \o rest), (new \o rest)[i].status = "approved"
          PROVE  (new \o rest)[i].id \in board
      <4>1. CASE i \in DOMAIN new /\ (new \o rest)[i] = new[i]
        BY <1>6, <3>1, <4>1 DEF OnBoard
      <4>2. ASSUME NEW j \in DOMAIN rest, (new \o rest)[i] = rest[j]
            PROVE  (new \o rest)[i].id \in board
        <5>1. PICK k \in DOMAIN old : rest[j] = old[k]
          BY <2>1
        <5> QED
          BY <1>6, <3>1, <4>2, <5>1 DEF OnBoard
      <4> QED
        BY <2>2, <4>1, <4>2
    <3> QED
      BY <1>2, <3>1 DEF OnBoard
<1> QED
  BY <1>3, <1>5, <1>6

\* Marking a row touches its status only.
LEMMA MarkedRows ==
    ASSUME NEW seq \in Seq(Line), NEW at \in DOMAIN seq, NEW verdict \in Verdicts
    PROVE  LET marked == [seq EXCEPT ![at].status = verdict]
           IN  /\ marked \in Seq(Line) /\ DOMAIN marked = DOMAIN seq
               /\ \A i \in DOMAIN seq : marked[i].id = seq[i].id
               /\ \A i \in DOMAIN seq :
                    marked[i].status = IF i = at THEN verdict ELSE seq[i].status
<1> DEFINE marked == [seq EXCEPT ![at].status = verdict]
<1>1. seq[at] \in Line /\ [seq[at] EXCEPT !.status = verdict] \in Line
  <2>1. seq[at] \in Line
    OBVIOUS
  <2> QED
    BY <2>1 DEF Line, Verdicts, Statuses
<1>2. marked = [seq EXCEPT ![at] = [seq[at] EXCEPT !.status = verdict]]
  OBVIOUS
<1>3. marked \in Seq(Line) /\ DOMAIN marked = DOMAIN seq
  BY <1>1, <1>2
<1>4. \A i \in DOMAIN seq : marked[i] = IF i = at THEN [seq[at] EXCEPT !.status = verdict] ELSE seq[i]
  BY <1>2
<1>5. [seq[at] EXCEPT !.status = verdict].id = seq[at].id
      /\ [seq[at] EXCEPT !.status = verdict].status = verdict
  BY <1>1 DEF Line
<1> QED
  BY <1>3, <1>4, <1>5

----------------------------------------------------------------------------
(* Types.                                                                  *)

LEMMA TypesInit ==
    ASSUME InodesAssumption, SubmissionsInit
    PROVE  SubmissionsTypeOK
BY DEF InodesAssumption, SubmissionsInit, SubmissionsTypeOK

\* An admin at rest again.
LEMMA IdleTypes ==
    ASSUME SubmissionsTypeOK, NEW a \in Admins, Idle(a)
    PROVE  /\ pc' \in [Admins -> {"idle", "decide", "save", "write", "replace"}]
           /\ rows' \in [Admins -> Seq(Line)]
           /\ choice' \in [Admins -> [at: Nat, id: Submissions, verdict: Verdicts] \cup {None}]
           /\ tmpOf' \in [Admins -> Inodes \cup {None}]
<1>1. <<>> \in Seq(Line)
  OBVIOUS
<1> QED
  BY <1>1 DEF Idle, SubmissionsTypeOK

\* The row an admin decides, marked.
LEMMA DecidedRows ==
    ASSUME QueueInv, NEW a \in Admins, Decide(a)
    PROVE  \E at \in DOMAIN rows[a], verdict \in Verdicts :
             /\ rows' = [rows EXCEPT ![a] = [rows[a] EXCEPT ![at].status = verdict]]
             /\ [rows[a] EXCEPT ![at].status = verdict] \in Seq(Line)
             /\ rows[a][at].id \in Submissions
             /\ board' = IF verdict = "approved" THEN board \cup {rows[a][at].id} ELSE board
<1>1. choice[a] \in [at: Nat, id: Submissions, verdict: Verdicts] /\ rows[a] \in Seq(Line)
  BY DEF QueueInv, SubmissionsTypeOK, ChoicesAreRows, Decide
<1>2. PICK at \in DOMAIN rows[a] : at = choice[a].at /\ rows[a][at].id = choice[a].id
  BY DEF QueueInv, ChoicesAreRows, Decide
<1>3. PICK verdict \in Verdicts : verdict = choice[a].verdict
  BY <1>1
<1>4. [rows[a] EXCEPT ![at].status = verdict] \in Seq(Line)
  BY <1>1, MarkedRows
<1>5. rows' = [rows EXCEPT ![a] = [rows[a] EXCEPT ![at].status = verdict]]
  BY <1>2, <1>3 DEF Decide
<1> QED
  BY <1>1, <1>2, <1>3, <1>4, <1>5 DEF Decide

LEMMA TypesNext ==
    ASSUME InodesAssumption, QueueInv, [SubmissionsNext]_submissionVars
    PROVE  SubmissionsTypeOK'
<1> USE DEF diskVars, adminVars
<1>1. SubmissionsTypeOK /\ None \notin Inodes
  BY DEF QueueInv, InodesAssumption
<1>2. CASE UNCHANGED submissionVars
  BY <1>1, <1>2 DEF submissionVars, SubmissionsTypeOK
<1>3. ASSUME NEW s \in Submissions, OpenAppend(s) \/ AppendFails(s) PROVE SubmissionsTypeOK'
  BY <1>1, <1>3, ZenonT(60) DEF OpenAppend, AppendFails, SubmissionsTypeOK
<1>4. ASSUME NEW s \in Submissions, Append1(s) PROVE SubmissionsTypeOK'
  <2>1. [id |-> s, status |-> "pending"] \in Line
    BY DEF Line, Statuses
  <2>2. lines' \in [Inodes -> Seq(Line)]
    BY <1>1, <1>4, <2>1 DEF Append1, SubmissionsTypeOK
  <2> QED
    BY <1>1, <1>4, <2>2 DEF Append1, SubmissionsTypeOK
<1>5. ASSUME NEW a \in Admins, NEW s \in Submissions, NEW v \in Verdicts, Load(a, s, v)
      PROVE  SubmissionsTypeOK'
  <2>1. PICK i \in DOMAIN lines[queue] :
          choice' = [choice EXCEPT ![a] = [at |-> i, id |-> s, verdict |-> v]]
    BY <1>5 DEF Load
  <2>2. lines[queue] \in Seq(Line) /\ i \in Nat
    BY <1>1 DEF SubmissionsTypeOK
  <2>3. choice' \in [Admins -> [at: Nat, id: Submissions, verdict: Verdicts] \cup {None}]
    BY <1>1, <2>1, <2>2 DEF SubmissionsTypeOK
  <2> QED
    BY <1>1, <1>5, <2>2, <2>3 DEF Load, SubmissionsTypeOK
<1>6. ASSUME NEW a \in Admins, Decide(a) PROVE SubmissionsTypeOK'
  <2>1. rows' \in [Admins -> Seq(Line)] /\ board' \subseteq Submissions
    <3>1. PICK at \in DOMAIN rows[a], verdict \in Verdicts :
            /\ rows' = [rows EXCEPT ![a] = [rows[a] EXCEPT ![at].status = verdict]]
            /\ [rows[a] EXCEPT ![at].status = verdict] \in Seq(Line)
            /\ rows[a][at].id \in Submissions
            /\ board' = IF verdict = "approved" THEN board \cup {rows[a][at].id} ELSE board
      BY <1>6, DecidedRows
    <3> QED
      BY <1>1, <3>1 DEF SubmissionsTypeOK
  <2> QED
    BY <1>1, <1>6, <2>1 DEF Decide, SubmissionsTypeOK
<1>7. ASSUME NEW a \in Admins, OpenTmp(a) PROVE SubmissionsTypeOK'
  <2>1. PICK i \in Inodes :
          /\ i # queue /\ tmp' = i /\ lines' = [lines EXCEPT ![i] = <<>>]
          /\ whole' = [whole EXCEPT ![i] = FALSE] /\ tmpOf' = [tmpOf EXCEPT ![a] = i]
    BY <1>1, <1>7 DEF OpenTmp, SubmissionsTypeOK
  <2>2. lines' \in [Inodes -> Seq(Line)]
    BY <1>1, <2>1 DEF SubmissionsTypeOK
  <2> QED
    BY <1>1, <1>7, <2>1, <2>2 DEF OpenTmp, SubmissionsTypeOK
<1>8. ASSUME NEW a \in Admins, WriteTmp(a) PROVE SubmissionsTypeOK'
  <2>1. CASE tmpOf[a] \in {queue, tmp}
    <3>1. rows[a] \in Seq(Line) /\ \A i \in Inodes : lines[i] \in Seq(Line)
      BY <1>1 DEF SubmissionsTypeOK
    <3>2. \A i \in Inodes : Written(rows[a], lines[i]) \in Seq(Line)
      BY <3>1, WrittenRows
    <3>3. lines' \in [Inodes -> Seq(Line)] /\ whole' \in [Inodes -> BOOLEAN]
      <4>1. lines' = [lines EXCEPT ![tmpOf[a]] = Written(rows[a], lines[tmpOf[a]])]
            /\ whole' = [whole EXCEPT ![tmpOf[a]] = TRUE]
        BY <1>8, <2>1 DEF WriteTmp
      <4>2. CASE tmpOf[a] \in Inodes
        <5>1. Written(rows[a], lines[tmpOf[a]]) \in Seq(Line)
          BY <3>2, <4>2
        <5> QED
          BY <1>1, <4>1, <5>1 DEF SubmissionsTypeOK
      <4>3. CASE tmpOf[a] \notin Inodes
        BY <1>1, <4>1, <4>3 DEF SubmissionsTypeOK
      <4> QED
        BY <4>2, <4>3
    <3> QED
      BY <1>1, <1>8, <3>3 DEF WriteTmp, SubmissionsTypeOK
  <2>2. CASE tmpOf[a] \notin {queue, tmp}
    BY <1>1, <1>8, <2>2 DEF WriteTmp, SubmissionsTypeOK
  <2> QED
    BY <2>1, <2>2
<1>9. ASSUME NEW a \in Admins, Replace(a) PROVE SubmissionsTypeOK'
  <2>1. /\ lines' \in [Inodes -> Seq(Line)] /\ whole' \in [Inodes -> BOOLEAN]
        /\ queue' \in Inodes /\ tmp' \in Inodes \cup {None} /\ tmp' # queue'
    <3>1. CASE tmp = None
      BY <1>1, <1>9, <3>1 DEF Replace, SubmissionsTypeOK
    <3>2. CASE tmp # None
      <4>1. <<>> \in Seq(Line)
        OBVIOUS
      <4>2. queue' = tmp /\ tmp' = None /\ lines' = [lines EXCEPT ![queue] = <<>>]
            /\ whole' = [whole EXCEPT ![queue] = TRUE]
        BY <1>9, <3>2 DEF Replace
      <4> QED
        BY <1>1, <3>2, <4>1, <4>2 DEF SubmissionsTypeOK
    <3> QED
      BY <3>1, <3>2
  <2> QED
    BY <1>1, <1>9, <2>1, IdleTypes DEF Replace, SubmissionsTypeOK
<1>10. ASSUME NEW a \in Admins, Fail(a) PROVE SubmissionsTypeOK'
  BY <1>1, <1>10, IdleTypes DEF Fail, SubmissionsTypeOK
<1>11. CASE Crash
  <2>1. request' \in [Submissions -> {"unsent", "appending", "answered", "failed"}]
    BY <1>1, <1>11 DEF Crash, SubmissionsTypeOK
  <2> QED
    BY <1>1, <1>11, <2>1 DEF Crash, SubmissionsTypeOK
<1> QED
  BY <1>2, <1>3, <1>4, <1>5, <1>6, <1>7, <1>8, <1>9, <1>10, <1>11 DEF SubmissionsNext

----------------------------------------------------------------------------
(* The parts of the invariant.                                             *)

LEMMA BoardNext ==
    ASSUME InodesAssumption, QueueInv, [SubmissionsNext]_submissionVars
    PROVE  ApprovedAreOnTheBoard'
<1> USE DEF diskVars, adminVars
<1>1. SubmissionsTypeOK /\ ApprovedAreOnTheBoard /\ None \notin Inodes
  BY DEF QueueInv, InodesAssumption
\* What was on the board stays there, so a sequence that was good is good.
<1>2. board \subseteq board'
  BY <1>1 DEF submissionVars, SubmissionsNext, OpenAppend, Append1, AppendFails, Load, Decide,
     OpenTmp, WriteTmp, Replace, Fail, Crash
<1>3. ASSUME NEW seq, OnBoard(seq) PROVE \A i \in DOMAIN seq : seq[i].status = "approved" => seq[i].id \in board'
  BY <1>2, <1>3 DEF OnBoard
<1>4. \A seq : DOMAIN seq = {} => \A i \in DOMAIN seq : seq[i].status = "approved" => seq[i].id \in board'
  OBVIOUS
<1>5. ASSUME NEW i \in Inodes PROVE OnBoard(lines[i])'
  <2>1. CASE lines'[i] = lines[i]
    BY <1>1, <1>3, <2>1 DEF ApprovedAreOnTheBoard, OnBoard
  <2>2. CASE lines'[i] = <<>>
    BY <2>2 DEF OnBoard
  <2>3. ASSUME NEW s \in Submissions, Append1(s) PROVE OnBoard(lines[i])'
    <3>1. CASE appendTo[s] = queue /\ i = queue
      <4>1. lines'[i] = Append(lines[i], [id |-> s, status |-> "pending"]) /\ lines[i] \in Seq(Line)
        BY <1>1, <2>3, <3>1 DEF Append1, SubmissionsTypeOK
      <4>2. \A j \in DOMAIN lines'[i] :
              lines'[i][j] = IF j \in DOMAIN lines[i] THEN lines[i][j] ELSE [id |-> s, status |-> "pending"]
        BY <4>1
      <4>3. OnBoard(lines[i])
        BY <1>1 DEF ApprovedAreOnTheBoard
      <4> QED
        BY <1>2, <4>2, <4>3 DEF OnBoard
    <3>2. CASE ~(appendTo[s] = queue /\ i = queue)
      BY <1>1, <2>1, <2>3, <3>2 DEF Append1, SubmissionsTypeOK
    <3> QED
      BY <3>1, <3>2
  <2>4. ASSUME NEW a \in Admins, WriteTmp(a) PROVE OnBoard(lines[i])'
    <3>1. CASE tmpOf[a] \in {queue, tmp} /\ i = tmpOf[a]
      <4>1. lines'[i] = Written(rows[a], lines[i])
        BY <1>1, <2>4, <3>1 DEF WriteTmp, SubmissionsTypeOK
      <4>2. OnBoard(rows[a]) /\ OnBoard(lines[i]) /\ rows[a] \in Seq(Line) /\ lines[i] \in Seq(Line)
        BY <1>1 DEF ApprovedAreOnTheBoard, SubmissionsTypeOK
      <4>3. OnBoard(Written(rows[a], lines[i]))
        BY <4>2, WrittenRows
      <4> QED
        BY <1>3, <4>1, <4>3 DEF OnBoard
    <3>2. CASE ~(tmpOf[a] \in {queue, tmp} /\ i = tmpOf[a])
      BY <1>1, <2>1, <2>4, <3>2 DEF WriteTmp, SubmissionsTypeOK
    <3> QED
      BY <3>1, <3>2
  <2>5. ASSUME NEW a \in Admins, OpenTmp(a) PROVE lines'[i] = lines[i] \/ lines'[i] = <<>>
    BY <1>1, <2>5 DEF OpenTmp, SubmissionsTypeOK
  <2>6. ASSUME NEW a \in Admins, Replace(a) PROVE lines'[i] = lines[i] \/ lines'[i] = <<>>
    BY <1>1, <2>6 DEF Replace, SubmissionsTypeOK
  <2>7. \/ lines' = lines
        \/ \E s \in Submissions : Append1(s)
        \/ \E a \in Admins : WriteTmp(a) \/ OpenTmp(a) \/ Replace(a)
    BY DEF submissionVars, SubmissionsNext, OpenAppend, AppendFails, Load, Decide, Fail, Crash
  <2> QED
    BY <2>1, <2>2, <2>3, <2>4, <2>5, <2>6, <2>7
<1>6. ASSUME NEW a \in Admins PROVE OnBoard(rows[a])'
  <2>1. CASE rows'[a] = rows[a]
    BY <1>1, <1>3, <2>1 DEF ApprovedAreOnTheBoard, OnBoard
  <2>2. CASE rows'[a] = <<>>
    BY <2>2 DEF OnBoard
  <2>3. ASSUME NEW b \in Admins, NEW s \in Submissions, NEW v \in Verdicts, Load(b, s, v)
        PROVE  rows'[a] = rows[a] \/ OnBoard(rows[a])'
    <3>1. rows'[a] = rows[a] \/ rows'[a] = lines[queue]
      BY <1>1, <2>3 DEF Load, SubmissionsTypeOK
    <3>2. OnBoard(lines[queue])
      BY <1>1 DEF ApprovedAreOnTheBoard, SubmissionsTypeOK
    <3> QED
      BY <1>3, <3>1, <3>2 DEF OnBoard
  <2>4. ASSUME NEW b \in Admins, Decide(b) PROVE rows'[a] = rows[a] \/ OnBoard(rows[a])'
    <3>1. PICK at \in DOMAIN rows[b], verdict \in Verdicts :
            /\ rows' = [rows EXCEPT ![b] = [rows[b] EXCEPT ![at].status = verdict]]
            /\ board' = IF verdict = "approved" THEN board \cup {rows[b][at].id} ELSE board
      BY <2>4, DecidedRows
    <3>2. CASE a # b
      BY <1>1, <3>1, <3>2 DEF SubmissionsTypeOK
    <3>3. CASE a = b
      <4>1. OnBoard(rows[b]) /\ rows[b] \in Seq(Line)
            /\ rows'[a] = [rows[b] EXCEPT ![at].status = verdict]
        BY <1>1, <3>1, <3>3 DEF ApprovedAreOnTheBoard, SubmissionsTypeOK
      <4>2. /\ DOMAIN rows'[a] = DOMAIN rows[b]
            /\ \A i \in DOMAIN rows[b] :
                 /\ rows'[a][i].id = rows[b][i].id
                 /\ rows'[a][i].status = IF i = at THEN verdict ELSE rows[b][i].status
        BY <4>1, MarkedRows
      <4> QED
        BY <1>2, <3>1, <4>1, <4>2 DEF OnBoard
    <3> QED
      BY <3>2, <3>3
  <2>5. ASSUME NEW b \in Admins, Replace(b) \/ Fail(b) PROVE rows'[a] = rows[a] \/ rows'[a] = <<>>
    BY <1>1, <2>5 DEF Replace, Fail, Idle, SubmissionsTypeOK
  <2>6. CASE Crash
    BY <2>2, <2>6 DEF Crash
  <2>7. \/ rows' = rows
        \/ \E b \in Admins, s \in Submissions, v \in Verdicts : Load(b, s, v)
        \/ \E b \in Admins : Decide(b) \/ Replace(b) \/ Fail(b)
        \/ Crash
    BY DEF submissionVars, SubmissionsNext, OpenAppend, Append1, AppendFails, OpenTmp, WriteTmp
  <2> QED
    BY <2>1, <2>2, <2>3, <2>4, <2>5, <2>6, <2>7
<1> QED
  BY <1>5, <1>6 DEF ApprovedAreOnTheBoard

LEMMA ChoicesNext ==
    ASSUME InodesAssumption, QueueInv, [SubmissionsNext]_submissionVars
    PROVE  ChoicesAreRows'
<1> USE DEF diskVars, adminVars
<1>1. SubmissionsTypeOK /\ ChoicesAreRows /\ None \notin Inodes
  BY DEF QueueInv, InodesAssumption
<1> SUFFICES ASSUME NEW a \in Admins, pc'[a] = "decide"
             PROVE  /\ choice'[a] \in [at: Nat, id: Submissions, verdict: Verdicts]
             /\ choice'[a].at \in DOMAIN rows'[a]
                    /\ rows'[a][choice'[a].at].id = choice'[a].id
  BY DEF ChoicesAreRows
<1>2. CASE pc'[a] = pc[a] /\ choice'[a] = choice[a] /\ rows'[a] = rows[a]
  BY <1>1, <1>2 DEF ChoicesAreRows
<1>3. ASSUME NEW s \in Submissions, NEW v \in Verdicts, Load(a, s, v)
      PROVE  /\ choice'[a] \in [at: Nat, id: Submissions, verdict: Verdicts]
             /\ choice'[a].at \in DOMAIN rows'[a]
             /\ rows'[a][choice'[a].at].id = choice'[a].id
  <2>1. PICK i \in DOMAIN lines[queue] :
          lines[queue][i].id = s /\ choice' = [choice EXCEPT ![a] = [at |-> i, id |-> s, verdict |-> v]]
    BY <1>3 DEF Load
  <2>2. rows'[a] = lines[queue] /\ choice'[a] = [at |-> i, id |-> s, verdict |-> v]
    BY <1>1, <1>3, <2>1 DEF Load, SubmissionsTypeOK
  <2>3. choice'[a] \in [at: Nat, id: Submissions, verdict: Verdicts]
    <3>1. lines[queue] \in Seq(Line)
      BY <1>1 DEF SubmissionsTypeOK
    <3> QED
      BY <2>2, <3>1
  <2> QED
    BY <2>1, <2>2, <2>3
<1>4. ASSUME NEW b \in Admins, b # a,
             \/ \E s \in Submissions, v \in Verdicts : Load(b, s, v)
             \/ Decide(b) \/ OpenTmp(b) \/ WriteTmp(b) \/ Replace(b) \/ Fail(b)
      PROVE  pc'[a] = pc[a] /\ choice'[a] = choice[a] /\ rows'[a] = rows[a]
  BY <1>1, <1>4 DEF Load, Decide, OpenTmp, WriteTmp, Replace, Fail, Idle, SubmissionsTypeOK
<1>5. ~(Decide(a) \/ OpenTmp(a) \/ WriteTmp(a) \/ Replace(a) \/ Fail(a) \/ Crash)
  BY <1>1 DEF Decide, OpenTmp, WriteTmp, Replace, Fail, Crash, Idle, SubmissionsTypeOK
<1>6. CASE UNCHANGED <<pc, choice, rows>>
  BY <1>2, <1>6
<1> QED
  BY <1>2, <1>3, <1>4, <1>5, <1>6
  DEF submissionVars, SubmissionsNext, OpenAppend, Append1, AppendFails

LEMMA WritersNext ==
    ASSUME InodesAssumption, QueueInv, [SubmissionsNext]_submissionVars
    PROVE  WholeFilesHaveWriters'
<1> USE DEF diskVars, adminVars
<1>1. SubmissionsTypeOK /\ WholeFilesHaveWriters /\ None \notin Inodes
  BY DEF QueueInv, InodesAssumption
<1> SUFFICES ASSUME tmp' # None, whole'[tmp'], NEW a \in Admins, pc'[a] \in {"write", "replace"}
             PROVE  \E b \in Admins : pc'[b] = "replace"
                                      /\ IdsOf(rows'[b]) \subseteq IdsOf(lines'[tmp'])
  BY DEF WholeFilesHaveWriters, IdsOf, ToSet
\* The file is as it was, and so is whoever was to rename it.
<1>2. ASSUME tmp' = tmp, whole'[tmp] = whole[tmp], lines'[tmp] = lines[tmp],
             \E c \in Admins : pc[c] \in {"write", "replace"},
             \A b \in Admins : pc[b] = "replace" => pc'[b] = "replace" /\ rows'[b] = rows[b]
      PROVE  \E b \in Admins : pc'[b] = "replace" /\ IdsOf(rows'[b]) \subseteq IdsOf(lines'[tmp'])
  <2>1. PICK b \in Admins : pc[b] = "replace" /\ IdsOf(rows[b]) \subseteq IdsOf(lines[tmp])
    BY <1>1, <1>2 DEF WholeFilesHaveWriters
  <2> QED
    BY <1>2, <2>1
<1>3. ASSUME NEW s \in Submissions, OpenAppend(s) \/ AppendFails(s)
      PROVE  \E b \in Admins : pc'[b] = "replace" /\ IdsOf(rows'[b]) \subseteq IdsOf(lines'[tmp'])
  BY <1>2, <1>3 DEF OpenAppend, AppendFails
<1>4. ASSUME NEW s \in Submissions, Append1(s)
      PROVE  \E b \in Admins : pc'[b] = "replace" /\ IdsOf(rows'[b]) \subseteq IdsOf(lines'[tmp'])
  <2>1. lines'[tmp] = lines[tmp]
    BY <1>1, <1>4 DEF Append1, SubmissionsTypeOK
  <2> QED
    BY <1>2, <1>4, <2>1 DEF Append1
<1>5. ASSUME NEW c \in Admins, NEW s \in Submissions, NEW v \in Verdicts, Load(c, s, v)
      PROVE  \E b \in Admins : pc'[b] = "replace" /\ IdsOf(rows'[b]) \subseteq IdsOf(lines'[tmp'])
  <2>1. \A b \in Admins : (pc[b] = "replace" => pc'[b] = "replace" /\ rows'[b] = rows[b])
                          /\ (pc'[b] \in {"write", "replace"} => pc[b] \in {"write", "replace"})
    BY <1>1, <1>5 DEF Load, SubmissionsTypeOK
  <2> QED
    BY <1>2, <1>5, <2>1 DEF Load
<1>6. ASSUME NEW c \in Admins, Decide(c)
      PROVE  \E b \in Admins : pc'[b] = "replace" /\ IdsOf(rows'[b]) \subseteq IdsOf(lines'[tmp'])
  <2>1. \A b \in Admins : (pc[b] = "replace" => pc'[b] = "replace" /\ rows'[b] = rows[b])
                          /\ (pc'[b] \in {"write", "replace"} => pc[b] \in {"write", "replace"})
    BY <1>1, <1>6 DEF Decide, SubmissionsTypeOK
  <2> QED
    BY <1>2, <1>6, <2>1 DEF Decide
<1>7. ASSUME NEW c \in Admins, Fail(c)
      PROVE  \E b \in Admins : pc'[b] = "replace" /\ IdsOf(rows'[b]) \subseteq IdsOf(lines'[tmp'])
  <2>1. \A b \in Admins : (pc[b] = "replace" => pc'[b] = "replace" /\ rows'[b] = rows[b])
                          /\ (pc'[b] \in {"write", "replace"} => pc[b] \in {"write", "replace"})
    BY <1>1, <1>7 DEF Fail, Idle, SubmissionsTypeOK
  <2> QED
    BY <1>2, <1>7, <2>1 DEF Fail
\* A file that has just been opened is not whole.
<1>8. ASSUME NEW c \in Admins, OpenTmp(c) PROVE FALSE
  BY <1>1, <1>8 DEF OpenTmp, SubmissionsTypeOK
\* Whoever has written it holds what is in it.
<1>9. ASSUME NEW c \in Admins, WriteTmp(c)
      PROVE  \E b \in Admins : pc'[b] = "replace" /\ IdsOf(rows'[b]) \subseteq IdsOf(lines'[tmp'])
  <2>1. /\ tmp' = tmp /\ rows' = rows /\ pc[c] = "write" /\ pc'[c] = "replace"
        /\ \A b \in Admins : pc[b] = "replace" => pc'[b] = "replace"
    BY <1>1, <1>9 DEF WriteTmp, SubmissionsTypeOK
  <2>2. CASE tmpOf[c] = tmp
    <3>1. tmp \in Inodes
      BY <1>1, <2>1 DEF SubmissionsTypeOK
    <3>2. lines'[tmp] = Written(rows[c], lines[tmp])
      BY <1>1, <1>9, <2>2, <3>1 DEF WriteTmp, SubmissionsTypeOK
    <3>3. rows[c] \in Seq(Line) /\ lines[tmp] \in Seq(Line)
      BY <1>1, <3>1 DEF SubmissionsTypeOK
    <3>4. IdsOf(rows[c]) \subseteq IdsOf(Written(rows[c], lines[tmp]))
      BY <3>3, WrittenRows
    <3> QED
      BY <2>1, <3>2, <3>4
  <2>3. CASE tmpOf[c] # tmp
    <3>1. lines'[tmp] = lines[tmp] /\ whole'[tmp] = whole[tmp]
      BY <1>1, <1>9, <2>1, <2>3 DEF WriteTmp, SubmissionsTypeOK
    <3> QED
      BY <1>2, <2>1, <3>1
  <2> QED
    BY <2>2, <2>3
\* Renamed, it is no longer the temporary file.
<1>10. ASSUME NEW c \in Admins, Replace(c) PROVE FALSE
  BY <1>10 DEF Replace
<1>11. ~Crash
  BY DEF Crash
<1>12. CASE UNCHANGED submissionVars
  BY <1>2, <1>12 DEF submissionVars
<1> QED
  BY <1>3, <1>4, <1>5, <1>6, <1>7, <1>8, <1>9, <1>10, <1>11, <1>12 DEF SubmissionsNext

LEMMA QueueInvInit ==
    ASSUME InodesAssumption, SubmissionsInit
    PROVE  QueueInv
BY TypesInit DEF InodesAssumption, SubmissionsInit, QueueInv, ApprovedAreOnTheBoard, OnBoard,
   ChoicesAreRows, WholeFilesHaveWriters

LEMMA QueueInvHolds == SubmissionsSpec => []QueueInv
<1>1. SubmissionsInit => QueueInv
  BY InodesAssumption, QueueInvInit
<1>2. QueueInv /\ [SubmissionsNext]_submissionVars => QueueInv'
  BY InodesAssumption, TypesNext, BoardNext, ChoicesNext, WritersNext DEF QueueInv
<1> QED
  BY <1>1, <1>2, PTL DEF SubmissionsSpec

----------------------------------------------------------------------------
(* The theorems.                                                           *)

\* The lines, the requests and the decisions keep their types; the temporary file is
\* never the queue itself.
THEOREM TypeCorrect == SubmissionsSpec => []SubmissionsTypeOK
<1>1. QueueInv => SubmissionsTypeOK
  BY DEF QueueInv
<1> QED
  BY <1>1, QueueInvHolds, PTL

\* A row the queue calls approved is a Role on the board, whoever else was deciding
\* and wherever a request died (submissions.approve_submission).
THEOREM ApprovedOnTheBoard == SubmissionsSpec => []ApprovedRolesAreOnTheBoard
<1>1. QueueInv => ApprovedRolesAreOnTheBoard
  BY DEF QueueInv, SubmissionsTypeOK, ApprovedAreOnTheBoard, OnBoard, ApprovedRolesAreOnTheBoard, ToSet
<1> QED
  BY <1>1, QueueInvHolds, PTL

\* What a step may take out of the queue.
OnlyUnseen ==
    \A s \in Submissions :
        s \in Queued /\ s \notin Queued'
            => \E a \in Admins :
                \/ pc[a] \in {"write", "replace"} /\ s \notin IdsOf(rows[a])
                \/ pc[a] = "replace" /\ ~whole[tmp]

LEMMA LossStep ==
    ASSUME InodesAssumption, QueueInv, [SubmissionsNext]_submissionVars
    PROVE  OnlyUnseen
<1> USE DEF diskVars, adminVars
<1>1. SubmissionsTypeOK /\ WholeFilesHaveWriters /\ None \notin Inodes /\ lines[queue] \in Seq(Line)
  BY DEF QueueInv, InodesAssumption, SubmissionsTypeOK
<1> SUFFICES ASSUME NEW s \in Submissions, s \in IdsOf(lines[queue]), s \notin IdsOf(lines'[queue'])
             PROVE  \E a \in Admins :
                \/ pc[a] \in {"write", "replace"} /\ s \notin IdsOf(rows[a])
                \/ pc[a] = "replace" /\ ~whole[tmp]
  BY DEF OnlyUnseen, Queued, IdsOf, ToSet
<1>2. ~(queue' = queue /\ lines'[queue] = lines[queue])
  OBVIOUS
<1>3. ASSUME NEW q \in Submissions, Append1(q) PROVE FALSE
  <2>1. appendTo[q] = queue /\ queue' = queue
    BY <1>1, <1>2, <1>3 DEF Append1, SubmissionsTypeOK
  <2>2. lines'[queue] = Append(lines[queue], [id |-> q, status |-> "pending"])
    BY <1>1, <1>3, <2>1 DEF Append1, SubmissionsTypeOK
  <2>3. PICK i \in DOMAIN lines[queue] : lines[queue][i].id = s
    BY IdsOfLines
  <2>4. i \in DOMAIN lines'[queue] /\ lines'[queue][i] = lines[queue][i]
    BY <1>1, <2>2
  <2> QED
    BY <2>1, <2>3, <2>4, IdsOfLines
<1>4. ASSUME NEW a \in Admins, OpenTmp(a) PROVE FALSE
  BY <1>1, <1>2, <1>4 DEF OpenTmp, SubmissionsTypeOK
<1>5. ASSUME NEW a \in Admins, WriteTmp(a) PROVE pc[a] = "write" /\ s \notin IdsOf(rows[a])
  <2>1. tmpOf[a] = queue /\ queue' = queue
    BY <1>1, <1>2, <1>5 DEF WriteTmp, SubmissionsTypeOK
  <2>2. lines'[queue] = Written(rows[a], lines[queue]) /\ rows[a] \in Seq(Line)
    BY <1>1, <1>5, <2>1 DEF WriteTmp, SubmissionsTypeOK
  <2> QED
    BY <1>1, <1>5, <2>1, <2>2, WrittenRows DEF WriteTmp
<1>6. ASSUME NEW a \in Admins, Replace(a)
      PROVE  \E b \in Admins :
                \/ pc[b] \in {"write", "replace"} /\ s \notin IdsOf(rows[b])
                \/ pc[b] = "replace" /\ ~whole[tmp]
  <2>1. tmp # None /\ pc[a] = "replace"
    BY <1>2, <1>6 DEF Replace
  <2>2. tmp \in Inodes /\ tmp # queue
    BY <1>1, <2>1 DEF SubmissionsTypeOK
  <2>3. queue' = tmp /\ lines'[queue'] = lines[tmp]
    BY <1>1, <1>6, <2>1, <2>2 DEF Replace, SubmissionsTypeOK
  <2>4. CASE ~whole[tmp]
    BY <2>1, <2>4
  <2>5. CASE whole[tmp]
    <3>1. PICK b \in Admins : pc[b] = "replace" /\ IdsOf(rows[b]) \subseteq IdsOf(lines[tmp])
      BY <1>1, <2>1, <2>5 DEF WholeFilesHaveWriters
    <3> QED
      BY <2>3, <3>1
  <2> QED
    BY <2>4, <2>5
<1>7. \/ lines' = lines /\ queue' = queue
      \/ \E q \in Submissions : Append1(q)
      \/ \E a \in Admins : OpenTmp(a) \/ WriteTmp(a) \/ Replace(a)
  BY DEF submissionVars, SubmissionsNext, OpenAppend, AppendFails, Load, Decide, Fail, Crash
<1> QED
  BY <1>2, <1>3, <1>4, <1>5, <1>6, <1>7

\* A queued submission leaves the queue only through the two holes of save_queue: a
\* rewrite by somebody who had loaded the file before it arrived, or the rename of a
\* temporary file another one has opened and not written yet.
THEOREM OnlyUnseenAreLost == SubmissionsSpec => OnlyUnseenSubmissionsAreLost
<1>1. QueueInv /\ [SubmissionsNext]_submissionVars => [OnlyUnseen]_submissionVars
  BY InodesAssumption, LossStep
<1>2. [OnlyUnseen]_submissionVars =>
      [\A s \in Submissions :
        s \in Queued /\ s \notin Queued'
            => \E a \in Admins :
                \/ pc[a] \in {"write", "replace"} /\ s \notin IdsOf(rows[a])
                \/ pc[a] = "replace" /\ ~whole[tmp]]_submissionVars
  BY DEF OnlyUnseen
<1> QED
  BY <1>1, <1>2, QueueInvHolds, PTL DEF SubmissionsSpec, OnlyUnseenSubmissionsAreLost
===============================================================================
