---------------------------- MODULE HandshakeProofs ----------------------------
(* Proofs about HandshakePow, for every value of its constants: types, that    *)
(* the table of time stamps is a limiter that forgets nothing, and what work   *)
(* is asked for and honoured.                                                  *)
EXTENDS HandshakePow, SequenceTheorems, FiniteSetTheorems, WellFoundedInduction, TLAPS

\* The assumptions on the constants, one by one.
LEMMA PConsts ==
  /\ Limit \in Nat /\ Limit > 0 /\ RateWindow \in Nat /\ RateWindow > 0
  /\ RecomputeEvery \in Nat /\ RecomputeEvery > 0 /\ LoadWindow \in Nat /\ LoadWindow > 0
  /\ RecomputeEvery <= LoadWindow
  /\ LoadSpan \in Nat /\ LoadSpan > 0 /\ BucketSecs \in Nat /\ BucketSecs > 0
  /\ Threshold \in Nat /\ Threshold > 0 /\ MinEffort \in Nat /\ MinEffort > 0
  /\ MaxEffort \in Nat /\ MinEffort <= MaxEffort
  /\ MaxKeys \in Nat /\ MaxTime \in Nat /\ MaxPerTick \in Nat /\ MaxRestarts \in Nat
  BY HandshakeConstants

-----------------------------------------------------------------------------
(* Lists of time stamps *)

\* Every set of natural numbers with an element has a least one.
LEMMA NatMin ==
  ASSUME NEW S \in SUBSET Nat, S # {}
  PROVE  \E n \in S : \A m \in S : n <= m
<1> DEFINE R == OpToRel(<, Nat)
<1>1. IsWellFoundedOn(R, Nat)
  BY NatLessThanWellFounded
<1> HIDE DEF R
<1>2. PICK x \in S : \A y \in S : ~(<<y, x>> \in R)
  BY <1>1, WFMin
<1>3. ASSUME NEW y \in S PROVE x <= y
  <2>1. x \in Nat /\ y \in Nat
    OBVIOUS
  <2>2. ~(y < x)
    BY <1>2, <2>1 DEF R, OpToRel
  <2> QED BY <2>1, <2>2
<1> QED BY <1>3

\* A set of indices that contains all above its members is the end of the list.
LEMMA UpSet ==
  ASSUME NEW L \in Nat, NEW U \in SUBSET (1..L),
         \A i \in U : \A j \in 1..L : i <= j => j \in U
  PROVE  /\ Cardinality(U) \in Nat /\ Cardinality(U) <= L
         /\ \A j \in 1..L : j \in U <=> L - Cardinality(U) < j
<1>1. CASE U = {}
  <2>1. Cardinality(U) = 0
    BY <1>1, FS_EmptySet
  <2>2. \A j \in 1..L : ~(L - 0 < j)
    OBVIOUS
  <2> QED BY <1>1, <2>1, <2>2
<1>2. CASE U # {}
  <2>1. PICK m \in U : \A x \in U : m <= x
    <3>1. U \in SUBSET Nat
      OBVIOUS
    <3> QED BY <1>2, <3>1, NatMin
  <2>2. m \in Nat /\ 1 <= m /\ m <= L
    OBVIOUS
  <2>3. \A j \in 1..L : j \in U <=> m <= j
    BY <2>1
  <2>4. U = m..L
    <3>1. ASSUME NEW x \in m..L PROVE x \in U
      <4>1. x \in 1..L /\ m <= x
        BY <2>2, <3>1
      <4> QED BY <2>3, <4>1
    <3>2. ASSUME NEW x \in U PROVE x \in m..L
      <4>1. x \in 1..L /\ m <= x /\ x \in Int /\ x <= L
        BY <2>3
      <4> QED BY <2>2, <4>1
    <3> QED BY <3>1, <3>2
  <2>5. Cardinality(m..L) = L - m + 1
    BY <2>2, FS_Interval
  <2>6. PICK c \in Nat : c = Cardinality(U) /\ c = L - m + 1
    BY <2>2, <2>4, <2>5
  <2>7. c <= L /\ \A j \in 1..L : m <= j <=> L - c < j
    BY <2>2, <2>6
  <2> QED BY <2>3, <2>6, <2>7
<1> QED BY <1>1, <1>2

\* The indices of a list that satisfy a condition are at most all of them.
LEMMA IndexCount ==
  ASSUME NEW L \in Nat, NEW U \in SUBSET (1..L)
  PROVE  IsFiniteSet(U) /\ Cardinality(U) \in Nat /\ Cardinality(U) <= L
<1>1. IsFiniteSet(1..L) /\ Cardinality(1..L) = L
  BY FS_Interval
<1>2. IsFiniteSet(U) /\ Cardinality(U) <= Cardinality(1..L)
  BY <1>1, FS_Subset
<1> QED BY <1>1, <1>2, FS_CardinalityType

\* The end of a list.
LEMMA LastOfShape ==
  ASSUME NEW S, NEW s \in Seq(S), NEW n \in Nat, n <= Len(s)
  PROVE  /\ LastOf(s, n) \in Seq(S) /\ Len(LastOf(s, n)) = n
         /\ \A i \in 1..n : /\ Len(s) - n + i \in 1..Len(s)
                            /\ LastOf(s, n)[i] = s[Len(s) - n + i]
<1> PICK L \in Nat : L = Len(s)
  BY LenProperties
<1>1. \A i \in 1..n : L - n + i \in 1..L
  OBVIOUS
<1>2. LastOf(s, n) = [i \in 1..n |-> s[L - n + i]]
  BY DEF LastOf
<1>3. LastOf(s, n) \in [1..n -> S]
  BY <1>1, <1>2, ElementOfSeq
<1>4. LastOf(s, n) \in Seq(S) /\ Len(LastOf(s, n)) = n
  <2>1. LastOf(s, n) \in Seq(S)
    BY <1>3, SeqDef
  <2> QED BY <1>3, <2>1, LenProperties
<1> QED BY <1>1, <1>2, <1>4

\* Ends of the same list are equal if as long.
LEMMA LastOfAll ==
  ASSUME NEW S, NEW s \in Seq(S)
  PROVE  LastOf(s, Len(s)) = s /\ LastOf(s, 0) = <<>>
<1> PICK L \in Nat : L = Len(s)
  BY LenProperties
<1>0. L <= Len(s)
  OBVIOUS
<1>1. /\ LastOf(s, L) \in Seq(S) /\ Len(LastOf(s, L)) = L
      /\ \A i \in 1..L : /\ Len(s) - L + i \in 1..Len(s)
                         /\ LastOf(s, L)[i] = s[Len(s) - L + i]
  BY <1>0, LastOfShape
<1>2. \A i \in 1..L : Len(s) - L + i = i
  OBVIOUS
<1>3. LastOf(s, L) = s
  BY <1>1, <1>2, SeqEqual
<1>4. LastOf(s, 0) \in Seq(S) /\ Len(LastOf(s, 0)) = 0
  BY LastOfShape
<1>5. LastOf(s, 0) = <<>>
  BY <1>4, EmptySeq
<1> QED BY <1>3, <1>5

LEMMA LastOfLast ==
  ASSUME NEW S, NEW s \in Seq(S), NEW n \in Nat, n <= Len(s), NEW m \in Nat, m <= n
  PROVE  LastOf(LastOf(s, n), m) = LastOf(s, m)
<1> PICK L \in Nat : L = Len(s)
  BY LenProperties
<1> PICK t : t = LastOf(s, n)
  OBVIOUS
<1>1. t \in Seq(S) /\ Len(t) = n /\ \A i \in 1..n : t[i] = s[L - n + i]
  BY LastOfShape
<1>2. /\ LastOf(t, m) \in Seq(S) /\ Len(LastOf(t, m)) = m
      /\ \A i \in 1..m : LastOf(t, m)[i] = t[n - m + i]
  <2>1. m <= Len(t)
    BY <1>1
  <2>2. /\ LastOf(t, m) \in Seq(S) /\ Len(LastOf(t, m)) = m
        /\ \A i \in 1..m : /\ Len(t) - m + i \in 1..Len(t)
                           /\ LastOf(t, m)[i] = t[Len(t) - m + i]
    BY <1>1, <2>1, LastOfShape
  <2> QED BY <1>1, <2>2
<1>3. m <= L
  OBVIOUS
<1>4. /\ LastOf(s, m) \in Seq(S) /\ Len(LastOf(s, m)) = m
      /\ \A i \in 1..m : LastOf(s, m)[i] = s[L - m + i]
  BY <1>3, LastOfShape
<1>5. ASSUME NEW i \in 1..m PROVE LastOf(t, m)[i] = LastOf(s, m)[i]
  <2>1. n - m + i \in 1..n /\ L - n + (n - m + i) = L - m + i
    OBVIOUS
  <2> QED BY <1>1, <1>2, <1>4, <2>1
<1>6. LastOf(t, m) = LastOf(s, m)
  BY <1>2, <1>4, <1>5, SeqEqual
<1> QED BY <1>6

\* Stamps in order.
Ordered(s) == \A i, j \in 1..Len(s) : i <= j => s[i] <= s[j]

\* What is dropped is the part of an ordered list before the cutoff.
LEMMA SinceCount ==
  ASSUME NEW s \in Seq(Int), Ordered(s), NEW cutoff \in Int
  PROVE  \E n \in Nat : /\ n <= Len(s) /\ Since(s, cutoff) = LastOf(s, n)
                        /\ \A i \in 1..Len(s) : s[i] >= cutoff <=> Len(s) - n < i
<1> PICK L \in Nat : L = Len(s)
  BY LenProperties
<1> DEFINE U == {i \in 1..L : \E j \in 1..i : s[j] >= cutoff}
<1>1. \A i \in 1..L : s[i] \in Int
  BY ElementOfSeq
<1>2. ASSUME NEW i \in 1..L PROVE i \in U <=> s[i] >= cutoff
  <2>1. ASSUME s[i] >= cutoff PROVE i \in U
    <3>1. i \in 1..i
      OBVIOUS
    <3> QED BY <2>1, <3>1
  <2>2. ASSUME i \in U PROVE s[i] >= cutoff
    <3>1. PICK j \in 1..i : s[j] >= cutoff
      BY <2>2
    <3>2. j \in 1..L /\ j <= i
      BY <3>1
    <3>3. s[j] <= s[i]
      BY <3>2 DEF Ordered
    <3> QED BY <1>1, <3>1, <3>2, <3>3
  <2> QED BY <2>1, <2>2
<1>3. U \in SUBSET (1..L)
  OBVIOUS
<1>4. Since(s, cutoff) = LastOf(s, Cardinality(U))
  BY DEF Since
<1> HIDE DEF U
<1>5. ASSUME NEW i \in U, NEW j \in 1..L, i <= j PROVE j \in U
  <2>1. i \in 1..L /\ s[i] >= cutoff /\ s[i] <= s[j]
    BY <1>2, <1>3, <1>5 DEF Ordered
  <2>2. s[j] >= cutoff
    BY <1>1, <2>1
  <2> QED BY <1>2, <2>2
<1>6. /\ Cardinality(U) \in Nat /\ Cardinality(U) <= L
      /\ \A j \in 1..L : j \in U <=> L - Cardinality(U) < j
  BY <1>3, <1>5, UpSet
<1> QED BY <1>2, <1>4, <1>6

\* That part is determined by which stamps are before the cutoff.
LEMMA SinceIs ==
  ASSUME NEW s \in Seq(Int), Ordered(s), NEW cutoff \in Int, NEW n \in Nat, n <= Len(s),
         \A i \in 1..Len(s) : s[i] >= cutoff <=> Len(s) - n < i
  PROVE  Since(s, cutoff) = LastOf(s, n)
<1> PICK L \in Nat : L = Len(s)
  BY LenProperties
<1>1. PICK m \in Nat : /\ m <= L /\ Since(s, cutoff) = LastOf(s, m)
                       /\ \A i \in 1..L : s[i] >= cutoff <=> L - m < i
  BY SinceCount
<1>2. \A i \in 1..L : L - m < i <=> L - n < i
  BY <1>1
<1>3. ~(m < n)
  <2>1. ASSUME m < n PROVE FALSE
    <3>1. L - n + 1 \in 1..L /\ L - n < L - n + 1 /\ ~(L - m < L - n + 1)
      BY <2>1
    <3> QED BY <1>2, <3>1
  <2> QED BY <2>1
<1>4. ~(n < m)
  <2>1. ASSUME n < m PROVE FALSE
    <3>1. L - m + 1 \in 1..L /\ L - m < L - m + 1 /\ ~(L - n < L - m + 1)
      BY <1>1, <2>1
    <3> QED BY <1>2, <3>1
  <2> QED BY <2>1
<1>5. m = n
  BY <1>3, <1>4
<1> QED BY <1>1, <1>5

\* Nothing is dropped, or everything.
LEMMA SinceAllOrNone ==
  ASSUME NEW s \in Seq(Int), Ordered(s), NEW cutoff \in Int
  PROVE  /\ (\A i \in 1..Len(s) : s[i] >= cutoff) => Since(s, cutoff) = s
         /\ (\A i \in 1..Len(s) : s[i] < cutoff) => Since(s, cutoff) = <<>>
<1> PICK L \in Nat : L = Len(s)
  BY LenProperties
<1>1. ASSUME \A i \in 1..L : s[i] >= cutoff PROVE Since(s, cutoff) = s
  <2>1. \A i \in 1..L : s[i] >= cutoff <=> L - L < i
    BY <1>1
  <2>2. Since(s, cutoff) = LastOf(s, L)
    BY <2>1, SinceIs
  <2> QED BY <2>2, LastOfAll
<1>2. ASSUME \A i \in 1..L : s[i] < cutoff PROVE Since(s, cutoff) = <<>>
  <2>0. \A i \in 1..L : s[i] \in Int
    BY ElementOfSeq
  <2>1. \A i \in 1..L : s[i] >= cutoff <=> L - 0 < i
    BY <1>2, <2>0
  <2>2. Since(s, cutoff) = LastOf(s, 0)
    BY <2>1, SinceIs
  <2> QED BY <2>2, LastOfAll
<1> QED BY <1>1, <1>2

\* What is left is ordered, not before the cutoff and no longer than it was.
LEMMA SinceShape ==
  ASSUME NEW s \in Seq(Int), Ordered(s), NEW cutoff \in Int
  PROVE  /\ Since(s, cutoff) \in Seq(Int) /\ Ordered(Since(s, cutoff))
         /\ Len(Since(s, cutoff)) \in Nat /\ Len(Since(s, cutoff)) <= Len(s)
         /\ \A i \in 1..Len(Since(s, cutoff)) :
              /\ Since(s, cutoff)[i] >= cutoff
              /\ \E k \in 1..Len(s) : Since(s, cutoff)[i] = s[k]
<1> PICK L \in Nat : L = Len(s)
  BY LenProperties
<1>1. PICK n \in Nat : /\ n <= L /\ Since(s, cutoff) = LastOf(s, n)
                       /\ \A i \in 1..L : s[i] >= cutoff <=> L - n < i
  BY SinceCount
<1> PICK t : t = LastOf(s, n)
  OBVIOUS
<1>2. /\ t \in Seq(Int) /\ Len(t) = n
      /\ \A i \in 1..n : L - n + i \in 1..L /\ t[i] = s[L - n + i]
  BY <1>1, LastOfShape
<1>3. Ordered(t)
  <2>1. ASSUME NEW i \in 1..n, NEW j \in 1..n, i <= j PROVE t[i] <= t[j]
    <3>1. L - n + i <= L - n + j
      BY <2>1
    <3>2. s[L - n + i] <= s[L - n + j]
      BY <1>2, <3>1 DEF Ordered
    <3> QED BY <1>2, <3>2
  <2> QED BY <1>2, <2>1 DEF Ordered
<1>4. ASSUME NEW i \in 1..n PROVE t[i] >= cutoff /\ \E k \in 1..L : t[i] = s[k]
  <2>1. L - n < L - n + i
    OBVIOUS
  <2>2. s[L - n + i] >= cutoff
    BY <1>1, <1>2, <2>1
  <2> QED BY <1>2, <2>2
<1> QED BY <1>1, <1>2, <1>3, <1>4

\* Dropping twice is dropping up to the later cutoff.
LEMMA SinceSince ==
  ASSUME NEW s \in Seq(Int), Ordered(s), NEW c \in Int, NEW d \in Int, c <= d
  PROVE  Since(Since(s, c), d) = Since(s, d)
<1> PICK L \in Nat : L = Len(s)
  BY LenProperties
<1>0. \A i \in 1..L : s[i] \in Int
  BY ElementOfSeq
<1>1. PICK n \in Nat : /\ n <= L /\ Since(s, c) = LastOf(s, n)
                       /\ \A i \in 1..L : s[i] >= c <=> L - n < i
  BY SinceCount
<1>2. PICK m \in Nat : /\ m <= L /\ Since(s, d) = LastOf(s, m)
                       /\ \A i \in 1..L : s[i] >= d <=> L - m < i
  BY SinceCount
<1>3. m <= n
  <2>1. ASSUME n < m PROVE FALSE
    <3>1. L - m + 1 \in 1..L /\ L - m < L - m + 1 /\ ~(L - n < L - m + 1)
      BY <1>2, <2>1
    <3>2. s[L - m + 1] >= d /\ ~(s[L - m + 1] >= c) /\ s[L - m + 1] \in Int
      BY <1>0, <1>1, <1>2, <3>1
    <3> QED BY <3>2
  <2> QED BY <2>1
<1> PICK t : t = LastOf(s, n)
  OBVIOUS
<1>4. /\ t \in Seq(Int) /\ Len(t) = n /\ Ordered(t)
      /\ \A i \in 1..n : L - n + i \in 1..L /\ t[i] = s[L - n + i]
  <2>1. Ordered(Since(s, c))
    BY SinceShape
  <2> QED BY <1>1, <2>1, LastOfShape
<1>5. ASSUME NEW i \in 1..n PROVE t[i] >= d <=> n - m < i
  <2>1. s[L - n + i] >= d <=> L - m < L - n + i
    BY <1>2, <1>4
  <2>2. L - m < L - n + i <=> n - m < i
    OBVIOUS
  <2> QED BY <1>4, <2>1, <2>2
<1>6. Since(t, d) = LastOf(t, m)
  BY <1>3, <1>4, <1>5, SinceIs
<1>7. LastOf(t, m) = LastOf(s, m)
  BY <1>1, <1>3, LastOfLast
<1> QED BY <1>1, <1>2, <1>6, <1>7

\* A stamp is added at the end of a list that it is not before.
LEMMA AppendShape ==
  ASSUME NEW s \in Seq(Int), Ordered(s), NEW t \in Int, \A i \in 1..Len(s) : s[i] <= t
  PROVE  /\ Append(s, t) \in Seq(Int) /\ Ordered(Append(s, t)) /\ Len(Append(s, t)) = Len(s) + 1
         /\ \A i \in 1..Len(s) : Append(s, t)[i] = s[i]
         /\ Append(s, t)[Len(s) + 1] = t
<1> PICK L \in Nat : L = Len(s)
  BY LenProperties
<1> PICK a : a = Append(s, t)
  OBVIOUS
<1>1. /\ a \in Seq(Int) /\ Len(a) = L + 1 /\ a[L + 1] = t /\ \A i \in 1..L : a[i] = s[i]
  BY AppendProperties
<1>2. ASSUME NEW i \in 1..(L + 1), NEW j \in 1..(L + 1), i <= j PROVE a[i] <= a[j]
  <2>1. CASE j = L + 1 /\ i = L + 1
    BY <1>1, <2>1
  <2>2. CASE j = L + 1 /\ i # L + 1
    <3>1. i \in 1..L
      BY <2>2
    <3> QED BY <1>1, <2>2, <3>1
  <2>3. CASE j # L + 1
    <3>1. i \in 1..L /\ j \in 1..L
      BY <1>2, <2>3
    <3> QED BY <1>1, <1>2, <3>1 DEF Ordered
  <2> QED BY <2>1, <2>2, <2>3
<1> QED BY <1>1, <1>2 DEF Ordered

-----------------------------------------------------------------------------
(* Lists of stamps up to a time *)

Stamped(s, t) == s \in Seq(Int) /\ Ordered(s) /\ \A i \in 1..Len(s) : 0 <= s[i] /\ s[i] <= t

\* No stamps.
LEMMA NoStamps == \A t \in Int : Stamped(<<>>, t) /\ Len(<<>>) = 0
<1>1. <<>> \in Seq(Int) /\ Len(<<>>) = 0
  BY EmptySeq
<1>2. 1..0 = {}
  OBVIOUS
<1> QED BY <1>1, <1>2 DEF Stamped, Ordered

\* Time goes on.
LEMMA StampedLater ==
  ASSUME NEW t \in Int, NEW u \in Int, t <= u, NEW s, Stamped(s, t)
  PROVE  Stamped(s, u)
<1> PICK L \in Nat : L = Len(s)
  BY LenProperties DEF Stamped
<1>1. \A i \in 1..L : s[i] \in Int
  BY ElementOfSeq DEF Stamped
<1>2. \A i \in 1..L : 0 <= s[i] /\ s[i] <= u
  BY <1>1 DEF Stamped
<1> QED BY <1>2 DEF Stamped

\* A request now is stamped last.
LEMMA StampedAppend ==
  ASSUME NEW t \in Nat, NEW s, Stamped(s, t)
  PROVE  /\ Stamped(Append(s, t), t) /\ Len(Append(s, t)) = Len(s) + 1
         /\ \A i \in 1..Len(s) : Append(s, t)[i] = s[i]
         /\ Append(s, t)[Len(s) + 1] = t
<1> PICK L \in Nat : L = Len(s)
  BY LenProperties DEF Stamped
<1> PICK a : a = Append(s, t)
  OBVIOUS
<1>1. /\ a \in Seq(Int) /\ Ordered(a) /\ Len(a) = L + 1
      /\ \A i \in 1..L : a[i] = s[i]
      /\ a[L + 1] = t
  BY AppendShape DEF Stamped
<1>2. ASSUME NEW i \in 1..(L + 1) PROVE 0 <= a[i] /\ a[i] <= t
  <2>1. CASE i = L + 1
    BY <1>1, <2>1
  <2>2. CASE i # L + 1
    <3>1. i \in 1..L
      BY <2>2
    <3> QED BY <1>1, <3>1 DEF Stamped
  <2> QED BY <2>1, <2>2
<1> QED BY <1>1, <1>2 DEF Stamped

\* So is what is left of a list.
LEMMA StampedSince ==
  ASSUME NEW t \in Int, NEW s, Stamped(s, t), NEW cutoff \in Int
  PROVE  /\ Stamped(Since(s, cutoff), t)
         /\ Len(s) \in Nat /\ Len(Since(s, cutoff)) \in Nat /\ Len(Since(s, cutoff)) <= Len(s)
         /\ \A i \in 1..Len(Since(s, cutoff)) : Since(s, cutoff)[i] >= cutoff
<1> PICK z : z = Since(s, cutoff)
  OBVIOUS
<1>0. Len(s) \in Nat
  BY LenProperties DEF Stamped
<1>1. /\ z \in Seq(Int) /\ Ordered(z) /\ Len(z) \in Nat /\ Len(z) <= Len(s)
      /\ \A i \in 1..Len(z) : z[i] >= cutoff /\ \E k \in 1..Len(s) : z[i] = s[k]
  BY SinceShape DEF Stamped
<1>2. ASSUME NEW i \in 1..Len(z) PROVE 0 <= z[i] /\ z[i] <= t
  <2>1. PICK k \in 1..Len(s) : z[i] = s[k]
    BY <1>1
  <2> QED BY <2>1 DEF Stamped
<1> QED BY <1>0, <1>1, <1>2 DEF Stamped

\* Dropping again what was dropped changes nothing.
LEMMA SinceAgain ==
  ASSUME NEW t \in Int, NEW s, Stamped(s, t), NEW cutoff \in Int,
         \A i \in 1..Len(s) : s[i] >= cutoff
  PROVE  Since(s, cutoff) = s
BY SinceAllOrNone DEF Stamped

\* Stamps within the time bound.
LEMMA StampedTime ==
  ASSUME NEW t \in Time, NEW s, Stamped(s, t)
  PROVE  s \in Seq(Time)
<1> PICK L \in Nat : L = Len(s)
  BY LenProperties DEF Stamped
<1>1. s = [i \in 1..L |-> s[i]]
  BY LenProperties DEF Stamped
<1>2. ASSUME NEW i \in 1..L PROVE s[i] \in Time
  <2>1. s[i] \in Int
    BY ElementOfSeq DEF Stamped
  <2>2. 0 <= s[i] /\ s[i] <= t
    BY DEF Stamped
  <2> QED BY <2>1, <2>2, PConsts DEF Time
<1>3. s \in [1..L -> Time]
  <2> PICK T : T = Time
    OBVIOUS
  <2> QED BY <1>1, <1>2
<1> QED BY <1>3, SeqDef

-----------------------------------------------------------------------------
(* The table of time stamps *)

Known(table) ==
  /\ DOMAIN table \subseteq Client
  /\ \A k \in DOMAIN table : Stamped(table[k], now) /\ Len(table[k]) <= Limit

RecentIn(table, k) ==
  IF k \in DOMAIN table THEN Since(table[k], now - RateWindow + 1) ELSE <<>>

\* What is cleaned away would have been dropped when it was looked at.
LEMMA CleanedKeeps ==
  ASSUME now \in Nat, NEW table, Known(table)
  PROVE  /\ Known(Cleaned(table))
         /\ \A k \in Client : RecentIn(Cleaned(table), k) = RecentIn(table, k)
<1> DEFINE keep == {k \in DOMAIN table :
                      table[k] # <<>> /\ now - table[k][Len(table[k])] < RateWindow}
<1>1. DOMAIN Cleaned(table) = keep /\ \A k \in keep : Cleaned(table)[k] = table[k]
  BY DEF Cleaned, Restrict
<1>2. keep \subseteq DOMAIN table
  OBVIOUS
<1>3. ASSUME NEW k \in DOMAIN table, k \notin keep
      PROVE  Since(table[k], now - RateWindow + 1) = <<>>
  <2>1. PICK s : s = table[k]
    OBVIOUS
  <2>2. Stamped(s, now)
    BY <2>1 DEF Known
  <2>3. PICK L \in Nat : L = Len(s)
    BY <2>2, LenProperties DEF Stamped
  <2>4. s = <<>> \/ ~(now - s[L] < RateWindow)
    BY <1>3, <2>1, <2>3
  <2>5. now - RateWindow + 1 \in Int
    BY PConsts
  <2>6. ASSUME NEW i \in 1..L PROVE s[i] < now - RateWindow + 1
    <3>1. s # <<>> /\ L \in 1..L
      BY <2>2, <2>3, EmptySeq DEF Stamped
    <3>2. s[i] \in Int /\ s[L] \in Int /\ s[i] <= s[L]
      <4>1. s[i] \in Int /\ s[L] \in Int
        BY <2>2, <2>3, <3>1, ElementOfSeq DEF Stamped
      <4>2. i <= L
        OBVIOUS
      <4> QED BY <2>2, <2>3, <3>1, <4>1, <4>2 DEF Stamped, Ordered
    <3> QED BY <2>4, <3>1, <3>2, PConsts
  <2>7. Since(s, now - RateWindow + 1) = <<>>
    BY <2>2, <2>3, <2>5, <2>6, SinceAllOrNone DEF Stamped
  <2> QED BY <2>1, <2>7
<1> HIDE DEF keep
<1>4. Known(Cleaned(table))
  BY <1>1, <1>2 DEF Known
<1>5. ASSUME NEW k \in Client PROVE RecentIn(Cleaned(table), k) = RecentIn(table, k)
  <2>1. CASE k \in keep
    BY <1>1, <1>2, <2>1 DEF RecentIn
  <2>2. CASE k \in DOMAIN table /\ k \notin keep
    BY <1>1, <1>3, <2>2 DEF RecentIn
  <2>3. CASE k \notin DOMAIN table
    BY <1>1, <1>2, <2>3 DEF RecentIn
  <2> QED BY <2>1, <2>2, <2>3
<1> QED BY <1>4, <1>5

\* One address's list is replaced.
LEMMA WithKeeps ==
  ASSUME Known(limits), NEW c \in Client, NEW s, Stamped(s, now), Len(s) <= Limit
  PROVE  /\ Known(With(c, s))
         /\ RecentIn(With(c, s), c) = Since(s, now - RateWindow + 1)
         /\ \A k \in Client : k # c => RecentIn(With(c, s), k) = RecentIn(limits, k)
<1> PICK table : table = With(c, s)
  OBVIOUS
<1>1. /\ DOMAIN table = DOMAIN limits \cup {c} /\ table[c] = s
      /\ \A k \in DOMAIN limits : k # c => table[k] = limits[k]
  BY DEF With
<1>2. Known(table)
  BY <1>1 DEF Known
<1>3. RecentIn(table, c) = Since(s, now - RateWindow + 1)
  BY <1>1 DEF RecentIn
<1>4. ASSUME NEW k \in Client, k # c PROVE RecentIn(table, k) = RecentIn(limits, k)
  BY <1>1, <1>4 DEF RecentIn
<1> QED BY <1>2, <1>3, <1>4

\* What is known of an address.
LEMMA RecentShape ==
  ASSUME now \in Nat, Known(limits), NEW c \in Client
  PROVE  /\ Recent(c) = RecentIn(limits, c) /\ Stamped(Recent(c), now)
         /\ Len(Recent(c)) \in Nat /\ Len(Recent(c)) <= Limit
         /\ \A i \in 1..Len(Recent(c)) : Recent(c)[i] >= now - RateWindow + 1
<1>0. Recent(c) = RecentIn(limits, c)
  BY DEF Recent, RecentIn
<1>1. CASE c \in DOMAIN limits
  <2>1. PICK s : s = limits[c]
    OBVIOUS
  <2>2. Stamped(s, now) /\ Len(s) <= Limit
    BY <1>1, <2>1 DEF Known
  <2>3. now - RateWindow + 1 \in Int
    BY PConsts
  <2>4. PICK cutoff \in Int : cutoff = now - RateWindow + 1
    BY <2>3
  <2>5. Recent(c) = Since(s, cutoff)
    BY <1>1, <2>1, <2>4 DEF Recent
  <2>6. PICK z : z = Since(s, cutoff)
    OBVIOUS
  <2>7. /\ Stamped(z, now) /\ Len(s) \in Nat /\ Len(z) \in Nat /\ Len(z) <= Len(s)
        /\ \A i \in 1..Len(z) : z[i] >= cutoff
    BY <2>2, <2>6, StampedSince
  <2>8. Len(z) <= Limit
    BY <2>2, <2>7, PConsts
  <2> QED BY <1>0, <2>4, <2>5, <2>6, <2>7, <2>8
<1>2. CASE c \notin DOMAIN limits
  <2>1. Recent(c) = <<>>
    BY <1>2 DEF Recent
  <2>2. Stamped(<<>>, now) /\ Len(<<>>) = 0 /\ 0 <= Limit /\ 1..0 = {}
    BY NoStamps, PConsts
  <2> QED BY <1>0, <2>1, <2>2
<1> QED BY <1>1, <1>2

\* A request's effect on the table, seen through what is recent.
LEMMA LimitsStep ==
  ASSUME now \in Nat, Known(limits), NEW c \in Client
  PROVE  /\ Known(LimitsAfter(c))
         /\ \A k \in Client : k # c => RecentIn(LimitsAfter(c), k) = Recent(k)
         /\ Admits(c) => RecentIn(LimitsAfter(c), c) = Append(Recent(c), now)
         /\ ~Admits(c) => RecentIn(LimitsAfter(c), c) = Recent(c) /\ Len(Recent(c)) = Limit
<1>0. \A k \in Client : Recent(k) = RecentIn(limits, k)
  BY RecentShape
<1>1. PICK r : r = Recent(c)
  OBVIOUS
<1>2. PICK cutoff \in Int : cutoff = now - RateWindow + 1
  BY PConsts
<1>3. /\ Stamped(r, now) /\ Len(r) \in Nat /\ Len(r) <= Limit
      /\ \A i \in 1..Len(r) : r[i] >= cutoff
  BY <1>1, <1>2, RecentShape
<1>4. CASE Admits(c)
  <2>1. PICK s : s = Append(r, now)
    OBVIOUS
  <2>2. Len(r) < Limit
    BY <1>1, <1>4 DEF Admits
  <2>3. /\ Stamped(s, now) /\ Len(s) = Len(r) + 1
        /\ \A i \in 1..Len(r) : s[i] = r[i]
        /\ s[Len(r) + 1] = now
    BY <1>3, <2>1, StampedAppend
  <2>4. Len(s) <= Limit
    BY <1>3, <2>2, <2>3, PConsts
  <2>5. ASSUME NEW i \in 1..Len(s) PROVE s[i] >= cutoff
    <3>1. CASE i \in 1..Len(r)
      BY <1>3, <2>3, <3>1
    <3>2. CASE i \notin 1..Len(r)
      <4>1. i = Len(r) + 1
        BY <1>3, <2>3, <3>2
      <4> QED BY <1>2, <2>3, <4>1, PConsts
    <3> QED BY <3>1, <3>2
  <2>6. Since(s, cutoff) = s
    BY <2>3, <2>5, SinceAgain
  <2>7. PICK table : table = With(c, s)
    OBVIOUS
  <2>8. /\ Known(table) /\ RecentIn(table, c) = s
        /\ \A k \in Client : k # c => RecentIn(table, k) = RecentIn(limits, k)
    BY <1>2, <2>3, <2>4, <2>6, <2>7, WithKeeps
  <2>9. /\ Known(Cleaned(table))
        /\ \A k \in Client : RecentIn(Cleaned(table), k) = RecentIn(table, k)
    BY <2>8, CleanedKeeps
  <2>10. LimitsAfter(c) = Cleaned(table) \/ LimitsAfter(c) = table
    BY <1>1, <1>4, <2>1, <2>7 DEF LimitsAfter
  <2>11. /\ Known(LimitsAfter(c)) /\ RecentIn(LimitsAfter(c), c) = s
         /\ \A k \in Client : k # c => RecentIn(LimitsAfter(c), k) = RecentIn(limits, k)
    <3>1. CASE LimitsAfter(c) = Cleaned(table)
      BY <2>8, <2>9, <3>1
    <3>2. CASE LimitsAfter(c) = table
      BY <2>8, <3>2
    <3> QED BY <2>10, <3>1, <3>2
  <2> QED BY <1>0, <1>1, <1>4, <2>1, <2>11
<1>5. CASE ~Admits(c)
  <2>1. Since(r, cutoff) = r
    BY <1>3, SinceAgain
  <2>2. /\ Known(With(c, r)) /\ RecentIn(With(c, r), c) = r
        /\ \A k \in Client : k # c => RecentIn(With(c, r), k) = RecentIn(limits, k)
    BY <1>2, <1>3, <2>1, WithKeeps
  <2>3. LimitsAfter(c) = With(c, r)
    BY <1>1, <1>5 DEF LimitsAfter
  <2>4. Len(r) = Limit
    BY <1>1, <1>3, <1>5, PConsts DEF Admits
  <2> QED BY <1>0, <1>1, <1>5, <2>2, <2>3, <2>4
<1> QED BY <1>4, <1>5

-----------------------------------------------------------------------------
(* Numbers *)

LEMMA DivNat ==
  ASSUME NEW d \in Nat, d > 0, NEW a \in Nat
  PROVE  a \div d \in Nat
  OBVIOUS

LEMMA DivGrows ==
  ASSUME NEW d \in Nat, d > 0, NEW a \in Nat, NEW b \in Nat, a <= b
  PROVE  a \div d <= b \div d
  OBVIOUS

LEMMA ProductNat ==
  ASSUME NEW a \in Nat, NEW b \in Nat
  PROVE  a * b \in Nat
  OBVIOUS

\* The effort is within the limits, and none exactly below the threshold.
LEMMA EffortShape ==
  ASSUME NEW rate \in Nat
  PROVE  /\ Effort(rate) \in {0} \cup MinEffort..MaxEffort
         /\ Effort(rate) = 0 <=> rate < Threshold
<1>1. CASE rate < Threshold
  BY <1>1 DEF Effort
<1>2. CASE ~(rate < Threshold)
  <2>1. rate - Threshold \in Nat /\ MaxEffort - MinEffort \in Nat
    BY <1>2, PConsts
  <2>2. PICK x \in Nat : x = ((rate - Threshold) * (MaxEffort - MinEffort))
    BY <2>1, ProductNat
  <2>3. PICK y \in Nat : y = x \div LoadSpan
    BY DivNat, PConsts
  <2>4. PICK scaled \in Nat : scaled = MinEffort + y
    BY PConsts
  <2>5. Effort(rate) = IF scaled < MaxEffort THEN scaled ELSE MaxEffort
    BY <1>2, <2>2, <2>3, <2>4 DEF Effort
  <2>6. scaled >= MinEffort
    BY <2>4, PConsts
  <2>7. Effort(rate) \in MinEffort..MaxEffort
    BY <2>5, <2>6, PConsts
  <2>8. 0 \notin MinEffort..MaxEffort
    BY PConsts
  <2> QED BY <1>2, <2>7, <2>8
<1> QED BY <1>1, <1>2

\* The bucket of a later time is not an earlier one.
LEMMA BucketNat ==
  ASSUME now \in Nat
  PROVE  Bucket \in Nat
BY DivNat, PConsts DEF Bucket

-----------------------------------------------------------------------------
(* The inductive invariant *)

Ask == [node : 0..MaxRestarts, bucket : Nat, effort : MinEffort..MaxEffort]

Typed ==
  /\ now \in Time /\ nodeId \in 0..MaxRestarts
  /\ recomputed \in Time \cup {-RecomputeEvery}
  /\ difficulty \in {0} \cup MinEffort..MaxEffort
  /\ cache \in [Client -> Seq(Proof)]
  /\ ask \in [Client -> Ask \cup {NoAsk}]
  /\ reply \in [Client -> {"none", "ok", "limited", "challenge", "refused"}]

Older(requests, time) == {i \in 1..Len(requests) : requests[i] < time}

\* The difficulty is that of the requests recorded, but for those of the last
\* few seconds; no request older than a window before it is kept.
Loaded(requests, time, effort) ==
  /\ Stamped(requests, now) /\ time <= now
  /\ \A i \in 1..Len(requests) : time - LoadWindow <= requests[i]
  /\ effort # 0 => Len(requests) >= Threshold
  /\ effort = 0 => Cardinality(Older(requests, time)) < Threshold
LoadOK == Loaded(load, recomputed, difficulty)

LimitsOK == Known(limits)

\* No challenge is of a bucket yet to come.
AsksOK == \A c \in Client : ask[c] # NoAsk => ask[c].bucket <= Bucket

HInv == Typed /\ LoadOK /\ LimitsOK /\ AsksOK

\* Time is a number.
LEMMA TimeNat ==
  ASSUME Typed
  PROVE  now \in Nat /\ recomputed \in Int
BY PConsts DEF Typed, Time

\* A request in the last place is not an older one.
LEMMA LoadedAppend ==
  ASSUME now \in Nat, NEW s, NEW time \in Int, NEW effort, Loaded(s, time, effort)
  PROVE  /\ Loaded(Append(s, now), time, effort)
         /\ Older(Append(s, now), time) = Older(s, time)
         /\ Len(s) \in Nat /\ Len(Append(s, now)) = Len(s) + 1
<1> PICK a : a = Append(s, now)
  OBVIOUS
<1>0. PICK L \in Nat : L = Len(s)
  BY LenProperties DEF Loaded, Stamped
<1>1. /\ Stamped(a, now) /\ Len(a) = L + 1 /\ a[L + 1] = now
      /\ \A i \in 1..L : a[i] = s[i]
  BY <1>0, StampedAppend DEF Loaded
<1>2. time <= now
  BY DEF Loaded
<1>3. ASSUME NEW i \in 1..(L + 1) PROVE time - LoadWindow <= a[i]
  <2>1. CASE i = L + 1
    BY <1>1, <1>2, <2>1, PConsts
  <2>2. CASE i # L + 1
    <3>1. i \in 1..L
      BY <2>2
    <3> QED BY <1>0, <1>1, <3>1 DEF Loaded
  <2> QED BY <2>1, <2>2
<1>4. Older(a, time) = Older(s, time)
  <2>1. ASSUME NEW i \in Older(a, time) PROVE i \in Older(s, time)
    <3>1. i \in 1..(L + 1) /\ a[i] < time
      BY <1>1 DEF Older
    <3>2. i # L + 1
      BY <1>1, <1>2, <3>1
    <3>3. i \in 1..L
      BY <3>1, <3>2
    <3> QED BY <1>0, <1>1, <3>1, <3>3 DEF Older
  <2>2. ASSUME NEW i \in Older(s, time) PROVE i \in Older(a, time)
    <3>1. i \in 1..L /\ s[i] < time
      BY <1>0 DEF Older
    <3>2. i \in 1..(L + 1)
      BY <3>1
    <3> QED BY <1>1, <3>1, <3>2 DEF Older
  <2> QED BY <2>1, <2>2
<1>5. effort # 0 => Len(a) >= Threshold
  BY <1>0, <1>1, PConsts DEF Loaded
<1> QED BY <1>0, <1>1, <1>2, <1>3, <1>4, <1>5 DEF Loaded

\* After a recomputation.
LEMMA LoadedAnew ==
  ASSUME now \in Nat, NEW s, Stamped(s, now),
         \A i \in 1..Len(s) : now - LoadWindow <= s[i]
  PROVE  /\ Loaded(s, now, Effort(Len(s))) /\ Len(s) \in Nat
         /\ Effort(Len(s)) \in {0} \cup MinEffort..MaxEffort
<1>0. PICK L \in Nat : L = Len(s)
  BY LenProperties DEF Stamped
<1>1. Effort(L) \in {0} \cup MinEffort..MaxEffort /\ (Effort(L) = 0 <=> L < Threshold)
  BY EffortShape
<1>2. Effort(L) # 0 => L >= Threshold
  BY <1>1, PConsts
<1>3. Older(s, now) \in SUBSET (1..L)
  BY <1>0 DEF Older
<1>4. Cardinality(Older(s, now)) \in Nat /\ Cardinality(Older(s, now)) <= L
  BY <1>3, IndexCount
<1>5. Effort(L) = 0 => Cardinality(Older(s, now)) < Threshold
  BY <1>1, <1>4, PConsts
<1> QED BY <1>0, <1>1, <1>2, <1>5 DEF Loaded

\* Recording a request, with or without a recomputation.
LEMMA AssessStep ==
  ASSUME Typed, LoadOK, AssessLoad
  PROVE  /\ Loaded(load', recomputed', difficulty')
         /\ recomputed' \in Time \cup {-RecomputeEvery}
         /\ difficulty' \in {0} \cup MinEffort..MaxEffort
         /\ recomputed' >= now - RecomputeEvery + 1
<1>0. now \in Nat /\ recomputed \in Int /\ now \in Time
  BY TimeNat DEF Typed
<1>1. Loaded(Recorded, recomputed, difficulty)
  BY <1>0, LoadedAppend DEF LoadOK, Recorded
<1>2. CASE NotDue
  <2>1. load' = Recorded /\ recomputed' = recomputed /\ difficulty' = difficulty
    BY <1>2 DEF AssessLoad
  <2>2. recomputed >= now - RecomputeEvery + 1
    BY <1>0, <1>2, PConsts DEF NotDue
  <2> QED BY <1>1, <2>1, <2>2 DEF Typed
<1>3. CASE ~NotDue
  <2>1. load' = Pruned(Recorded) /\ recomputed' = now /\ difficulty' = Effort(Len(load'))
    BY <1>3 DEF AssessLoad
  <2>2. PICK r : r = Recorded
    OBVIOUS
  <2>3. Stamped(r, now)
    BY <1>1, <2>2 DEF Loaded
  <2>4. PICK cutoff \in Int : cutoff = now - LoadWindow
    BY <1>0, PConsts
  <2>5. PICK s : s = Since(r, cutoff)
    OBVIOUS
  <2>6. Stamped(s, now) /\ \A i \in 1..Len(s) : s[i] >= cutoff
    BY <1>0, <2>3, <2>5, StampedSince
  <2>7. Len(s) \in Nat /\ \A i \in 1..Len(s) : s[i] \in Int
    BY <2>6, LenProperties, ElementOfSeq DEF Stamped
  <2>8. \A i \in 1..Len(s) : now - LoadWindow <= s[i]
    BY <2>4, <2>6, <2>7
  <2>9. load' = s
    BY <2>1, <2>2, <2>4, <2>5 DEF Pruned
  <2>10. Loaded(s, now, Effort(Len(s))) /\ Effort(Len(s)) \in {0} \cup MinEffort..MaxEffort
    BY <1>0, <2>6, <2>8, LoadedAnew
  <2>11. now >= now - RecomputeEvery + 1
    BY <1>0, PConsts
  <2> QED BY <1>0, <2>1, <2>9, <2>10, <2>11
<1> QED BY <1>2, <1>3

-----------------------------------------------------------------------------
(* Steps *)

\* The list of a client's proofs stays one.
LEMMA CachePutShape ==
  ASSUME NEW S, NEW proofs \in Seq(S), NEW p \in S
  PROVE  CachePut(proofs, p) \in Seq(S)
<1> DEFINE same(q) == q.node = p.node /\ q.bucket = p.bucket
           updated == [i \in DOMAIN proofs |-> IF same(proofs[i]) THEN p ELSE proofs[i]]
           all == IF \E i \in DOMAIN proofs : same(proofs[i]) THEN updated ELSE Append(proofs, p)
           fresh == {i \in DOMAIN all : all[i].bucket >= p.bucket - 1}
<1>1. CachePut(proofs, p) = LastOf(all, Cardinality(fresh))
  BY DEF CachePut
<1>2. all \in Seq(S)
  <2>1. Append(proofs, p) \in Seq(S)
    BY AppendProperties
  <2>2. updated \in Seq(S)
    <3>1. PICK L \in Nat : L = Len(proofs) /\ DOMAIN proofs = 1..L
      BY LenProperties
    <3>2. \A i \in 1..L : proofs[i] \in S
      BY <3>1, ElementOfSeq
    <3>3. updated \in [1..L -> S]
      BY <3>1, <3>2
    <3> HIDE DEF updated
    <3> QED BY <3>3, SeqDef
  <2> QED BY <2>1, <2>2
<1> HIDE DEF all
<1>3. PICK L \in Nat : L = Len(all) /\ DOMAIN all = 1..L
  BY <1>2, LenProperties
<1>4. fresh \in SUBSET (1..L)
  BY <1>3
<1> HIDE DEF fresh
<1>5. Cardinality(fresh) \in Nat /\ Cardinality(fresh) <= Len(all)
  BY <1>3, <1>4, IndexCount
<1> QED BY <1>1, <1>2, <1>5, LastOfShape

\* What a request does to the server.
LEMMA HandleStep ==
  ASSUME HInv, NEW c \in Client, NEW free, NEW p,
         NEW denial \in {"ok", "challenge", "refused"}, Handle(c, free, p, denial)
  PROVE  /\ now' = now /\ nodeId' = nodeId /\ limits' = LimitsAfter(c)
         /\ LoadOK' /\ LimitsOK'
         /\ recomputed' \in Time \cup {-RecomputeEvery}
         /\ difficulty' \in {0} \cup MinEffort..MaxEffort
         /\ reply' \in [Client -> {"none", "ok", "limited", "challenge", "refused"}]
         /\ \A k \in Client : k # c => reply'[k] = reply[k]
         /\ ~Admits(c) => reply'[c] = "limited"
         /\ Admits(c) => AssessLoad
         /\ Admits(c) /\ (free \/ Passes(p, difficulty')) => reply'[c] = "ok"
         /\ Admits(c) /\ ~(free \/ Passes(p, difficulty')) => reply'[c] = denial
<1>1. now' = now /\ nodeId' = nodeId /\ limits' = LimitsAfter(c)
  BY DEF Handle
<1>2. now \in Nat /\ recomputed \in Int
  BY TimeNat DEF HInv
<1>3. reply \in [Client -> {"none", "ok", "limited", "challenge", "refused"}]
  BY DEF HInv, Typed
<1>4. LimitsOK'
  <2>1. Known(LimitsAfter(c))
    BY <1>2, LimitsStep DEF HInv, LimitsOK
  <2> QED BY <1>1, <2>1 DEF LimitsOK, Known
<1>5. CASE Admits(c)
  <2>1. AssessLoad
    BY <1>5 DEF Handle
  <2>2. /\ Loaded(load', recomputed', difficulty')
        /\ recomputed' \in Time \cup {-RecomputeEvery}
        /\ difficulty' \in {0} \cup MinEffort..MaxEffort
    BY <2>1, AssessStep DEF HInv
  <2>3. LoadOK'
    BY <1>1, <2>2 DEF LoadOK, Loaded
  <2>4. PICK e \in {"ok", "challenge", "refused"} :
          /\ reply' = [reply EXCEPT ![c] = e]
          /\ (free \/ Passes(p, difficulty')) => e = "ok"
          /\ ~(free \/ Passes(p, difficulty')) => e = denial
    <3>1. CASE free \/ Passes(p, difficulty')
      BY <1>5, <3>1 DEF Handle
    <3>2. CASE ~(free \/ Passes(p, difficulty'))
      BY <1>5, <3>2 DEF Handle
    <3> QED BY <3>1, <3>2
  <2>5. /\ reply' \in [Client -> {"none", "ok", "limited", "challenge", "refused"}]
        /\ reply'[c] = e /\ \A k \in Client : k # c => reply'[k] = reply[k]
    BY <1>3, <2>4
  <2> QED BY <1>1, <1>4, <1>5, <2>1, <2>2, <2>3, <2>4, <2>5
<1>6. CASE ~Admits(c)
  <2>1. /\ load' = Recorded /\ recomputed' = recomputed /\ difficulty' = difficulty
        /\ reply' = [reply EXCEPT ![c] = "limited"]
    BY <1>6 DEF Handle
  <2>2. Loaded(Recorded, recomputed, difficulty)
    BY <1>2, LoadedAppend DEF HInv, LoadOK, Recorded
  <2>3. LoadOK'
    BY <1>1, <2>1, <2>2 DEF LoadOK, Loaded
  <2>4. /\ reply' \in [Client -> {"none", "ok", "limited", "challenge", "refused"}]
        /\ reply'[c] = "limited" /\ \A k \in Client : k # c => reply'[k] = reply[k]
    BY <1>3, <2>1
  <2> QED BY <1>1, <1>4, <1>6, <2>1, <2>3, <2>4 DEF HInv, Typed
<1> QED BY <1>5, <1>6

\* Whoever is turned away at some effort was asked for one.
LEMMA DeniedEffort ==
  ASSUME HInv, NEW c \in Client, NEW p,
         NEW denial \in {"challenge", "refused"}, Handle(c, FALSE, p, denial),
         reply'[c] = denial
  PROVE  AssessLoad /\ ~Passes(p, difficulty') /\ difficulty' \in MinEffort..MaxEffort
<1>1. Admits(c)
  BY HandleStep
<1>2. ~Passes(p, difficulty')
  BY <1>1, HandleStep
<1>3. AssessLoad /\ difficulty' \in {0} \cup MinEffort..MaxEffort
  BY <1>1, HandleStep
<1> QED BY <1>2, <1>3 DEF Passes

\* The invariant holds initially.
LEMMA HInit ==
  ASSUME Init
  PROVE  HInv
<1>1. Typed
  <2>1. 0 \in Time /\ 0 \in 0..MaxRestarts
    BY PConsts DEF Time
  <2>2. <<>> \in Seq(Proof)
    BY EmptySeq
  <2> QED BY <2>1, <2>2 DEF Init, Typed
<1>2. LoadOK
  <2>1. Stamped(<<>>, 0) /\ Len(<<>>) = 0 /\ 1..0 = {}
    BY NoStamps
  <2>2. -RecomputeEvery <= 0
    BY PConsts
  <2>3. Cardinality(Older(<<>>, -RecomputeEvery)) < Threshold
    <3>1. Older(<<>>, -RecomputeEvery) = {}
      BY <2>1 DEF Older
    <3> QED BY <3>1, FS_EmptySet, PConsts
  <2> QED BY <2>1, <2>2, <2>3 DEF Init, LoadOK, Loaded
<1>3. LimitsOK
  <2>1. DOMAIN <<>> = {}
    BY EmptySeq, LenProperties
  <2> QED BY <2>1 DEF Init, LimitsOK, Known
<1>4. AsksOK
  BY DEF Init, AsksOK
<1> QED BY <1>1, <1>2, <1>3, <1>4 DEF HInv

\* A client's new challenge, if any, is of the present bucket.
LEMMA ProbeStep ==
  ASSUME HInv, NEW c \in Client, Probe(c)
  PROVE  HInv'
<1>1. Handle(c, TRUE, NoProof, "ok") /\ cache' = cache /\ ask' = ask
  BY DEF Probe
<1>2. /\ now' = now /\ nodeId' = nodeId /\ LoadOK' /\ LimitsOK'
      /\ recomputed' \in Time \cup {-RecomputeEvery}
      /\ difficulty' \in {0} \cup MinEffort..MaxEffort
      /\ reply' \in [Client -> {"none", "ok", "limited", "challenge", "refused"}]
  BY <1>1, HandleStep
<1>3. Typed'
  BY <1>1, <1>2 DEF HInv, Typed
<1>4. AsksOK'
  BY <1>1, <1>2 DEF HInv, AsksOK, Bucket
<1> QED BY <1>2, <1>3, <1>4 DEF HInv

LEMMA RequestStep ==
  ASSUME HInv, NEW c \in Client, Request(c)
  PROVE  HInv'
<1>1. /\ Handle(c, FALSE, FirstCached(c), "challenge") /\ cache' = cache
      /\ ask' = [ask EXCEPT ![c] =
                   IF reply'[c] = "challenge" /\ difficulty' <= MaxEffort
                   THEN [node |-> nodeId, bucket |-> Bucket, effort |-> difficulty'] ELSE NoAsk]
  BY DEF Request
<1>2. /\ now' = now /\ nodeId' = nodeId /\ LoadOK' /\ LimitsOK'
      /\ recomputed' \in Time \cup {-RecomputeEvery}
      /\ difficulty' \in {0} \cup MinEffort..MaxEffort
      /\ reply' \in [Client -> {"none", "ok", "limited", "challenge", "refused"}]
  BY <1>1, HandleStep
<1>3. Bucket \in Nat /\ Bucket' = Bucket /\ nodeId \in 0..MaxRestarts
  BY <1>2, TimeNat, BucketNat DEF HInv, Typed, Bucket
<1>4. PICK a : /\ ask' = [ask EXCEPT ![c] = a]
               /\ a = NoAsk \/ (a \in Ask /\ a.bucket = Bucket)
  <2>1. CASE reply'[c] = "challenge" /\ difficulty' <= MaxEffort
    <3>1. difficulty' \in MinEffort..MaxEffort
      BY <1>1, <2>1, DeniedEffort
    <3>2. PICK d \in MinEffort..MaxEffort : d = difficulty'
      BY <3>1
    <3>3. PICK r : r = [node |-> nodeId, bucket |-> Bucket, effort |-> d]
      OBVIOUS
    <3>4. ask' = [ask EXCEPT ![c] = r]
      BY <1>1, <2>1, <3>2, <3>3
    <3>5. r \in Ask /\ r.bucket = Bucket
      BY <1>3, <3>3 DEF Ask
    <3> QED BY <3>4, <3>5
  <2>2. CASE ~(reply'[c] = "challenge" /\ difficulty' <= MaxEffort)
    BY <1>1, <2>2
  <2> QED BY <2>1, <2>2
<1>5. ask \in [Client -> Ask \cup {NoAsk}]
  BY DEF HInv, Typed
<1>6. Typed'
  BY <1>1, <1>2, <1>4, <1>5 DEF HInv, Typed
<1>7. AsksOK'
  BY <1>3, <1>4, <1>5 DEF HInv, AsksOK
<1> QED BY <1>2, <1>6, <1>7 DEF HInv

\* The proof a client makes.
LEMMA SolutionShape ==
  ASSUME HInv, NEW c \in Client, ask[c] # NoAsk, NEW strength \in ask[c].effort..MaxEffort
  PROVE  /\ ask[c] \in Ask /\ Solution(ask[c], strength) \in Proof
         /\ Solution(ask[c], strength) # NoProof
         /\ strength \in MinEffort..MaxEffort /\ strength >= ask[c].effort
<1>1. ask[c] \in Ask
  BY DEF HInv, Typed
<1>2. PICK a \in Ask : a = ask[c]
  BY <1>1
<1>3. /\ a.node \in 0..MaxRestarts /\ a.bucket \in Nat /\ a.effort \in MinEffort..MaxEffort
  BY DEF Ask
<1>4. strength \in MinEffort..MaxEffort /\ strength >= a.effort
  BY <1>2, <1>3, PConsts
<1>5. Solution(a, strength) \in Proof
  BY <1>3, <1>4 DEF Solution, Proof
<1>6. strength \in Nat /\ a.node \in Nat
  BY <1>3, <1>4, PConsts
<1>7. Solution(a, strength) \in [node : Nat, bucket : Nat, strength : Nat]
  BY <1>3, <1>6 DEF Solution
<1>8. Solution(a, strength) # NoProof
  BY <1>7, ProofAssumption
<1> QED BY <1>2, <1>4, <1>5, <1>8

LEMMA RetryStep ==
  ASSUME HInv, NEW c \in Client, Retry(c)
  PROVE  HInv'
<1>1. PICK strength \in ask[c].effort..MaxEffort :
        /\ cache' = [cache EXCEPT ![c] = CachePut(@, Solution(ask[c], strength))]
        /\ Handle(c, FALSE, Solution(ask[c], strength), "refused")
  BY DEF Retry
<1>2. ask[c] # NoAsk /\ ask' = [ask EXCEPT ![c] = NoAsk]
  BY DEF Retry
<1>3. Solution(ask[c], strength) \in Proof
  BY <1>2, SolutionShape
<1>4. /\ now' = now /\ nodeId' = nodeId /\ LoadOK' /\ LimitsOK'
      /\ recomputed' \in Time \cup {-RecomputeEvery}
      /\ difficulty' \in {0} \cup MinEffort..MaxEffort
      /\ reply' \in [Client -> {"none", "ok", "limited", "challenge", "refused"}]
  BY <1>1, HandleStep
<1>5. cache' \in [Client -> Seq(Proof)]
  <2>1. cache \in [Client -> Seq(Proof)]
    BY DEF HInv, Typed
  <2>2. PICK q : q = CachePut(cache[c], Solution(ask[c], strength))
    OBVIOUS
  <2>3. q \in Seq(Proof)
    BY <1>3, <2>1, <2>2, CachePutShape
  <2>4. cache' = [cache EXCEPT ![c] = q]
    BY <1>1, <2>2
  <2> QED BY <2>1, <2>3, <2>4
<1>6. ask \in [Client -> Ask \cup {NoAsk}]
  BY DEF HInv, Typed
<1>7. Typed'
  BY <1>2, <1>4, <1>5, <1>6 DEF HInv, Typed
<1>8. AsksOK'
  BY <1>2, <1>4, <1>6 DEF HInv, AsksOK, Bucket
<1> QED BY <1>4, <1>7, <1>8 DEF HInv

LEMMA RestartStep ==
  ASSUME HInv, Restart
  PROVE  HInv'
<1>1. /\ nodeId < MaxRestarts /\ nodeId' = nodeId + 1
      /\ load' = <<>> /\ recomputed' = -RecomputeEvery /\ difficulty' = 0
      /\ limits' = <<>> /\ now' = now /\ cache' = cache /\ ask' = ask /\ reply' = reply
  BY DEF Restart
<1>2. now \in Nat
  BY TimeNat DEF HInv
<1>3. Typed'
  <2>1. nodeId' \in 0..MaxRestarts
    BY <1>1, PConsts DEF HInv, Typed
  <2> QED BY <1>1, <2>1 DEF HInv, Typed
<1>4. LoadOK'
  <2>1. Stamped(<<>>, now) /\ Len(<<>>) = 0 /\ 1..0 = {}
    BY <1>2, NoStamps
  <2>2. -RecomputeEvery <= now
    BY <1>2, PConsts
  <2>3. Cardinality(Older(<<>>, -RecomputeEvery)) < Threshold
    <3>1. Older(<<>>, -RecomputeEvery) = {}
      BY <2>1 DEF Older
    <3> QED BY <3>1, FS_EmptySet, PConsts
  <2>4. Loaded(<<>>, -RecomputeEvery, 0)
    BY <2>1, <2>2, <2>3 DEF Loaded
  <2> QED BY <1>1, <2>4 DEF LoadOK, Loaded
<1>5. LimitsOK'
  <2>1. DOMAIN <<>> = {}
    BY EmptySeq, LenProperties
  <2> QED BY <1>1, <2>1 DEF LimitsOK, Known
<1>6. AsksOK'
  BY <1>1 DEF HInv, AsksOK, Bucket
<1> QED BY <1>3, <1>4, <1>5, <1>6 DEF HInv

\* Stamps stay in the past and buckets only grow.
LEMMA TickStep ==
  ASSUME HInv, Tick
  PROVE  HInv'
<1>1. /\ now < MaxTime /\ now' = now + 1 /\ nodeId' = nodeId /\ load' = load
      /\ recomputed' = recomputed /\ difficulty' = difficulty /\ limits' = limits
      /\ cache' = cache /\ ask' = ask /\ reply' = reply
  BY DEF Tick, server
<1>2. now \in Nat /\ recomputed \in Int
  BY TimeNat DEF HInv
<1>3. now' \in Nat /\ now <= now' /\ now' \in Time
  BY <1>1, <1>2, PConsts DEF Time
<1>4. Typed'
  BY <1>1, <1>3 DEF HInv, Typed
<1>5. LoadOK'
  <2>1. Loaded(load, recomputed, difficulty)
    BY DEF HInv, LoadOK
  <2>2. Stamped(load, now')
    BY <1>2, <1>3, <2>1, StampedLater DEF Loaded
  <2>3. recomputed <= now'
    BY <1>2, <1>3, <2>1 DEF Loaded
  <2> QED BY <1>1, <2>1, <2>2, <2>3 DEF LoadOK, Loaded
<1>6. LimitsOK'
  <2>1. ASSUME NEW k \in DOMAIN limits
        PROVE  Stamped(limits[k], now') /\ Len(limits[k]) <= Limit
    <3>1. Stamped(limits[k], now) /\ Len(limits[k]) <= Limit
      BY DEF HInv, LimitsOK, Known
    <3>2. PICK s : s = limits[k]
      OBVIOUS
    <3>3. Stamped(s, now')
      BY <1>2, <1>3, <3>1, <3>2, StampedLater
    <3> QED BY <3>1, <3>2, <3>3
  <2> QED BY <1>1, <2>1 DEF HInv, LimitsOK, Known
<1>7. AsksOK'
  <2>1. Bucket \in Nat /\ Bucket' \in Nat /\ Bucket <= Bucket'
    BY <1>2, <1>3, DivNat, DivGrows, PConsts DEF Bucket
  <2>2. ASSUME NEW c \in Client, ask[c] # NoAsk PROVE ask[c].bucket <= Bucket'
    <3>1. ask[c].bucket <= Bucket
      BY <2>2 DEF HInv, AsksOK
    <3>2. ask[c] \in Ask
      BY <2>2 DEF HInv, Typed
    <3>3. ask[c].bucket \in Nat
      BY <3>2 DEF Ask
    <3> QED BY <2>1, <3>1, <3>3
  <2> QED BY <1>1, <2>2 DEF AsksOK
<1> QED BY <1>4, <1>5, <1>6, <1>7 DEF HInv

LEMMA HNext ==
  ASSUME HInv, [Next]_vars
  PROVE  HInv'
<1>1. CASE UNCHANGED vars
  BY <1>1 DEF vars, server, HInv, Typed, LoadOK, Loaded, LimitsOK, Known, AsksOK, Bucket
<1>2. CASE Next
  BY <1>2, ProbeStep, RequestStep, RetryStep, RestartStep, TickStep DEF Next
<1> QED BY <1>1, <1>2

LEMMA HAlways == Spec => []HInv
<1>1. Init => HInv
  BY HInit
<1>2. HInv /\ [Next]_vars => HInv'
  BY HNext
<1> QED BY <1>1, <1>2, PTL DEF Spec

\* Every variable keeps its type; the effort the server asks for is none or
\* within the limits a client accepts, and so is every effort a client works at.
THEOREM TypeCorrect == Spec => []TypeOK
<1>1. HInv => TypeOK
  <2> SUFFICES ASSUME HInv PROVE TypeOK
    OBVIOUS
  <2>1. now \in Time
    BY DEF HInv, Typed
  <2>2. load \in Seq(Time)
    BY <2>1, StampedTime DEF HInv, LoadOK, Loaded
  <2>3. DOMAIN limits \subseteq Client /\ \A c \in DOMAIN limits : limits[c] \in Seq(Time)
    BY <2>1, StampedTime DEF HInv, LimitsOK, Known
  <2>4. \A c \in Client : cache[c] \in Seq(Proof)
    BY DEF HInv, Typed
  <2>5. \A c \in Client : ask[c] = NoAsk \/
          (ask[c].node \in 0..MaxRestarts /\ ask[c].bucket \in Nat
           /\ ask[c].effort \in MinEffort..MaxEffort)
    <3>1. \A a \in Ask : /\ a.node \in 0..MaxRestarts /\ a.bucket \in Nat
                         /\ a.effort \in MinEffort..MaxEffort
      BY DEF Ask
    <3>2. \A c \in Client : ask[c] = NoAsk \/ ask[c] \in Ask
      BY DEF HInv, Typed
    <3> QED BY <3>1, <3>2
  <2> QED BY <2>2, <2>3, <2>4, <2>5 DEF HInv, Typed, TypeOK
<1> QED BY <1>1, HAlways, PTL

-----------------------------------------------------------------------------
(* What is asked for and honoured *)

\* The requests of a time that all recorded ones are of.
LEMMA Counted ==
  ASSUME NEW requests \in Seq(Int), NEW from \in Int, NEW to \in Int,
         \A i \in 1..Len(requests) : requests[i] \in from..to
  PROVE  Cardinality({i \in DOMAIN requests : requests[i] \in from..to}) = Len(requests)
<1> PICK L \in Nat : L = Len(requests) /\ DOMAIN requests = 1..L
  BY LenProperties
<1>1. {i \in DOMAIN requests : requests[i] \in from..to} = 1..L
  OBVIOUS
<1>2. \A n \in Nat : Cardinality(1..n) = n
  BY FS_Interval
<1>3. Cardinality(1..L) = L
  BY <1>2
<1> QED BY <1>1, <1>3

\* Asked for work is only whom the server's load gives cause to: within the load
\* window and the few seconds by which current_difficulty lags.
LEMMA QuietStep ==
  ASSUME HInv, NEW c \in Client, Request(c), reply'[c] = "challenge"
  PROVE  Requests(now - LoadWindow - RecomputeEvery + 1, now)' >= Threshold
<1>1. Handle(c, FALSE, FirstCached(c), "challenge")
  BY DEF Request
<1>2. AssessLoad /\ difficulty' \in MinEffort..MaxEffort
  BY <1>1, DeniedEffort
<1>3. now' = now /\ now \in Nat
  BY <1>1, HandleStep, TimeNat DEF HInv
<1>4. /\ Loaded(load', recomputed', difficulty') /\ recomputed' >= now - RecomputeEvery + 1
      /\ recomputed' \in Time \cup {-RecomputeEvery}
  BY <1>2, AssessStep DEF HInv
<1>5. recomputed' \in Int /\ difficulty' # 0
  BY <1>2, <1>4, PConsts DEF Time
<1> PICK s : s = load'
  OBVIOUS
<1>6. /\ s \in Seq(Int) /\ \A i \in 1..Len(s) : s[i] <= now /\ recomputed' - LoadWindow <= s[i]
      /\ Len(s) >= Threshold
  BY <1>4, <1>5 DEF Loaded, Stamped
<1> PICK L \in Nat : L = Len(s)
  BY <1>6, LenProperties
<1>7. PICK from \in Int : from = now - LoadWindow - RecomputeEvery + 1
  BY <1>3, PConsts
<1>8. ASSUME NEW i \in 1..L PROVE s[i] \in from..now
  <2>1. s[i] \in Int /\ s[i] <= now /\ recomputed' - LoadWindow <= s[i]
    BY <1>6, ElementOfSeq
  <2> QED BY <1>3, <1>4, <1>5, <1>7, <2>1, PConsts
<1>9. Cardinality({i \in DOMAIN s : s[i] \in from..now}) = L
  <2>1. now \in Int /\ \A i \in 1..Len(s) : s[i] \in from..now
    BY <1>3, <1>8
  <2> QED BY <1>6, <2>1, Counted
<1>10. Requests(now - LoadWindow - RecomputeEvery + 1, now)'
         = Cardinality({i \in DOMAIN s : s[i] \in from..now})
  BY <1>3, <1>7 DEF Requests
<1> QED BY <1>6, <1>9, <1>10

\* Let through without a proof is only who comes before a load over the
\* threshold has lasted longer than that lag.
LEMMA FloodStep ==
  ASSUME HInv, NEW c \in Client, Request(c), reply'[c] = "ok", FirstCached(c) = NoProof
  PROVE  Requests(now - LoadWindow, now - RecomputeEvery)' < Threshold
<1>1. Handle(c, FALSE, FirstCached(c), "challenge")
  BY DEF Request
<1>2. Admits(c)
  BY <1>1, HandleStep
<1>3. AssessLoad /\ Passes(FirstCached(c), difficulty')
  BY <1>1, <1>2, HandleStep
<1>4. difficulty' = 0
  BY <1>3 DEF Passes
<1>5. now' = now /\ now \in Nat
  BY <1>1, HandleStep, TimeNat DEF HInv
<1>6. /\ Loaded(load', recomputed', difficulty') /\ recomputed' >= now - RecomputeEvery + 1
      /\ recomputed' \in Time \cup {-RecomputeEvery}
  BY <1>3, AssessStep DEF HInv
<1>7. recomputed' \in Int
  BY <1>6, PConsts DEF Time
<1> PICK s : s = load'
  OBVIOUS
<1>8. s \in Seq(Int) /\ Cardinality(Older(s, recomputed')) < Threshold
  BY <1>4, <1>6 DEF Loaded, Stamped
<1> PICK L \in Nat : L = Len(s)
  BY <1>8, LenProperties
<1>9. PICK from \in Int, to \in Int : from = now - LoadWindow /\ to = now - RecomputeEvery
  BY <1>5, PConsts
<1> DEFINE U == {i \in DOMAIN s : s[i] \in from..to}
<1>10. U \in SUBSET Older(s, recomputed')
  <2>1. ASSUME NEW i \in U PROVE i \in Older(s, recomputed')
    <3>1. i \in 1..L /\ s[i] \in from..to
      BY <1>8, LenProperties
    <3>2. s[i] < recomputed'
      BY <1>5, <1>6, <1>7, <1>9, <3>1, PConsts
    <3> QED BY <3>1, <3>2 DEF Older
  <2> QED BY <2>1
<1>11. Requests(now - LoadWindow, now - RecomputeEvery)' = Cardinality(U)
  BY <1>5, <1>9 DEF Requests
<1> HIDE DEF U
<1>12. Older(s, recomputed') \in SUBSET (1..L)
  BY DEF Older
<1>13. IsFiniteSet(Older(s, recomputed')) /\ Cardinality(Older(s, recomputed')) \in Nat
  BY <1>12, IndexCount
<1>14. IsFiniteSet(U) /\ Cardinality(U) <= Cardinality(Older(s, recomputed'))
  BY <1>10, <1>13, FS_Subset
<1>15. Cardinality(U) \in Nat
  BY <1>14, FS_CardinalityType
<1> QED BY <1>8, <1>11, <1>13, <1>14, <1>15, PConsts

\* Work done for this server, effort and time is not refused.
LEMMA WorkStep ==
  ASSUME HInv, NEW c \in Client, Retry(c), reply'[c] = "refused"
  PROVE  \/ nodeId # ask[c].node
         \/ difficulty' > ask[c].effort
         \/ Bucket > ask[c].bucket + 1
<1>1. PICK strength \in ask[c].effort..MaxEffort :
        Handle(c, FALSE, Solution(ask[c], strength), "refused")
  BY DEF Retry
<1>2. ask[c] # NoAsk
  BY DEF Retry
<1>3. /\ ask[c] \in Ask /\ Solution(ask[c], strength) # NoProof
      /\ strength \in MinEffort..MaxEffort /\ strength >= ask[c].effort
  BY <1>2, SolutionShape
<1>4. ~Passes(Solution(ask[c], strength), difficulty') /\ difficulty' \in MinEffort..MaxEffort
  BY <1>1, DeniedEffort
<1>5. ~Valid(Solution(ask[c], strength), difficulty')
  BY <1>3, <1>4 DEF Passes
<1>6. \/ ask[c].node # nodeId
      \/ ask[c].bucket \notin {Bucket, Bucket - 1}
      \/ ~(strength >= difficulty')
  BY <1>5 DEF Valid, Solution
<1>7. ask[c].bucket \in Nat /\ ask[c].effort \in Nat /\ ask[c].bucket <= Bucket
  <2>1. PICK a \in Ask : a = ask[c]
    BY <1>3
  <2>2. a.bucket \in Nat /\ a.effort \in MinEffort..MaxEffort
    BY DEF Ask
  <2> QED BY <1>2, <2>1, <2>2, PConsts DEF HInv, AsksOK
<1>8. Bucket \in Nat
  BY TimeNat, BucketNat DEF HInv
<1>9. CASE ask[c].bucket \notin {Bucket, Bucket - 1}
  BY <1>7, <1>8, <1>9
<1>10. CASE ~(strength >= difficulty')
  BY <1>3, <1>4, <1>7, <1>10, PConsts
<1> QED BY <1>6, <1>9, <1>10

\* A client is asked for work only when the requests of the last load window,
\* and of the seconds by which current_difficulty lags, reach the threshold.
THEOREM QuietPeersWorkFree == Spec => QuietIsFree
<1>1. HInv /\ [Next]_vars =>
        [\A c \in Client : Request(c) /\ reply'[c] = "challenge"
           => Requests(now - LoadWindow - RecomputeEvery + 1, now)' >= Threshold]_vars
  BY QuietStep
<1> QED BY <1>1, HAlways, PTL DEF Spec, QuietIsFree

\* Nobody passes without a proof when the requests of the load window up to that
\* lag reach the threshold.
THEOREM FloodsWork == Spec => FloodIsCharged
<1>1. HInv /\ [Next]_vars =>
        [\A c \in Client : Request(c) /\ reply'[c] = "ok" /\ FirstCached(c) = NoProof
           => Requests(now - LoadWindow, now - RecomputeEvery)' < Threshold]_vars
  BY FloodStep
<1> QED BY <1>1, HAlways, PTL DEF Spec, FloodIsCharged

\* A client that solved its challenge is refused only if the server restarted,
\* demands more than it did, or the two hours of the proof are over.
THEOREM WorkCounts == Spec => WorkIsHonoured
<1>1. HInv /\ [Next]_vars =>
        [\A c \in Client : Retry(c) /\ reply'[c] = "refused"
           => \/ nodeId # ask[c].node
              \/ difficulty' > ask[c].effort
              \/ Bucket > ask[c].bucket + 1]_vars
  BY WorkStep
<1> QED BY <1>1, HAlways, PTL DEF Spec, WorkIsHonoured

-----------------------------------------------------------------------------
(* The table of time stamps is a limiter *)

\* The limiter's view of the state.
Admitted == [c \in Client |-> Recent(c)]
Verdict == [c \in Client |-> CASE reply[c] = "none" -> "none"
                               [] reply[c] = "limited" -> "limited"
                               [] OTHER -> "admitted"]

LEMMA LimiterInit ==
  ASSUME Init
  PROVE  Limiter!Init
<1>1. DOMAIN limits = {}
  BY EmptySeq, LenProperties DEF Init
<1>2. \A c \in Client : Recent(c) = <<>>
  BY <1>1 DEF Recent
<1>3. \A c \in Client : reply[c] = "none"
  BY DEF Init
<1> QED BY <1>2, <1>3 DEF Init, Limiter!Init

\* A request at the server is one let through or turned away by the limiter.
LEMMA LimiterHandle ==
  ASSUME HInv, NEW c \in Client, NEW free, NEW p,
         NEW denial \in {"ok", "challenge", "refused"}, Handle(c, free, p, denial)
  PROVE  Limiter!Admit(c) \/ Limiter!Refuse(c)
<1>1. /\ now' = now /\ limits' = LimitsAfter(c)
      /\ reply' \in [Client -> {"none", "ok", "limited", "challenge", "refused"}]
      /\ \A k \in Client : k # c => reply'[k] = reply[k]
  BY HandleStep
<1>2. now \in Nat /\ Known(limits)
  BY TimeNat DEF HInv, LimitsOK
<1>3. \A k \in Client : Recent(k)' = RecentIn(LimitsAfter(c), k)
  BY <1>1 DEF Recent, RecentIn
<1>4. \A k \in Client : k # c => Recent(k)' = Recent(k)
  BY <1>2, <1>3, LimitsStep
<1>5. CASE Admits(c)
  <2>1. Len(Recent(c)) < Limit
    BY <1>5 DEF Admits
  <2>2. Recent(c)' = Append(Recent(c), now)
    BY <1>2, <1>3, <1>5, LimitsStep
  <2>3. reply'[c] # "none" /\ reply'[c] # "limited"
    BY <1>5, HandleStep
  <2>4. Admitted' = [Admitted EXCEPT ![c] = Append(Recent(c), now)]
    BY <1>4, <2>2 DEF Admitted
  <2>5. Verdict' = [Verdict EXCEPT ![c] = "admitted"]
    BY <1>1, <2>3 DEF Verdict
  <2>6. Admitted[c] = Recent(c)
    BY DEF Admitted
  <2> QED BY <1>1, <2>1, <2>4, <2>5, <2>6 DEF Limiter!Admit, Admitted, Verdict
<1>6. CASE ~Admits(c)
  <2>1. Len(Recent(c)) = Limit /\ Recent(c)' = Recent(c)
    BY <1>2, <1>3, <1>6, LimitsStep
  <2>2. reply'[c] = "limited"
    BY <1>6, HandleStep
  <2>3. Admitted' = Admitted
    BY <1>4, <2>1 DEF Admitted
  <2>4. Verdict' = [Verdict EXCEPT ![c] = "limited"]
    BY <1>1, <2>2 DEF Verdict
  <2> QED BY <1>1, <2>1, <2>3, <2>4 DEF Limiter!Refuse, Admitted, Verdict
<1> QED BY <1>5, <1>6

\* Time moves the window on.
LEMMA LimiterTick ==
  ASSUME HInv, Tick
  PROVE  Limiter!Tick
<1>1. now' = now + 1 /\ limits' = limits /\ reply' = reply
  BY DEF Tick, server
<1>2. now \in Nat /\ Known(limits)
  BY TimeNat DEF HInv, LimitsOK
<1>3. PICK early \in Int, late \in Int :
        early = now - RateWindow + 1 /\ late = now' - RateWindow + 1 /\ early <= late
  BY <1>1, <1>2, PConsts
<1>4. ASSUME NEW c \in Client PROVE Recent(c)' = Since(Recent(c), now' - RateWindow + 1)
  <2>1. CASE c \in DOMAIN limits
    <3>1. PICK s : s = limits[c]
      OBVIOUS
    <3>2. s \in Seq(Int) /\ Ordered(s)
      BY <1>2, <2>1, <3>1 DEF Known, Stamped
    <3>3. Since(Since(s, early), late) = Since(s, late)
      BY <1>3, <3>2, SinceSince
    <3>4. Recent(c) = Since(s, early)
      BY <1>3, <2>1, <3>1 DEF Recent
    <3>5. Recent(c)' = Since(s, late)
      BY <1>1, <1>3, <2>1, <3>1 DEF Recent
    <3> QED BY <1>3, <3>3, <3>4, <3>5
  <2>2. CASE c \notin DOMAIN limits
    <3>1. Recent(c) = <<>> /\ Recent(c)' = <<>>
      BY <1>1, <2>2 DEF Recent
    <3>2. <<>> \in Seq(Int) /\ Len(<<>>) = 0 /\ 1..0 = {}
      BY EmptySeq
    <3>3. Ordered(<<>>) /\ \A i \in 1..Len(<<>>) : <<>>[i] >= late
      BY <3>2 DEF Ordered
    <3>4. Since(<<>>, late) = <<>>
      BY <3>2, <3>3, SinceAllOrNone
    <3> QED BY <1>3, <3>1, <3>4
  <2> QED BY <2>1, <2>2
<1>5. Admitted' = [c \in Client |-> Since(Admitted[c], now' - RateWindow + 1)]
  BY <1>4 DEF Admitted
<1>6. Verdict' = Verdict
  BY <1>1 DEF Verdict
<1>7. \A s, cutoff : Limiter!Since(s, cutoff) = Since(s, cutoff)
  <2>1. \A S : Limiter!Cardinality(S) = Cardinality(S)
    BY DEF Limiter!Cardinality, Cardinality, Limiter!IsFiniteSet, IsFiniteSet
  <2> QED BY <2>1 DEF Limiter!Since, Limiter!LastOf, Since, LastOf
<1>8. Admitted' = [c \in Client |-> Limiter!Since(Admitted[c], now' - RateWindow + 1)]
  BY <1>5, <1>7
<1> QED BY <1>1, <1>6, <1>8 DEF Limiter!Tick, Admitted, Verdict

LEMMA LimiterForget ==
  ASSUME Restart
  PROVE  Limiter!Forget
<1>1. limits' = <<>> /\ now' = now /\ reply' = reply
  BY DEF Restart
<1>2. \A c \in Client : Recent(c)' = <<>>
  <2>1. DOMAIN <<>> = {}
    BY EmptySeq, LenProperties
  <2> QED BY <1>1, <2>1 DEF Recent
<1>3. Admitted' = [c \in Client |-> <<>>]
  BY <1>2 DEF Admitted
<1>4. Verdict' = Verdict
  BY <1>1 DEF Verdict
<1> QED BY <1>1, <1>3, <1>4 DEF Limiter!Forget, Admitted, Verdict

\* Every step of the server and its clients is one of the limiter or none.
LEMMA LimiterNext ==
  ASSUME HInv, [Next]_vars
  PROVE  [Limiter!Next]_(Limiter!rlvars)
<1>1. CASE UNCHANGED vars
  <2>1. now' = now /\ limits' = limits /\ reply' = reply
    BY <1>1 DEF vars, server
  <2>2. \A c \in Client : Recent(c)' = Recent(c)
    BY <2>1 DEF Recent
  <2> QED BY <2>1, <2>2 DEF Limiter!rlvars
<1>2. ASSUME NEW c \in Client, Probe(c) \/ Request(c) \/ Retry(c) PROVE Limiter!Admit(c) \/ Limiter!Refuse(c)
  <2>1. CASE Probe(c)
    <3>1. Handle(c, TRUE, NoProof, "ok")
      BY <2>1 DEF Probe
    <3> QED BY <3>1, LimiterHandle
  <2>2. CASE Request(c)
    <3>1. Handle(c, FALSE, FirstCached(c), "challenge")
      BY <2>2 DEF Request
    <3> QED BY <3>1, LimiterHandle
  <2>3. CASE Retry(c)
    <3>1. PICK strength \in ask[c].effort..MaxEffort :
            Handle(c, FALSE, Solution(ask[c], strength), "refused")
      BY <2>3 DEF Retry
    <3> QED BY <3>1, LimiterHandle
  <2> QED BY <1>2, <2>1, <2>2, <2>3
<1>3. ASSUME Restart PROVE Limiter!Next
  BY <1>3, LimiterForget DEF Limiter!Next
<1>4. ASSUME Tick PROVE Limiter!Next
  BY <1>4, LimiterTick DEF Limiter!Next
<1>5. CASE Next
  <2>1. Limiter!Next
    BY <1>2, <1>3, <1>4, <1>5 DEF Next, Limiter!Next
  <2> QED BY <2>1
<1> QED BY <1>1, <1>5

\* The server's table, cleaned up when it grows, decides as a limiter that keeps
\* the time of every request: none over the limit, none refused below it.
THEOREM LimiterRefined == Spec => ImplementsLimiter
<1>1. Init => Limiter!Init
  BY LimiterInit
<1>2. HInv /\ [Next]_vars => [Limiter!Next]_(Limiter!rlvars)
  BY LimiterNext
<1> QED BY <1>1, <1>2, HAlways, PTL DEF Spec, ImplementsLimiter, Limiter!Spec

-----------------------------------------------------------------------------
(* A client's proofs *)

InOrder(proofs) ==
  \A i, j \in 1..Len(proofs) : i <= j => proofs[i].bucket <= proofs[j].bucket
UpTo(proofs, bucket) == \A i \in 1..Len(proofs) : proofs[i].bucket <= bucket
Unexpired(proofs, bucket) == \A i \in 1..Len(proofs) : proofs[i].bucket >= bucket - 1

\* Proofs are put in order, the expired ones at the front are all that are
\* dropped, and nothing that expired is kept.
LEMMA CachePutOrder ==
  ASSUME NEW proofs \in Seq(Proof), NEW p \in Proof, InOrder(proofs), UpTo(proofs, p.bucket)
  PROVE  /\ InOrder(CachePut(proofs, p)) /\ UpTo(CachePut(proofs, p), p.bucket)
         /\ Unexpired(CachePut(proofs, p), p.bucket)
<1> PICK L \in Nat : L = Len(proofs) /\ DOMAIN proofs = 1..L
  BY LenProperties
<1> DEFINE same(q) == q.node = p.node /\ q.bucket = p.bucket
           updated == [i \in DOMAIN proofs |-> IF same(proofs[i]) THEN p ELSE proofs[i]]
           all == IF \E i \in DOMAIN proofs : same(proofs[i]) THEN updated ELSE Append(proofs, p)
           fresh == {i \in DOMAIN all : all[i].bucket >= p.bucket - 1}
<1>1. CachePut(proofs, p) = LastOf(all, Cardinality(fresh))
  BY DEF CachePut
<1>2. \A q \in Proof : q.bucket \in Nat
  BY DEF Proof
<1>3. \A i \in 1..L : proofs[i] \in Proof /\ proofs[i].bucket \in Nat /\ proofs[i].bucket <= p.bucket
  BY <1>2, ElementOfSeq DEF UpTo
<1>4. PICK b \in Nat : b = p.bucket
  BY <1>2
<1>5. all \in Seq(Proof) /\ InOrder(all) /\ UpTo(all, b)
  <2>1. CASE \E i \in DOMAIN proofs : same(proofs[i])
    <3>1. all = updated /\ updated = [i \in 1..L |-> IF same(proofs[i]) THEN p ELSE proofs[i]]
      BY <2>1
    <3>2. \A i \in 1..L : updated[i] \in Proof /\ updated[i].bucket = proofs[i].bucket
      BY <1>3
    <3>3. updated \in [1..L -> Proof]
      BY <3>1, <3>2
    <3> HIDE DEF updated, all
    <3>4. updated \in Seq(Proof) /\ Len(updated) = L
      <4>1. updated \in Seq(Proof)
        BY <3>3, SeqDef
      <4> QED BY <3>3, <4>1, LenProperties
    <3>5. InOrder(updated) /\ UpTo(updated, b)
      BY <1>3, <1>4, <3>2, <3>4 DEF InOrder, UpTo
    <3> QED BY <3>1, <3>4, <3>5
  <2>2. CASE ~ \E i \in DOMAIN proofs : same(proofs[i])
    <3>1. PICK a : a = all
      OBVIOUS
    <3>2. a = Append(proofs, p)
      BY <2>2, <3>1
    <3>3. /\ a \in Seq(Proof) /\ Len(a) = L + 1 /\ a[L + 1] = p
          /\ \A i \in 1..L : a[i] = proofs[i]
      BY <3>2, AppendProperties
    <3> HIDE DEF all
    <3>4. ASSUME NEW i \in 1..(L + 1), NEW j \in 1..(L + 1), i <= j
          PROVE  a[i].bucket <= a[j].bucket
      <4>1. CASE j = L + 1 /\ i = L + 1
        BY <1>4, <3>3, <4>1
      <4>2. CASE j = L + 1 /\ i # L + 1
        <5>1. i \in 1..L
          BY <4>2
        <5> QED BY <1>3, <3>3, <4>2, <5>1
      <4>3. CASE j # L + 1
        <5>1. i \in 1..L /\ j \in 1..L
          BY <3>4, <4>3
        <5> QED BY <3>3, <3>4, <5>1 DEF InOrder
      <4> QED BY <4>1, <4>2, <4>3
    <3>5. ASSUME NEW i \in 1..(L + 1) PROVE a[i].bucket <= b
      <4>1. CASE i = L + 1
        BY <1>4, <3>3, <4>1
      <4>2. CASE i # L + 1
        <5>1. i \in 1..L
          BY <4>2
        <5> QED BY <1>3, <1>4, <3>3, <5>1
      <4> QED BY <4>1, <4>2
    <3>6. InOrder(a) /\ UpTo(a, b)
      BY <3>3, <3>4, <3>5 DEF InOrder, UpTo
    <3> QED BY <3>1, <3>3, <3>6
  <2> QED BY <2>1, <2>2
<1> HIDE DEF all
<1>6. PICK M \in Nat : M = Len(all) /\ DOMAIN all = 1..M
  BY <1>5, LenProperties
<1>7. \A i \in 1..M : all[i].bucket \in Nat
  BY <1>2, <1>5, <1>6, ElementOfSeq
<1>8. fresh \in SUBSET (1..M) /\ \A i \in 1..M : i \in fresh <=> all[i].bucket >= b - 1
  BY <1>4, <1>6
<1> HIDE DEF fresh
<1>9. ASSUME NEW i \in fresh, NEW j \in 1..M, i <= j PROVE j \in fresh
  <2>1. i \in 1..M /\ all[i].bucket >= b - 1 /\ all[i].bucket <= all[j].bucket
    BY <1>5, <1>6, <1>8, <1>9 DEF InOrder
  <2> QED BY <1>7, <1>8, <2>1
<1>10. /\ Cardinality(fresh) \in Nat /\ Cardinality(fresh) <= M
       /\ \A j \in 1..M : j \in fresh <=> M - Cardinality(fresh) < j
  BY <1>8, <1>9, UpSet
<1>11. PICK n \in Nat : n = Cardinality(fresh) /\ n <= M
  BY <1>10
<1> PICK t : t = LastOf(all, n)
  OBVIOUS
<1>12. /\ Len(t) = n
       /\ \A i \in 1..n : M - n + i \in 1..M /\ t[i] = all[M - n + i]
  BY <1>5, <1>6, <1>11, LastOfShape
<1>13. InOrder(t)
  <2>1. ASSUME NEW i \in 1..n, NEW j \in 1..n, i <= j PROVE t[i].bucket <= t[j].bucket
    <3>1. M - n + i <= M - n + j
      BY <2>1
    <3> QED BY <1>5, <1>6, <1>12, <3>1 DEF InOrder
  <2> QED BY <1>12, <2>1 DEF InOrder
<1>14. UpTo(t, b)
  BY <1>5, <1>6, <1>12 DEF UpTo
<1>15. ASSUME NEW i \in 1..n PROVE t[i].bucket >= b - 1
  <2>1. M - n < M - n + i
    OBVIOUS
  <2>2. M - n + i \in fresh
    BY <1>10, <1>11, <1>12, <2>1
  <2> QED BY <1>8, <1>12, <2>2
<1> QED BY <1>1, <1>4, <1>11, <1>12, <1>13, <1>14, <1>15 DEF Unexpired

\* What a client caches is in order of buckets, none of which is yet to come or
\* later than that of the challenge it works at.
CacheOK ==
  \A c \in Client :
    /\ InOrder(cache[c]) /\ UpTo(cache[c], Bucket)
    /\ ask[c] # NoAsk => UpTo(cache[c], ask[c].bucket)
CacheFresh == \A c \in Client : \A i, j \in 1..Len(cache[c]) : cache[c][i].bucket >= cache[c][j].bucket - 1
CacheInv == CacheOK /\ CacheFresh

LEMMA CacheInit ==
  ASSUME Init
  PROVE  CacheInv
<1>1. \A c \in Client : cache[c] = <<>>
  BY DEF Init
<1>2. Len(<<>>) = 0 /\ 1..0 = {}
  BY EmptySeq
<1> QED BY <1>1, <1>2 DEF CacheInv, CacheOK, CacheFresh, InOrder, UpTo

\* Buckets of a list, at a later time.
LEMMA UpToLater ==
  ASSUME NEW proofs \in Seq(Proof), NEW a \in Nat, NEW b \in Nat, a <= b, UpTo(proofs, a)
  PROVE  UpTo(proofs, b)
<1> PICK L \in Nat : L = Len(proofs)
  BY LenProperties
<1>1. \A q \in Proof : q.bucket \in Nat
  BY DEF Proof
<1>2. \A i \in 1..L : proofs[i].bucket \in Nat
  BY <1>1, ElementOfSeq
<1> QED BY <1>2 DEF UpTo

LEMMA CacheSame ==
  ASSUME HInv, CacheInv, cache' = cache, now' \in Nat, now <= now',
         \A c \in Client : ask'[c] = ask[c] \/ ask'[c] = NoAsk \/ ask'[c].bucket = Bucket
  PROVE  CacheInv'
<1>1. Bucket \in Nat /\ Bucket' \in Nat /\ Bucket <= Bucket'
  BY TimeNat, DivNat, DivGrows, PConsts DEF Bucket, HInv
<1>2. \A c \in Client : cache[c] \in Seq(Proof)
  BY DEF HInv, Typed
<1>3. ASSUME NEW c \in Client
      PROVE  /\ InOrder(cache[c]) /\ UpTo(cache[c], Bucket')
             /\ ask'[c] # NoAsk => UpTo(cache[c], ask'[c].bucket)
  <2>1. InOrder(cache[c]) /\ UpTo(cache[c], Bucket)
    BY DEF CacheInv, CacheOK
  <2>2. UpTo(cache[c], Bucket')
    BY <1>1, <1>2, <2>1, UpToLater
  <2>3. ask'[c] # NoAsk => UpTo(cache[c], ask'[c].bucket)
    BY <2>1 DEF CacheInv, CacheOK
  <2> QED BY <2>1, <2>2, <2>3
<1>4. CacheOK'
  BY <1>3 DEF CacheOK, InOrder, UpTo
<1>5. CacheFresh'
  BY DEF CacheInv, CacheFresh
<1> QED BY <1>4, <1>5 DEF CacheInv

LEMMA CacheRetry ==
  ASSUME HInv, CacheInv, NEW c \in Client, Retry(c)
  PROVE  CacheInv'
<1>1. PICK strength \in ask[c].effort..MaxEffort :
        /\ cache' = [cache EXCEPT ![c] = CachePut(@, Solution(ask[c], strength))]
        /\ Handle(c, FALSE, Solution(ask[c], strength), "refused")
  BY DEF Retry
<1>2. ask[c] # NoAsk /\ ask' = [ask EXCEPT ![c] = NoAsk]
  BY DEF Retry
<1>3. PICK p \in Proof : p = Solution(ask[c], strength) /\ p.bucket = ask[c].bucket
  BY <1>2, SolutionShape DEF Solution
<1>4. now' = now
  BY <1>1, HandleStep
<1>5. Bucket' = Bucket /\ Bucket \in Nat
  BY <1>4, TimeNat, BucketNat DEF HInv, Bucket
<1>6. cache \in [Client -> Seq(Proof)] /\ ask \in [Client -> Ask \cup {NoAsk}]
  BY DEF HInv, Typed
<1>7. PICK old \in Seq(Proof) : old = cache[c]
  BY <1>6
<1>8. PICK q : q = CachePut(old, p)
  OBVIOUS
<1>9. cache' = [cache EXCEPT ![c] = q]
  BY <1>1, <1>3, <1>7, <1>8
<1>10. InOrder(old) /\ UpTo(old, p.bucket)
  BY <1>2, <1>3, <1>7 DEF CacheInv, CacheOK
<1>11. InOrder(q) /\ UpTo(q, p.bucket) /\ Unexpired(q, p.bucket) /\ q \in Seq(Proof)
  BY <1>8, <1>10, CachePutOrder, CachePutShape
<1>12. p.bucket \in Nat /\ p.bucket <= Bucket
  <2>1. p.bucket \in Nat
    BY DEF Proof
  <2> QED BY <1>2, <1>3, <2>1 DEF HInv, AsksOK
<1>13. UpTo(q, Bucket)
  BY <1>5, <1>11, <1>12, UpToLater
<1>14. CacheOK'
  <2>1. ASSUME NEW k \in Client
        PROVE  /\ InOrder(cache'[k]) /\ UpTo(cache'[k], Bucket)
               /\ ask'[k] # NoAsk => UpTo(cache'[k], ask'[k].bucket)
    <3>1. CASE k = c
      BY <1>2, <1>6, <1>9, <1>11, <1>13, <3>1
    <3>2. CASE k # c
      <4>1. cache'[k] = cache[k] /\ ask'[k] = ask[k]
        BY <1>2, <1>6, <1>9, <3>2
      <4> QED BY <4>1 DEF CacheInv, CacheOK
    <3> QED BY <3>1, <3>2
  <2> QED BY <1>5, <2>1 DEF CacheOK, InOrder, UpTo
<1>15. ASSUME NEW k \in Client, NEW i \in 1..Len(cache'[k]), NEW j \in 1..Len(cache'[k])
       PROVE  cache'[k][i].bucket >= cache'[k][j].bucket - 1
  <2>1. CASE k = c
    <3>1. cache'[k] = q
      BY <1>6, <1>9, <2>1
    <3>2. q[i].bucket >= p.bucket - 1 /\ q[j].bucket <= p.bucket
      BY <1>11, <3>1 DEF Unexpired, UpTo
    <3>3. q[i] \in Proof /\ q[j] \in Proof
      BY <1>11, <3>1, ElementOfSeq
    <3>4. q[i].bucket \in Nat /\ q[j].bucket \in Nat
      BY <3>3 DEF Proof
    <3> QED BY <1>12, <3>1, <3>2, <3>4
  <2>2. CASE k # c
    <3>1. cache'[k] = cache[k]
      BY <1>6, <1>9, <2>2
    <3> QED BY <3>1 DEF CacheInv, CacheFresh
  <2> QED BY <2>1, <2>2
<1>16. CacheFresh'
  BY <1>15 DEF CacheFresh
<1> QED BY <1>14, <1>16 DEF CacheInv

LEMMA CacheNext ==
  ASSUME HInv, CacheInv, [Next]_vars
  PROVE  CacheInv'
<1>0. now \in Nat /\ ask \in [Client -> Ask \cup {NoAsk}]
  BY TimeNat DEF HInv, Typed
<1>1. CASE UNCHANGED vars
  <2>1. cache' = cache /\ now' = now /\ ask' = ask
    BY <1>1 DEF vars
  <2> QED BY <1>0, <2>1, CacheSame
<1>2. ASSUME NEW c \in Client, Probe(c) PROVE CacheInv'
  <2>1. Handle(c, TRUE, NoProof, "ok") /\ cache' = cache /\ ask' = ask
    BY <1>2 DEF Probe
  <2>2. now' = now
    BY <2>1, HandleStep
  <2> QED BY <1>0, <2>1, <2>2, CacheSame
<1>3. ASSUME NEW c \in Client, Request(c) PROVE CacheInv'
  <2>1. /\ Handle(c, FALSE, FirstCached(c), "challenge") /\ cache' = cache
        /\ ask' = [ask EXCEPT ![c] =
                     IF reply'[c] = "challenge" /\ difficulty' <= MaxEffort
                     THEN [node |-> nodeId, bucket |-> Bucket, effort |-> difficulty'] ELSE NoAsk]
    BY <1>3 DEF Request
  <2>2. now' = now
    BY <2>1, HandleStep
  <2>3. PICK r : r = [node |-> nodeId, bucket |-> Bucket, effort |-> difficulty']
    OBVIOUS
  <2>4. r.bucket = Bucket
    BY <2>3
  <2>5. ask' = [ask EXCEPT ![c] = r] \/ ask' = [ask EXCEPT ![c] = NoAsk]
    BY <2>1, <2>3
  <2>6. \A k \in Client : ask'[k] = ask[k] \/ ask'[k] = NoAsk \/ ask'[k].bucket = Bucket
    BY <1>0, <2>4, <2>5
  <2> QED BY <1>0, <2>1, <2>2, <2>6, CacheSame
<1>4. ASSUME Restart PROVE CacheInv'
  <2>1. cache' = cache /\ now' = now /\ ask' = ask
    BY <1>4 DEF Restart
  <2> QED BY <1>0, <2>1, CacheSame
<1>5. ASSUME Tick PROVE CacheInv'
  <2>1. cache' = cache /\ now' = now + 1 /\ ask' = ask
    BY <1>5 DEF Tick
  <2>2. now' \in Nat /\ now <= now'
    BY <1>0, <2>1
  <2> QED BY <2>1, <2>2, CacheSame
<1> QED BY <1>1, <1>2, <1>3, <1>4, <1>5, CacheRetry DEF Next

\* HandshakeProofCache holds its proofs in the order of their buckets, none of a
\* bucket yet to come and none more than one before another: what put takes off
\* the front is all that has expired, and the first one sent is the oldest.
THEOREM CacheIsTidy ==
  Spec => [] \A c \in Client : \A i, j \in 1..Len(cache[c]) :
                /\ cache[c][i].bucket <= Bucket
                /\ cache[c][j].bucket - 1 <= cache[c][i].bucket
                /\ i <= j => cache[c][i].bucket <= cache[c][j].bucket
<1> DEFINE Tidy == \A c \in Client : \A i, j \in 1..Len(cache[c]) :
                     /\ cache[c][i].bucket <= Bucket
                     /\ cache[c][j].bucket - 1 <= cache[c][i].bucket
                     /\ i <= j => cache[c][i].bucket <= cache[c][j].bucket
<1>1. Init => CacheInv
  BY CacheInit
<1>2. HInv /\ CacheInv /\ [Next]_vars => CacheInv'
  BY CacheNext
<1>3. HInv /\ CacheInv => Tidy
  <2> SUFFICES ASSUME HInv, CacheInv, NEW c \in Client,
                      NEW i \in 1..Len(cache[c]), NEW j \in 1..Len(cache[c])
               PROVE  /\ cache[c][i].bucket <= Bucket
                      /\ cache[c][j].bucket - 1 <= cache[c][i].bucket
                      /\ i <= j => cache[c][i].bucket <= cache[c][j].bucket
    OBVIOUS
  <2>1. cache[c] \in Seq(Proof)
    BY DEF HInv, Typed
  <2>2. cache[c][i] \in Proof /\ cache[c][j] \in Proof
    BY <2>1, ElementOfSeq
  <2>3. cache[c][i].bucket \in Nat /\ cache[c][j].bucket \in Nat
    BY <2>2 DEF Proof
  <2>4. cache[c][j].bucket - 1 <= cache[c][i].bucket
    BY <2>3 DEF CacheInv, CacheFresh
  <2> QED BY <2>4 DEF CacheInv, CacheOK, InOrder, UpTo
<1> HIDE DEF Tidy
<1>4. Spec => []Tidy
  BY <1>1, <1>2, <1>3, HAlways, PTL DEF Spec
<1> QED BY <1>4 DEF Tidy
=============================================================================
