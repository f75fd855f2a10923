---------------------------- MODULE ChallengeProofs ----------------------------
(* Proofs about Challenge, for every value of its constants: types, and that   *)
(* marks of unfaithfulness are earned and served.                              *)
EXTENDS Challenge, SequenceTheorems, FiniteSetTheorems, WellFoundedInduction, TLAPS

\* The assumptions on the constants, one by one.
LEMMA CConsts ==
  /\ IsFiniteSet(Entry) /\ IsFiniteSet(Hash)
  /\ PerHour \in Nat /\ PerHour > 0 /\ FailLimit \in Nat /\ FailLimit > 0
  /\ Window \in Nat /\ Window > 0 /\ MaxRestarts \in Nat
  BY ChallengeAssumption

-----------------------------------------------------------------------------
(* Lists of failures *)

\* Every set of natural numbers with an element has a least one.
LEMMA NatMin ==
  ASSUME NEW S \in SUBSET Nat, S # {}
  PROVE  \E n \in S : \A m \in S : n <= m
<1> DEFINE R == OpToRel(<, Nat)
<1>1. IsWellFoundedOn(R, Nat)
  BY NatLessThanWellFounded
<1> HIDE DEF R
<1>2. PICK x \in S : \A y \in S : ~(<<y, x>> \in R)
  BY <1>1, WFMin
<1>3. ASSUME NEW y \in S PROVE x <= y
  <2>1. x \in Nat /\ y \in Nat
    OBVIOUS
  <2>2. ~(y < x)
    BY <1>2, <2>1 DEF R, OpToRel
  <2> QED BY <2>1, <2>2
<1> QED BY <1>3

\* A set of indices that contains all above its members is the end of the list.
LEMMA UpSet ==
  ASSUME NEW L \in Nat, NEW U \in SUBSET (1..L),
         \A i \in U : \A j \in 1..L : i <= j => j \in U
  PROVE  /\ Cardinality(U) \in Nat /\ Cardinality(U) <= L
         /\ \A j \in 1..L : j \in U <=> L - Cardinality(U) < j
<1>1. CASE U = {}
  <2>1. Cardinality(U) = 0
    BY <1>1, FS_EmptySet
  <2>2. \A j \in 1..L : ~(L - 0 < j)
    OBVIOUS
  <2> QED BY <1>1, <2>1, <2>2
<1>2. CASE U # {}
  <2>1. PICK m \in U : \A x \in U : m <= x
    <3>1. U \in SUBSET Nat
      OBVIOUS
    <3> QED BY <1>2, <3>1, NatMin
  <2>2. m \in Nat /\ 1 <= m /\ m <= L
    OBVIOUS
  <2>3. \A j \in 1..L : j \in U <=> m <= j
    BY <2>1
  <2>4. U = m..L
    <3>1. ASSUME NEW x \in m..L PROVE x \in U
      <4>1. x \in 1..L /\ m <= x
        BY <2>2, <3>1
      <4> QED BY <2>3, <4>1
    <3>2. ASSUME NEW x \in U PROVE x \in m..L
      <4>1. x \in 1..L /\ m <= x /\ x \in Int /\ x <= L
        BY <2>3
      <4> QED BY <2>2, <4>1
    <3> QED BY <3>1, <3>2
  <2>5. Cardinality(m..L) = L - m + 1
    BY <2>2, FS_Interval
  <2>6. PICK c \in Nat : c = Cardinality(U) /\ c = L - m + 1
    BY <2>2, <2>4, <2>5
  <2>7. c <= L /\ \A j \in 1..L : m <= j <=> L - c < j
    BY <2>2, <2>6
  <2> QED BY <2>3, <2>6, <2>7
<1> QED BY <1>1, <1>2

\* Failures run from the oldest to the newest.
Sorted(s) == \A i, j \in 1..Len(s) : i <= j => s[j] <= s[i]
Ages == {s \in Seq(0..Window) : Len(s) <= FailLimit /\ Sorted(s)}

\* What a list of failures is.
LEMMA AgesAre ==
  ASSUME NEW s \in Ages
  PROVE  /\ s \in Seq(0..Window) /\ Len(s) \in Nat /\ Len(s) <= FailLimit
         /\ DOMAIN s = 1..Len(s) /\ \A i \in 1..Len(s) : s[i] \in 0..Window
         /\ \A i, j \in 1..Len(s) : i <= j => s[j] <= s[i]
  BY LenProperties, ElementOfSeq DEF Ages, Sorted

\* How one is built: from a function on 1..n.
LEMMA AgesBuilt ==
  ASSUME NEW n \in Nat, NEW f \in [1..n -> 0..Window]
  PROVE  f \in Seq(0..Window) /\ Len(f) = n
<1>1. f \in Seq(0..Window)
  BY SeqDef
<1> QED BY <1>1, LenProperties

\* An hour later the failures that are left are within the window.
LEMMA RecentShape ==
  ASSUME NEW s \in Ages
  PROVE  Recent(s) \in Ages
<1> DEFINE L == Len(s)
           kept == {i \in 1..L : \E j \in 1..i : s[j] + 1 <= Window}
           n == Cardinality(kept)
           r == [i \in 1..n |-> s[L - n + i] + 1]
<1>1. /\ L \in Nat /\ L <= FailLimit /\ \A i \in 1..L : s[i] \in 0..Window
      /\ \A i, j \in 1..L : i <= j => s[j] <= s[i]
  BY AgesAre
<1>2. n \in Nat /\ n <= L /\ \A j \in 1..L : j \in kept <=> L - n < j
  <2>1. kept \in SUBSET (1..L)
    OBVIOUS
  <2>2. ASSUME NEW i \in kept, NEW j \in 1..L, i <= j PROVE j \in kept
    <3>1. PICK k \in 1..i : s[k] + 1 <= Window
      OBVIOUS
    <3>2. k \in 1..j
      BY <1>1, <2>2
    <3> QED BY <3>1, <3>2
  <2> HIDE DEF kept, L
  <2> QED BY <1>1, <2>1, <2>2, UpSet
<1>3. ASSUME NEW i \in 1..n
      PROVE  L - n + i \in 1..L /\ s[L - n + i] + 1 \in 0..Window
  <2>1. L - n + i \in 1..L /\ L - n < L - n + i
    BY <1>1, <1>2
  <2>2. L - n + i \in kept
    BY <1>2, <2>1
  <2>3. PICK j \in 1..(L - n + i) : s[j] + 1 <= Window
    BY <2>2
  <2>4. j \in 1..L /\ j <= L - n + i
    BY <1>1, <2>1, <2>3
  <2>5. s[L - n + i] <= s[j] /\ s[j] \in 0..Window /\ s[L - n + i] \in 0..Window
    BY <1>1, <2>1, <2>4
  <2> QED BY <2>1, <2>3, <2>5, CConsts
<1> HIDE DEF n, L, kept
<1>4. r \in [1..n -> 0..Window]
  BY <1>3
<1>5. r \in Seq(0..Window) /\ Len(r) = n
  BY <1>2, <1>4, AgesBuilt
<1>6. ASSUME NEW i \in 1..n, NEW j \in 1..n, i <= j PROVE r[j] <= r[i]
  <2>1. L - n + i <= L - n + j
    BY <1>1, <1>2, <1>6
  <2>2. s[L - n + j] <= s[L - n + i]
    BY <1>1, <1>3, <2>1
  <2>3. s[L - n + j] \in Nat /\ s[L - n + i] \in Nat
    BY <1>1, <1>3
  <2>4. s[L - n + j] + 1 <= s[L - n + i] + 1
    BY <2>2, <2>3
  <2> QED BY <2>4
<1>7. n <= FailLimit
  BY <1>1, <1>2, CConsts
<1>8. Recent(s) = r
  BY DEF Recent, r, n, kept, L
<1> HIDE DEF r
<1> QED BY <1>5, <1>6, <1>7, <1>8 DEF Ages, Sorted

\* The failures of a round are added at the end, and the newest are kept.
LEMMA CountedShape ==
  ASSUME NEW s \in Ages, NEW n \in Nat
  PROVE  Counted(s, n) \in Ages
<1> DEFINE z == [i \in 1..n |-> 0]
           t == s \o z
           L == Len(s)
<1>1. /\ s \in Seq(0..Window) /\ L \in Nat /\ \A i \in 1..L : s[i] \in 0..Window
      /\ \A i, j \in 1..L : i <= j => s[j] <= s[i]
  BY AgesAre
<1>2. z \in Seq(0..Window) /\ Len(z) = n
  <2>1. z \in [1..n -> 0..Window]
    BY CConsts
  <2> QED BY <2>1, AgesBuilt
<1>3. \A i \in 1..n : z[i] = 0
  OBVIOUS
<1> HIDE DEF z
<1>4. /\ t \in Seq(0..Window) /\ Len(t) = L + n
      /\ \A i \in 1..(L + n) : t[i] = IF i <= L THEN s[i] ELSE z[i - L]
  BY <1>1, <1>2, ConcatProperties
<1> HIDE DEF t
<1>5. ASSUME NEW i \in 1..(L + n), NEW j \in 1..(L + n), i <= j PROVE t[j] <= t[i]
  <2>1. CASE j <= L
    <3>1. i \in 1..L /\ j \in 1..L
      BY <1>1, <1>5, <2>1
    <3>2. t[i] = s[i] /\ t[j] = s[j]
      BY <1>4, <3>1
    <3> QED BY <1>1, <1>5, <3>1, <3>2
  <2>2. CASE ~(j <= L)
    <3>1. j - L \in 1..n
      BY <1>1, <2>2
    <3>2. t[j] = 0
      BY <1>3, <1>4, <2>2, <3>1
    <3>3. t[i] \in 0..Window
      BY <1>4, ElementOfSeq
    <3> QED BY <3>2, <3>3, CConsts
  <2> QED BY <2>1, <2>2
<1> PICK m \in Nat : m = L + n
  BY <1>1
<1>6. Len(t) = m /\ \A i \in 1..m : t[i] \in 0..Window
  BY <1>4, ElementOfSeq
<1>7. \A i, j \in 1..m : i <= j => t[j] <= t[i]
  BY <1>5
<1>8. CASE ~(m > FailLimit)
  <2>1. Newest(t) = t /\ m <= FailLimit
    BY <1>6, <1>8, CConsts DEF Newest
  <2>2. t \in Ages
    BY <1>4, <1>6, <1>7, <2>1 DEF Ages, Sorted
  <2> QED BY <2>1, <2>2 DEF Counted, t, z
<1>9. CASE m > FailLimit
  <2> DEFINE u == SubSeq(t, m - FailLimit + 1, m)
  <2>1. Newest(t) = u
    BY <1>6, <1>9 DEF Newest
  <2>2. /\ m - FailLimit + 1 \in Int /\ m \in Int
        /\ \A i \in (m - FailLimit + 1)..m : t[i] \in 0..Window
    BY <1>6, <1>9, CConsts
  <2>3. /\ u \in Seq(0..Window)
        /\ Len(u) = IF m - FailLimit + 1 <= m THEN m - (m - FailLimit + 1) + 1 ELSE 0
        /\ \A i \in 1..(m - (m - FailLimit + 1) + 1) : u[i] = t[(m - FailLimit + 1) + i - 1]
    BY <2>2, SubSeqProperties
  <2> HIDE DEF u
  <2>4. /\ m - (m - FailLimit + 1) + 1 = FailLimit /\ m - FailLimit + 1 <= m
    BY CConsts
  <2>5. Len(u) = FailLimit
    BY <2>3, <2>4
  <2>6. ASSUME NEW i \in 1..FailLimit, NEW j \in 1..FailLimit, i <= j PROVE u[j] <= u[i]
    <3>1. /\ (m - FailLimit + 1) + i - 1 \in 1..m /\ (m - FailLimit + 1) + j - 1 \in 1..m
          /\ (m - FailLimit + 1) + i - 1 <= (m - FailLimit + 1) + j - 1
      BY <1>9, <2>6, CConsts
    <3>2. u[i] = t[(m - FailLimit + 1) + i - 1] /\ u[j] = t[(m - FailLimit + 1) + j - 1]
      BY <2>3, <2>4
    <3> QED BY <1>7, <3>1, <3>2
  <2>7. u \in Ages
    BY <2>3, <2>5, <2>6, CConsts DEF Ages, Sorted
  <2> QED BY <2>1, <2>7 DEF Counted, t, z
<1> QED BY <1>8, <1>9

-----------------------------------------------------------------------------
(* The invariant *)

\* The tables.
TableOK ==
  /\ known \subseteq Hash /\ lost \subseteq known
  /\ serves \in [Entry -> SUBSET Hash]
  /\ state \in [Entry -> {"gone", "held", "up"}]
  /\ mark \subseteq {e \in Entry : state[e] # "gone"}
  /\ phase \in {"wait", "due", "round"} /\ restarts \in 0..MaxRestarts

\* A round asks of known hashes only, each once, so many of each entry.
OfRound(s, g, b) ==
  /\ s \subseteq known /\ g \subseteq known /\ b \subseteq known
  /\ s \cap (g \cup b) = {} /\ g \cap b = {}
  /\ Cardinality(s \cup (g \cup b)) <= PerHour
  /\ phase # "round" => s \cup (g \cup b) = {}
RoundOK ==
  /\ sample \in [Entry -> SUBSET Hash] /\ good \in [Entry -> SUBSET Hash]
  /\ bad \in [Entry -> SUBSET Hash]
  /\ \A e \in Entry : OfRound(sample[e], good[e], bad[e])

\* The failures that are counted are those that have evidence.
FailuresOK == failures \in [Entry -> Ages] /\ evidence = failures

CInv == TableOK /\ RoundOK /\ FailuresOK

\* Between rounds nothing is asked.
LEMMA NothingAsked ==
  ASSUME NEW e \in Entry, sample' = Nothing, good' = Nothing, bad' = Nothing
  PROVE  OfRound(sample[e], good[e], bad[e])'
<1>1. Cardinality({} \cup ({} \cup {})) = 0
  <2>1. {} \cup ({} \cup {}) = {}
    OBVIOUS
  <2> QED BY <2>1, FS_EmptySet
<1>2. sample'[e] = {} /\ good'[e] = {} /\ bad'[e] = {}
  BY DEF Nothing
<1> QED BY <1>1, <1>2, CConsts DEF OfRound

LEMMA NothingIs == Nothing \in [Entry -> SUBSET Hash]
  BY DEF Nothing

\* Nobody has failed anything.
LEMMA NeverIs == Never \in [Entry -> Ages]
<1>1. <<>> \in Seq(0..Window) /\ Len(<<>>) = 0
  OBVIOUS
<1>2. <<>> \in Ages
  BY <1>1, CConsts DEF Ages, Sorted
<1> QED BY <1>2 DEF Never

\* A failure is charged if somebody else had the hash.
LEMMA ChargedIsWitnessed ==
  ASSUME RoundOK, NEW e \in Entry
  PROVE  bad[e] \ NewlyLost = Witnessed(e) /\ Cardinality(Witnessed(e)) \in Nat
<1>1. good[e] \cap bad[e] = {} /\ bad[e] \subseteq Hash
  BY DEF RoundOK, OfRound
<1>2. bad[e] \ NewlyLost = Witnessed(e)
  BY <1>1 DEF NewlyLost, Witnessed
<1>3. IsFiniteSet(Witnessed(e))
  <2>1. Witnessed(e) \in SUBSET Hash
    BY <1>1 DEF Witnessed
  <2> QED BY <2>1, CConsts, FS_Subset
<1> QED BY <1>2, <1>3, FS_CardinalityType

\* So what a round adds to the failures it adds to the evidence.
LEMMA EndAddsBoth ==
  ASSUME CInv, EndRound
  PROVE  FailuresOK'
<1> DEFINE new == [e \in Entry |-> Counted(failures[e], Cardinality(Witnessed(e)))]
<1>1. failures' = new
  <2>1. failures' = [e \in Entry |-> Counted(failures[e], Cardinality(bad[e] \ NewlyLost))]
    BY DEF EndRound
  <2>2. \A e \in Entry : bad[e] \ NewlyLost = Witnessed(e)
    BY ChargedIsWitnessed DEF CInv
  <2> QED BY <2>1, <2>2
<1>2. evidence' = new
  BY DEF EndRound, CInv, FailuresOK
<1>3. \A e \in Entry : Counted(failures[e], Cardinality(Witnessed(e))) \in Ages
  BY ChargedIsWitnessed, CountedShape DEF CInv, FailuresOK
<1>4. new \in [Entry -> Ages]
  BY <1>3
<1> HIDE DEF new
<1> QED BY <1>1, <1>2, <1>4 DEF FailuresOK

\* An answer moves a hash from what is asked to the results.
LEMMA AskKeepsRound ==
  ASSUME CInv, NEW e \in Entry, NEW h \in Hash, Ask(e, h)
  PROVE  RoundOK'
<1>1. /\ h \in sample[e] /\ UNCHANGED <<known, phase>>
      /\ sample' = [sample EXCEPT ![e] = sample[e] \ {h}]
  BY DEF Ask
<1>2. \/ good' = [good EXCEPT ![e] = good[e] \cup {h}] /\ bad' = bad
      \/ bad' = [bad EXCEPT ![e] = bad[e] \cup {h}] /\ good' = good
  BY DEF Ask
<1>3. /\ sample \in [Entry -> SUBSET Hash] /\ good \in [Entry -> SUBSET Hash]
      /\ bad \in [Entry -> SUBSET Hash]
      /\ \A o \in Entry : OfRound(sample[o], good[o], bad[o])
  BY DEF CInv, RoundOK
<1>4. /\ sample' \in [Entry -> SUBSET Hash] /\ good' \in [Entry -> SUBSET Hash]
      /\ bad' \in [Entry -> SUBSET Hash]
  BY <1>1, <1>2, <1>3
<1>5. ASSUME NEW o \in Entry PROVE OfRound(sample[o], good[o], bad[o])'
  <2>1. CASE o # e
    <3>1. sample'[o] = sample[o] /\ good'[o] = good[o] /\ bad'[o] = bad[o]
      BY <1>1, <1>2, <1>3, <2>1
    <3> QED BY <1>1, <1>3, <3>1 DEF OfRound
  <2>2. CASE o = e
    <3>1. /\ sample'[e] = sample[e] \ {h}
          /\ \/ good'[e] = good[e] \cup {h} /\ bad'[e] = bad[e]
             \/ bad'[e] = bad[e] \cup {h} /\ good'[e] = good[e]
      BY <1>1, <1>2, <1>3
    <3>2. sample'[e] \cup (good'[e] \cup bad'[e]) = sample[e] \cup (good[e] \cup bad[e])
      BY <1>1, <3>1
    <3>3. OfRound(sample[e], good[e], bad[e])
      BY <1>3
    <3> QED BY <1>1, <2>2, <3>1, <3>2, <3>3 DEF OfRound
  <2> QED BY <2>1, <2>2
<1> QED BY <1>4, <1>5 DEF RoundOK

\* The samples of a round are known hashes, PER_HOUR of an entry at most.
LEMMA SampleShape ==
  ASSUME CInv, NEW e \in Entry, NEW s \in SamplesOf(e)
  PROVE  s \subseteq known /\ Cardinality(s) <= PerHour
<1>1. known \subseteq Hash /\ IsFiniteSet(known \ lost) /\ Cardinality(known \ lost) \in Nat
  <2>1. known \ lost \in SUBSET Hash
    BY DEF CInv, TableOK
  <2> QED BY <2>1, CConsts, FS_Subset, FS_CardinalityType DEF CInv, TableOK
<1>2. CASE state[e] = "up"
  <2> DEFINE k == IF Cardinality(known \ lost) < PerHour THEN Cardinality(known \ lost) ELSE PerHour
  <2>1. k <= PerHour
    BY <1>1, CConsts
  <2>2. s \in kSubset(k, known \ lost)
    BY <1>2 DEF SamplesOf
  <2> HIDE DEF k
  <2>3. s \subseteq known \ lost /\ Cardinality(s) = k
    BY <2>2 DEF kSubset
  <2> QED BY <2>1, <2>3
<1>3. CASE state[e] # "up"
  <2>1. s = {}
    BY <1>3 DEF SamplesOf
  <2> QED BY <2>1, FS_EmptySet, CConsts
<1> QED BY <1>2, <1>3

LEMMA StartKeepsRound ==
  ASSUME CInv, StartRound
  PROVE  RoundOK'
<1>1. /\ sample' \in [Entry -> SUBSET Hash] /\ \A e \in Entry : sample'[e] \in SamplesOf(e)
      /\ UNCHANGED <<known, good, bad>> /\ phase' = "round" /\ phase = "due"
  BY DEF StartRound
<1>2. ASSUME NEW e \in Entry PROVE OfRound(sample[e], good[e], bad[e])'
  <2>1. good[e] = {} /\ bad[e] = {}
    BY <1>1 DEF CInv, RoundOK, OfRound
  <2>2. sample'[e] \subseteq known /\ Cardinality(sample'[e]) <= PerHour
    BY <1>1, SampleShape
  <2>3. sample'[e] \cup (good'[e] \cup bad'[e]) = sample'[e] /\ good'[e] = {} /\ bad'[e] = {}
    BY <1>1, <2>1
  <2> QED BY <1>1, <2>2, <2>3 DEF OfRound
<1> QED BY <1>1, <1>2 DEF RoundOK, CInv

LEMMA InitCInv == Init => CInv
<1> SUFFICES ASSUME Init PROVE CInv
  OBVIOUS
<1>1. TableOK
  BY CConsts DEF Init, TableOK
<1>2. FailuresOK
  BY NeverIs DEF Init, FailuresOK
<1>3. RoundOK
  <2>1. ASSUME NEW e \in Entry PROVE OfRound(sample[e], good[e], bad[e])
    <3>1. Cardinality({} \cup ({} \cup {})) = 0
      <4>1. {} \cup ({} \cup {}) = {}
        OBVIOUS
      <4> QED BY <4>1, FS_EmptySet
    <3>2. sample[e] = {} /\ good[e] = {} /\ bad[e] = {}
      BY DEF Init, Nothing
    <3> QED BY <3>1, <3>2, CConsts DEF OfRound
  <2> QED BY <2>1, NothingIs DEF Init, RoundOK
<1> QED BY <1>1, <1>2, <1>3 DEF CInv

LEMMA NextCInv == CInv /\ [Next]_vars => CInv'
<1> SUFFICES ASSUME CInv, [Next]_vars PROVE CInv'
  OBVIOUS
<1>1. ASSUME NEW h \in Hash, Verify(h) PROVE CInv'
  <2>1. TableOK' /\ FailuresOK' /\ UNCHANGED <<round, phase>> /\ known \subseteq known'
    BY <1>1 DEF Verify, CInv, TableOK, FailuresOK
  <2>2. RoundOK'
    BY <2>1 DEF CInv, RoundOK, OfRound, round
  <2> QED BY <2>1, <2>2 DEF CInv
<1>2. ASSUME NEW e \in Entry, NEW h \in Hash, Toggle(e, h) PROVE CInv'
  <2>1. /\ serves' = [serves EXCEPT ![e] = IF h \in serves[e] THEN serves[e] \ {h} ELSE serves[e] \cup {h}]
        /\ UNCHANGED <<known, state, mark, lost, failures, phase, round, evidence, restarts>>
    BY <1>2 DEF Toggle
  <2>2. serves' \in [Entry -> SUBSET Hash]
    BY <2>1 DEF CInv, TableOK
  <2> QED BY <2>1, <2>2 DEF CInv, TableOK, RoundOK, OfRound, FailuresOK, round
<1>3. ASSUME NEW e \in Entry, NEW s \in {"gone", "held", "up"}, Changes(e, s) PROVE CInv'
  <2>1. TableOK'
    BY <1>3 DEF Changes, CInv, TableOK
  <2> QED BY <1>3, <2>1 DEF Changes, CInv, RoundOK, OfRound, FailuresOK, round
<1>4. CASE Hour
  <2>1. TableOK'
    BY <1>4 DEF Hour, CInv, TableOK
  <2>2. RoundOK'
    BY <1>4 DEF Hour, CInv, RoundOK, OfRound, round
  <2>3. FailuresOK'
    <3>1. \A e \in Entry : Recent(failures[e]) \in Ages
      BY RecentShape DEF CInv, FailuresOK
    <3> QED BY <1>4, <3>1 DEF Hour, CInv, FailuresOK
  <2> QED BY <2>1, <2>2, <2>3 DEF CInv
<1>5. CASE StartRound
  <2>1. TableOK' /\ FailuresOK'
    BY <1>5 DEF StartRound, CInv, TableOK, FailuresOK
  <2> QED BY <1>5, <2>1, StartKeepsRound DEF CInv
<1>6. ASSUME NEW e \in Entry, NEW h \in Hash, Ask(e, h) PROVE CInv'
  <2>1. TableOK' /\ FailuresOK'
    BY <1>6 DEF Ask, CInv, TableOK, FailuresOK
  <2> QED BY <1>6, <2>1, AskKeepsRound DEF CInv
<1>7. CASE EndRound
  <2>1. NewlyLost \subseteq known
    BY DEF NewlyLost, CInv, RoundOK, OfRound
  <2>2. mark' \subseteq {e \in Entry : state[e] # "gone"}
    BY <1>7 DEF EndRound, CInv, TableOK
  <2>3. TableOK'
    BY <1>7, <2>1, <2>2 DEF EndRound, CInv, TableOK
  <2>4. RoundOK'
    <3>1. sample' = Nothing /\ good' = Nothing /\ bad' = Nothing
      BY <1>7 DEF EndRound
    <3> QED BY <3>1, NothingAsked, NothingIs DEF RoundOK
  <2> QED BY <1>7, <2>3, <2>4, EndAddsBoth DEF CInv
<1>8. CASE Restart
  <2>1. TableOK'
    BY <1>8, CConsts DEF Restart, CInv, TableOK
  <2>2. RoundOK'
    <3>1. sample' = Nothing /\ good' = Nothing /\ bad' = Nothing
      BY <1>8 DEF Restart
    <3> QED BY <3>1, NothingAsked, NothingIs DEF RoundOK
  <2>3. FailuresOK'
    BY <1>8, NeverIs DEF Restart, FailuresOK
  <2> QED BY <2>1, <2>2, <2>3 DEF CInv
<1>9. CASE UNCHANGED vars
  BY <1>9 DEF vars, CInv, TableOK, RoundOK, OfRound, FailuresOK, round
<1> QED BY <1>1, <1>2, <1>3, <1>4, <1>5, <1>6, <1>7, <1>8, <1>9 DEF Next

-----------------------------------------------------------------------------
(* The theorems *)

\* Every variable keeps its type, for any entries, hashes and limits: a round
\* asks PER_HOUR known hashes of an entry at most, and no failure that is
\* counted is older than the window.
THEOREM TypeCorrect == Spec => []TypeOK
<1>1. CInv => TypeOK
  <2> SUFFICES ASSUME CInv PROVE TypeOK
    OBVIOUS
  <2>1. ASSUME NEW e \in Entry
        PROVE  Len(failures[e]) <= FailLimit /\ ToSet(failures[e]) \subseteq 0..Window
    <3>1. failures[e] \in Ages
      BY DEF CInv, FailuresOK
    <3> QED BY <3>1, AgesAre DEF ToSet
  <2>2. ASSUME NEW e \in Entry
        PROVE  /\ sample[e] \cap Asked(e) = {} /\ good[e] \cap bad[e] = {}
               /\ Cardinality(sample[e] \cup Asked(e)) <= PerHour
               /\ phase # "round" => sample[e] \cup Asked(e) = {}
    BY DEF CInv, RoundOK, OfRound, Asked
  <2> QED BY <2>1, <2>2 DEF TypeOK, CInv, TableOK
<1> QED BY <1>1, InitCInv, NextCInv, PTL DEF Spec

\* However many transpeers are asked, restarted or evicted, one is marked only
\* on FAIL_LIMIT failures of hashes that somebody else had.
THEOREM MarksAreEarned == Spec => MarkIsEarned
<1>1. ASSUME CInv, [Next]_vars, NEW e \in Entry, e \notin mark, e \in mark'
      PROVE  Len(evidence'[e]) >= FailLimit
  <2>1. CASE EndRound
    <3>1. Len(failures'[e]) >= FailLimit
      BY <1>1, <2>1 DEF EndRound
    <3> QED BY <1>1, <2>1, <3>1, EndAddsBoth DEF FailuresOK
  <2>2. CASE \E o \in Entry, s \in {"gone", "held", "up"} : Changes(o, s)
    BY <1>1, <2>2 DEF Changes
  <2>3. CASE \/ \E h \in Hash : Verify(h)
             \/ \E o \in Entry, h \in Hash : Toggle(o, h) \/ Ask(o, h)
             \/ Hour \/ StartRound \/ Restart \/ UNCHANGED vars
    BY <1>1, <2>3 DEF Verify, Toggle, Ask, Hour, StartRound, Restart, vars
  <2> QED BY <1>1, <2>1, <2>2, <2>3 DEF Next
<1>2. CInv /\ [Next]_vars =>
        [\A e \in Entry : e \notin mark /\ e \in mark' => Len(evidence'[e]) >= FailLimit]_vars
  BY <1>1
<1> QED BY <1>2, InitCInv, NextCInv, PTL DEF Spec, MarkIsEarned

\* And the mark stays until a window has passed without a failure, or the
\* entry is evicted.
THEOREM MarksAreServed == Spec => MarkIsServed
<1>1. ASSUME CInv, [Next]_vars, NEW e \in Entry, e \in mark, e \notin mark', state'[e] # "gone"
      PROVE  evidence'[e] = <<>>
  <2>1. CASE EndRound
    <3>1. Len(failures'[e]) = 0
      BY <1>1, <2>1 DEF EndRound, Clears
    <3>2. evidence'[e] = failures'[e] /\ failures'[e] \in Seq(0..Window)
      BY <1>1, <2>1, EndAddsBoth DEF FailuresOK, Ages
    <3> QED BY <3>1, <3>2, EmptySeq
  <2>2. CASE \E o \in Entry, s \in {"gone", "held", "up"} : Changes(o, s)
    <3>1. PICK o \in Entry, s \in {"gone", "held", "up"} : Changes(o, s)
      BY <2>2
    <3>2. s = "gone" /\ o = e
      BY <1>1, <3>1 DEF Changes
    <3>3. state'[e] = "gone"
      BY <1>1, <3>1, <3>2 DEF Changes, CInv, TableOK
    <3> QED BY <1>1, <3>3
  <2>3. CASE \/ \E h \in Hash : Verify(h)
             \/ \E o \in Entry, h \in Hash : Toggle(o, h) \/ Ask(o, h)
             \/ Hour \/ StartRound \/ Restart \/ UNCHANGED vars
    BY <1>1, <2>3 DEF Verify, Toggle, Ask, Hour, StartRound, Restart, vars
  <2> QED BY <1>1, <2>1, <2>2, <2>3 DEF Next
<1>2. CInv /\ [Next]_vars =>
        [\A e \in Entry : e \in mark /\ e \notin mark' /\ state'[e] # "gone"
           => evidence'[e] = <<>>]_vars
  BY <1>1
<1> QED BY <1>2, InitCInv, NextCInv, PTL DEF Spec, MarkIsServed
==============================================================================
