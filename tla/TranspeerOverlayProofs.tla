------------------------ MODULE TranspeerOverlayProofs ------------------------
(***************************************************************************)
(* Proofs about TranspeerOverlay, for any number of nodes, any of them     *)
(* mortal, any thresholds and any gossip sample size.                      *)
(***************************************************************************)
EXTENDS TranspeerOverlay, FiniteSetTheorems, TLAPS

\* The assumptions on the constants, one by one.
LEMMA OConsts ==
  /\ Mortal \subseteq Node /\ PruneAge \in Nat /\ MaxAge \in Nat
  /\ PruneAge < MaxAge /\ MaxRecovers \in Nat /\ Absent \notin Age
  BY OverlayConstants, NoAge

\* Merging two ages is an age, none only when both are missing, and never
\* younger than both.
LEMMA FresherType ==
  ASSUME NEW a \in Age \cup {Absent}, NEW b \in Age \cup {Absent}
  PROVE  /\ Fresher(a, b) \in Age \cup {Absent}
         /\ Fresher(a, b) = a \/ Fresher(a, b) = b
  BY OConsts DEF Fresher, Age

\* Ages saturate.
LEMMA OlderType ==
  ASSUME NEW a \in Age
  PROVE  Older(a) \in Age /\ Older(a) >= a
  BY OConsts DEF Older, Age

\* What n merges of what m relays: entries m holds, never n itself.
Relayed(n, m, S) ==
  [x \in Node |-> IF x \in S THEN Fresher(known[n][x], known[m][x]) ELSE known[n][x]]

\* The merged row has its type, and names n only if n's row did before.
LEMMA RelayedType ==
  ASSUME TypeOK, NEW n \in Node, NEW m \in Node, NEW S \in Samples(m, n)
  PROVE  /\ Relayed(n, m, S) \in [Node -> Age \cup {Absent}]
         /\ Relayed(n, m, S)[n] = known[n][n]
<1>1. S \subseteq Node \ {n}
  BY DEF Samples, Contacts
<1>2. ASSUME NEW x \in Node PROVE Fresher(known[n][x], known[m][x]) \in Age \cup {Absent}
  <2>1. known[n][x] \in Age \cup {Absent} /\ known[m][x] \in Age \cup {Absent}
    BY DEF TypeOK
  <2> QED BY <2>1, FresherType
<1> QED BY <1>1, <1>2 DEF Relayed, TypeOK

\* Whoever answers n has its type kept.
LEMMA ContactedType ==
  ASSUME TypeOK, NEW n \in Node, NEW m \in Node,
         NEW merged \in [Node -> Age \cup {Absent}], Contacted(n, m, merged)
  PROVE  /\ known' \in [Node -> [Node -> Age \cup {Absent}]]
         /\ cand' \in [Node -> SUBSET Node]
         /\ asked' \in [Node -> SUBSET Node]
<1>1. 0 \in Age
  BY OConsts DEF Age
<1> DEFINE new == {x \in Node : known[n][x] = Absent /\ merged[x] # Absent}
<1>2. new \in SUBSET Node
  OBVIOUS
<1>3. asked' = [asked EXCEPT ![n] = @ \cup {m} \cup new]
  BY DEF Contacted
<1> HIDE DEF new
<1>4. asked' \in [Node -> SUBSET Node]
  BY <1>2, <1>3 DEF TypeOK
<1>5. [merged EXCEPT ![m] = 0] \in [Node -> Age \cup {Absent}]
  BY <1>1
<1> QED BY <1>4, <1>5 DEF Contacted, TypeOK

\* A query is answered, and what it relays is merged, or only marks m as asked.
LEMMA QueryShape ==
  ASSUME TypeOK, NEW n \in Node, NEW m \in Node, Query(n, m)
  PROVE  /\ n \in up /\ m \in Contacts(n)
         /\ UNCHANGED <<up, quiet, pruned, recovers, seeded>>
         /\ \/ /\ m \in up
               /\ \E S \in Samples(m, n) : Contacted(n, m, Relayed(n, m, S))
            \/ /\ UNCHANGED <<known, cand>>
               /\ asked' \in [Node -> SUBSET Node]
<1>1. CASE m \in up
  <2>1. PICK S \in Samples(m, n) :
          Contacted(n, m, [x \in Node |-> IF x \in S THEN Fresher(known[n][x], known[m][x])
                                          ELSE known[n][x]])
    BY <1>1 DEF Query
  <2>2. Contacted(n, m, Relayed(n, m, S))
    BY <2>1 DEF Relayed
  <2> QED BY <1>1, <2>2 DEF Query
<1>2. CASE m \notin up
  BY <1>2 DEF Query, TypeOK
<1> QED BY <1>1, <1>2

\* Every variable keeps its type.
THEOREM OverlayTypes == Spec => []TypeOK
<1>1. Init => TypeOK
  BY OConsts DEF Init, TypeOK, Age
<1>2. TypeOK /\ [Next]_vars => TypeOK'
  <2> SUFFICES ASSUME TypeOK, [Next]_vars PROVE TypeOK'
    OBVIOUS
  <2>0. 0 \in Age /\ \A a \in Age : Older(a) \in Age
    BY OConsts, OlderType DEF Age
  <2>1. ASSUME NEW n \in Node, NEW m \in Node, Discover(n, m) PROVE TypeOK'
    <3>1. known[n] \in [Node -> Age \cup {Absent}]
      BY DEF TypeOK
    <3>2. Contacted(n, m, known[n]) /\ UNCHANGED <<up, quiet, pruned, recovers, seeded>>
      BY <2>1 DEF Discover
    <3> QED BY <3>1, <3>2, ContactedType DEF TypeOK
  <2>2. ASSUME NEW n \in Node, NEW m \in Node, Query(n, m) PROVE TypeOK'
    <3>1. CASE \E S \in Samples(m, n) : Contacted(n, m, Relayed(n, m, S))
      <4> PICK S \in Samples(m, n) : Contacted(n, m, Relayed(n, m, S))
        BY <3>1
      <4>1. UNCHANGED <<up, quiet, pruned, recovers, seeded>>
        BY <2>2, QueryShape
      <4> QED BY <4>1, RelayedType, ContactedType DEF TypeOK
    <3>2. CASE UNCHANGED <<known, cand>> /\ asked' \in [Node -> SUBSET Node]
      BY <2>2, <3>2, QueryShape DEF TypeOK
    <3> QED BY <2>2, <3>1, <3>2, QueryShape
  <2>3. ASSUME NEW n \in Node, NEW m \in Node, ProbeCandidate(n, m) PROVE TypeOK'
    <3>1. UNCHANGED <<up, quiet, pruned, recovers, seeded>>
      BY <2>3 DEF ProbeCandidate
    <3> DEFINE popped == [cand EXCEPT ![n] = @ \ {m}]
    <3>2. popped \in [Node -> SUBSET Node]
      BY DEF TypeOK
    <3>3. CASE m \in up
      <4>1. /\ known' = [known EXCEPT ![n][m] = 0]
            /\ cand' = [popped EXCEPT ![m] = @ \cup {n}]
            /\ asked' = [asked EXCEPT ![n] = @ \cup {m}]
        BY <2>3, <3>3 DEF ProbeCandidate
      <4> HIDE DEF popped
      <4>2. known' \in [Node -> [Node -> Age \cup {Absent}]]
        BY <2>0, <4>1 DEF TypeOK
      <4>3. cand' \in [Node -> SUBSET Node]
        BY <3>2, <4>1
      <4>4. asked' \in [Node -> SUBSET Node]
        BY <4>1 DEF TypeOK
      <4> QED BY <3>1, <4>2, <4>3, <4>4 DEF TypeOK
    <3>4. CASE m \notin up
      BY <2>3, <3>1, <3>2, <3>4 DEF ProbeCandidate, TypeOK
    <3> QED BY <3>3, <3>4
  <2>4. ASSUME NEW n \in Node, Prune(n) PROVE TypeOK'
    BY <2>4 DEF Prune, TypeOK
  <2>5. ASSUME NEW n \in Node, Crash(n) PROVE TypeOK'
    BY <2>5 DEF Crash, TypeOK
  <2>6. ASSUME NEW n \in Node, Recover(n) PROVE TypeOK'
    BY <2>0, <2>6, OConsts DEF Recover, TypeOK
  <2>7. ASSUME Tick PROVE TypeOK'
    <3>1. known' \in [Node -> [Node -> Age \cup {Absent}]]
      BY <2>0, <2>7 DEF Tick, TypeOK
    <3>2. quiet' \in [Node -> Age] /\ seeded' \in [Node -> Age]
      BY <2>0, <2>7 DEF Tick, TypeOK
    <3> QED BY <2>7, <3>1, <3>2 DEF Tick, TypeOK
  <2>8. CASE UNCHANGED vars
    BY <2>8 DEF vars, TypeOK
  <2>9. ASSUME NEW n \in Node, NEW m \in Node, Seed(n, m) PROVE TypeOK'
    <3>1. known' \in [Node -> [Node -> Age \cup {Absent}]]
      BY <2>0, <2>9 DEF Seed, TypeOK
    <3>2. asked' \in [Node -> SUBSET Node] /\ seeded' \in [Node -> Age]
      BY <2>0, <2>9 DEF Seed, TypeOK
    <3> QED BY <2>9, <3>1, <3>2 DEF Seed, TypeOK
  <2> QED BY <2>1, <2>2, <2>3, <2>4, <2>5, <2>6, <2>7, <2>8, <2>9 DEF Next
<1> QED BY <1>1, <1>2, PTL DEF Spec

-----------------------------------------------------------------------------
\* An age that a node's running, or a reader's seeding of it, accounts for.
Accounts(age, x) == age >= quiet[x] \/ age >= seeded[x]

\* A running node is not quiet, and every entry is accounted for.
Awake == \A n \in up : quiet[n] = 0
Accounted == \A n, m \in Node : known[n][m] # Absent => Accounts(known[n][m], m)
Honest == Accounted /\ Awake

\* An answer keeps n's entries accounted for: m runs, and the merged row is.
LEMMA ContactedHonest ==
  ASSUME TypeOK, Honest, quiet' = quiet, seeded' = seeded, up' = up, NEW n \in Node, NEW m \in up,
         NEW merged \in [Node -> Age \cup {Absent}], Contacted(n, m, merged),
         \A x \in Node : merged[x] # Absent => Accounts(merged[x], x)
  PROVE  Honest'
<1>1. m \in Node /\ Accounts(0, m)
  BY DEF TypeOK, Honest, Awake, Accounts
<1>2. known' = [known EXCEPT ![n] = [merged EXCEPT ![m] = 0]]
  BY DEF Contacted
<1>3. ASSUME NEW o \in Node, NEW x \in Node, known'[o][x] # Absent
      PROVE  Accounts(known'[o][x], x)
  <2>1. CASE o = n /\ x = m
    BY <1>1, <1>2, <2>1 DEF TypeOK
  <2>2. CASE o = n /\ x # m
    BY <1>2, <1>3, <2>2 DEF TypeOK
  <2>3. CASE o # n
    BY <1>2, <1>3, <2>3 DEF TypeOK, Honest, Accounted
  <2> QED BY <2>1, <2>2, <2>3
<1> QED BY <1>3 DEF Honest, Accounted, Awake, Accounts

\* For any number of nodes, readers, crashes and recoveries: however an entry was
\* relayed, its node ran when it was last seen, or a reader seeded it then.
THEOREM LastSeenIsAccounted == Spec => []LastSeenAccounted
<1>1. Init => Honest
  BY DEF Init, Honest, Accounted, Awake
<1>2. TypeOK /\ Honest /\ [Next]_vars => Honest'
  <2> SUFFICES ASSUME TypeOK, Honest, [Next]_vars PROVE Honest'
    OBVIOUS
  <2>1. ASSUME NEW n \in Node, NEW m \in Node, Discover(n, m) PROVE Honest'
    <3>1. Contacted(n, m, known[n]) /\ m \in up /\ quiet' = quiet /\ seeded' = seeded /\ up' = up
      BY <2>1 DEF Discover
    <3>2. known[n] \in [Node -> Age \cup {Absent}]
      BY DEF TypeOK
    <3>3. \A x \in Node : known[n][x] # Absent => Accounts(known[n][x], x)
      BY DEF Honest, Accounted
    <3> QED BY <3>1, <3>2, <3>3, ContactedHonest
  <2>2. ASSUME NEW n \in Node, NEW m \in Node, Query(n, m) PROVE Honest'
    <3>1. quiet' = quiet /\ seeded' = seeded /\ up' = up
      BY <2>2, QueryShape
    <3>2. ASSUME NEW S \in Samples(m, n), m \in up, Contacted(n, m, Relayed(n, m, S))
          PROVE  Honest'
      <4>1. ASSUME NEW x \in Node, Relayed(n, m, S)[x] # Absent
            PROVE  Accounts(Relayed(n, m, S)[x], x)
        <5>1. \/ Relayed(n, m, S)[x] = known[n][x]
              \/ Relayed(n, m, S)[x] = known[m][x]
          <6>1. known[n][x] \in Age \cup {Absent} /\ known[m][x] \in Age \cup {Absent}
            BY DEF TypeOK
          <6> QED BY <6>1, FresherType DEF Relayed
        <5> QED BY <4>1, <5>1 DEF Honest, Accounted
      <4> QED BY <3>1, <3>2, <4>1, RelayedType, ContactedHonest
    <3>3. CASE UNCHANGED <<known, cand>>
      BY <3>1, <3>3 DEF Honest, Accounted, Awake, Accounts
    <3> QED BY <2>2, <3>2, <3>3, QueryShape
  <2>3. ASSUME NEW n \in Node, NEW m \in Node, ProbeCandidate(n, m) PROVE Honest'
    <3>1. quiet' = quiet /\ seeded' = seeded /\ up' = up
      BY <2>3 DEF ProbeCandidate
    <3>2. CASE m \in up
      <4>1. known' = [known EXCEPT ![n][m] = 0] /\ Accounts(0, m)
        BY <2>3, <3>2 DEF ProbeCandidate, Honest, Awake, Accounts, TypeOK
      <4>2. ASSUME NEW o \in Node, NEW x \in Node, known'[o][x] # Absent
            PROVE  Accounts(known'[o][x], x)
        <5>1. known'[o][x] = IF o = n /\ x = m THEN 0 ELSE known[o][x]
          BY <4>1 DEF TypeOK
        <5> QED BY <4>1, <4>2, <5>1 DEF Honest, Accounted
      <4> QED BY <3>1, <4>2 DEF Honest, Accounted, Awake, Accounts
    <3>3. CASE m \notin up
      BY <2>3, <3>1, <3>3 DEF ProbeCandidate, Honest, Accounted, Awake, Accounts
    <3> QED BY <3>2, <3>3
  <2>4. ASSUME NEW n \in Node, Prune(n) PROVE Honest'
    <3>1. ASSUME NEW o \in Node, NEW x \in Node
          PROVE  known'[o][x] = known[o][x] \/ known'[o][x] = Absent
      BY <2>4 DEF Prune, TypeOK
    <3> QED BY <2>4, <3>1 DEF Prune, Honest, Accounted, Awake, Accounts
  <2>5. ASSUME NEW n \in Node, Crash(n) PROVE Honest'
    BY <2>5 DEF Crash, Honest, Accounted, Awake, Accounts
  <2>6. ASSUME NEW n \in Node, Recover(n) PROVE Honest'
    <3>1. /\ known' = known /\ up' = up \cup {n} /\ seeded' = seeded
          /\ quiet' = [quiet EXCEPT ![n] = 0]
      BY <2>6 DEF Recover
    <3>2. ASSUME NEW o \in Node, NEW x \in Node, known[o][x] # Absent
          PROVE  known[o][x] >= quiet'[x] \/ known[o][x] >= seeded[x]
      <4>1. known[o][x] \in Nat
        BY <3>2, OConsts DEF TypeOK, Age
      <4> QED BY <3>1, <3>2, <4>1 DEF TypeOK, Honest, Accounted, Accounts
    <3>3. Awake'
      BY <3>1 DEF TypeOK, Honest, Awake
    <3> QED BY <3>1, <3>2, <3>3 DEF Honest, Accounted, Accounts
  <2>7. ASSUME Tick PROVE Honest'
    <3>1. ASSUME NEW o \in Node, NEW x \in Node, known'[o][x] # Absent
          PROVE  known'[o][x] >= quiet'[x] \/ known'[o][x] >= seeded'[x]
      <4>1. known[o][x] # Absent /\ known'[o][x] = Older(known[o][x])
        BY <2>7, <3>1 DEF Tick
      <4>2. /\ known[o][x] \in Age /\ quiet[x] \in Age /\ seeded[x] \in Age
            /\ known[o][x] >= quiet[x] \/ known[o][x] >= seeded[x]
        BY <4>1 DEF TypeOK, Honest, Accounted, Accounts
      <4>3. quiet'[x] = (IF x \in up THEN 0 ELSE Older(quiet[x])) /\ seeded'[x] = Older(seeded[x])
        BY <2>7 DEF Tick
      <4> QED BY <4>1, <4>2, <4>3, OConsts DEF Older, Age
    <3>2. Awake'
      BY <2>7 DEF Tick, Awake, TypeOK
    <3> QED BY <3>1, <3>2 DEF Honest, Accounted, Accounts
  <2>8. CASE UNCHANGED vars
    BY <2>8 DEF vars, Honest, Accounted, Awake, Accounts
  <2>9. ASSUME NEW n \in Node, NEW m \in Node, Seed(n, m) PROVE Honest'
    <3>1. /\ known' = [known EXCEPT ![n][m] = 0] /\ seeded' = [seeded EXCEPT ![m] = 0]
          /\ quiet' = quiet /\ up' = up
      BY <2>9 DEF Seed
    <3>2. ASSUME NEW o \in Node, NEW x \in Node, known'[o][x] # Absent
          PROVE  known'[o][x] >= quiet[x] \/ known'[o][x] >= seeded'[x]
      <4>1. CASE x = m
        <5>1. seeded'[x] = 0 /\ known'[o][x] \in Nat
          BY <3>1, <3>2, <4>1, OConsts DEF TypeOK, Age
        <5> QED BY <5>1
      <4>2. CASE x # m
        <5>1. known'[o][x] = known[o][x] /\ seeded'[x] = seeded[x]
          BY <3>1, <4>2 DEF TypeOK
        <5> QED BY <3>2, <5>1 DEF Honest, Accounted, Accounts
      <4> QED BY <4>1, <4>2
    <3> QED BY <3>1, <3>2 DEF Honest, Accounted, Accounts, Awake
  <2> QED BY <2>1, <2>2, <2>3, <2>4, <2>5, <2>6, <2>7, <2>8, <2>9 DEF Next
<1>3. Honest => LastSeenAccounted
  BY DEF Honest, Accounted, Accounts, LastSeenAccounted
<1> QED BY <1>1, <1>2, <1>3, OverlayTypes, PTL DEF Spec

-----------------------------------------------------------------------------
\* The nodes that are not to become their own contacts.
Others == Node \ (Readers \cap Published)

\* An answer of m to n makes none of them its own contact or candidate, if n is
\* none of them when it is m itself.
LEMMA ContactedSelfless ==
  ASSUME TypeOK, NeverKnowsItself, NEW n \in Node, NEW m \in Node, n = m => n \notin Others,
         NEW merged \in [Node -> Age \cup {Absent}], merged[n] = known[n][n],
         Contacted(n, m, merged)
  PROVE  NeverKnowsItself'
<1>1. /\ known' = [known EXCEPT ![n] = [merged EXCEPT ![m] = 0]]
      /\ cand' = [cand EXCEPT ![m] = @ \cup {n}]
  BY DEF Contacted
<1>2. ASSUME NEW o \in Others
      PROVE  known'[o][o] = known[o][o] /\ (o \in cand'[o] => o \in cand[o])
  BY <1>1 DEF TypeOK, Others
<1> QED BY <1>2 DEF NeverKnowsItself, Contacts, Others

\* Only a reader that is published ever becomes its own contact or candidate.
THEOREM OnlyReadersKnowThemselves == Spec => []NeverKnowsItself
<1>1. Init => NeverKnowsItself
  BY DEF Init, NeverKnowsItself, Contacts
<1>2. TypeOK /\ NeverKnowsItself /\ [Next]_vars => NeverKnowsItself'
  <2> SUFFICES ASSUME TypeOK, NeverKnowsItself, [Next]_vars PROVE NeverKnowsItself'
    OBVIOUS
  <2>1. ASSUME NEW n \in Node, NEW m \in Node, Discover(n, m) PROVE NeverKnowsItself'
    <3>1. Contacted(n, m, known[n]) /\ n # m
      BY <2>1 DEF Discover
    <3>2. known[n] \in [Node -> Age \cup {Absent}]
      BY DEF TypeOK
    <3> QED BY <3>1, <3>2, ContactedSelfless
  <2>2. ASSUME NEW n \in Node, NEW m \in Node, Query(n, m) PROVE NeverKnowsItself'
    <3>1. n = m => n \notin Others
      BY <2>2, QueryShape DEF NeverKnowsItself, Others
    <3>2. ASSUME NEW S \in Samples(m, n), Contacted(n, m, Relayed(n, m, S))
          PROVE  NeverKnowsItself'
      BY <3>1, <3>2, RelayedType, ContactedSelfless
    <3>3. CASE UNCHANGED <<known, cand>>
      BY <3>3 DEF NeverKnowsItself, Contacts
    <3> QED BY <2>2, <3>2, <3>3, QueryShape
  <2>3. ASSUME NEW n \in Node, NEW m \in Node, ProbeCandidate(n, m)
        PROVE  NeverKnowsItself'
    <3>1. n = m => n \notin Others
      BY <2>3 DEF ProbeCandidate, NeverKnowsItself, Others
    <3>2. ASSUME NEW o \in Others
          PROVE  known'[o][o] = known[o][o] /\ (o \in cand'[o] => o \in cand[o])
      BY <2>3, <3>1 DEF ProbeCandidate, TypeOK, Others
    <3> QED BY <3>2 DEF NeverKnowsItself, Contacts, Others
  <2>4. ASSUME NEW n \in Node, Prune(n) PROVE NeverKnowsItself'
    <3>1. ASSUME NEW o \in Node
          PROVE  known'[o][o] = known[o][o] \/ known'[o][o] = Absent
      BY <2>4 DEF Prune, TypeOK
    <3> QED BY <2>4, <3>1 DEF Prune, NeverKnowsItself, Contacts
  <2>5. ASSUME NEW n \in Node, Crash(n) PROVE NeverKnowsItself'
    BY <2>5 DEF Crash, NeverKnowsItself, Contacts, TypeOK
  <2>6. ASSUME NEW n \in Node, Recover(n) PROVE NeverKnowsItself'
    BY <2>6 DEF Recover, NeverKnowsItself, Contacts
  <2>7. ASSUME Tick PROVE NeverKnowsItself'
    BY <2>7 DEF Tick, NeverKnowsItself, Contacts
  <2>8. CASE UNCHANGED vars
    BY <2>8 DEF vars, NeverKnowsItself, Contacts
  <2>9. ASSUME NEW n \in Node, NEW m \in Node, Seed(n, m) PROVE NeverKnowsItself'
    <3>1. ASSUME NEW o \in Others PROVE known'[o][o] = known[o][o]
      BY <2>9 DEF Seed, TypeOK, Others
    <3> QED BY <2>9, <3>1 DEF Seed, NeverKnowsItself, Contacts, Others
  <2> QED BY <2>1, <2>2, <2>3, <2>4, <2>5, <2>6, <2>7, <2>8, <2>9 DEF Next
<1> QED BY <1>1, <1>2, OverlayTypes, PTL DEF Spec

-----------------------------------------------------------------------------
\* n has reached m in this interval, or in the last and not yet in this one.
Reached(n, m) == known[n][m] = 0 \/ (known[n][m] = 1 /\ m \notin asked[n])

ReachedStays ==
  [][\A n, m \in Node : Reached(n, m) /\ {n, m} \subseteq up \cap up' => Reached(n, m)']_vars

\* An answer of m leaves reached whom n had reached, and others' entries alone.
LEMMA ContactedReached ==
  ASSUME TypeOK, NEW n \in Node, NEW m \in Node, NEW merged \in [Node -> Age \cup {Absent}],
         Contacted(n, m, merged), NEW o \in Node, NEW x \in Node, Reached(o, x),
         known[n][x] # Absent => merged[x] \in Age /\ merged[x] <= known[n][x]
  PROVE  Reached(o, x)'
<1>0. 0 # Absent /\ 1 # Absent
  BY OConsts DEF Age
<1>1. known' = [known EXCEPT ![n] = [merged EXCEPT ![m] = 0]]
  BY DEF Contacted
<1> DEFINE new == {y \in Node : known[n][y] = Absent /\ merged[y] # Absent}
<1>2. asked' = [asked EXCEPT ![n] = @ \cup {m} \cup new]
  BY DEF Contacted
<1>3. x \in new => known[n][x] = Absent
  OBVIOUS
<1> HIDE DEF new
<1>4. CASE o # n
  BY <1>1, <1>2, <1>4 DEF Reached, TypeOK
<1>5. CASE o = n /\ x = m
  BY <1>1, <1>5 DEF Reached, TypeOK
<1>6. CASE o = n /\ x # m
  <2>1. known'[n][x] = merged[x] /\ asked'[n] = asked[n] \cup {m} \cup new
    BY <1>1, <1>2, <1>6 DEF TypeOK
  <2>2. x \notin new /\ merged[x] \in Nat /\ merged[x] <= known[n][x]
    BY <1>0, <1>3, <1>6, OConsts DEF Reached, Age
  <2>3. x \in asked'[n] => x \in asked[n]
    BY <1>6, <2>1, <2>2
  <2> QED BY <1>6, <2>1, <2>2, <2>3 DEF Reached
<1> QED BY <1>4, <1>5, <1>6

\* No step makes a running node lose one it has reached, if that runs too.
LEMMA ReachedStep ==
  ASSUME PruneAge # 0, TypeOK, [Next]_vars, NEW o \in Node, NEW x \in Node, Reached(o, x),
         o \in up, x \in up, o \in up', x \in up'
  PROVE  Reached(o, x)'
<1>1. Reached(o, x)'
  <2>0. 0 # Absent /\ 1 # Absent /\ PruneAge \in Nat /\ PruneAge >= 1
    BY OConsts DEF Age
  <2>1. ASSUME NEW n \in Node, NEW m \in Node, Discover(n, m) PROVE Reached(o, x)'
    <3>1. known[n] \in [Node -> Age \cup {Absent}] /\ Contacted(n, m, known[n])
      BY <2>1 DEF Discover, TypeOK
    <3>2. known[n][x] # Absent => known[n][x] \in Age /\ known[n][x] <= known[n][x]
      BY OConsts DEF TypeOK, Age
    <3> QED BY <3>1, <3>2, ContactedReached
  <2>2. ASSUME NEW n \in Node, NEW m \in Node, Query(n, m) PROVE Reached(o, x)'
    <3>1. CASE m \in up
      <4>1. PICK S \in Samples(m, n) : Contacted(n, m, Relayed(n, m, S))
        BY <2>2, <3>1 DEF Query, Relayed
      <4>2. known[n][x] \in Age \cup {Absent} /\ known[m][x] \in Age \cup {Absent}
        BY DEF TypeOK
      <4>3. Relayed(n, m, S)[x] = known[n][x] \/ Relayed(n, m, S)[x] = Fresher(known[n][x], known[m][x])
        BY DEF Relayed
      <4>4. known[n][x] # Absent
              => Relayed(n, m, S)[x] \in Age /\ Relayed(n, m, S)[x] <= known[n][x]
        BY <4>2, <4>3, OConsts DEF Fresher, Age
      <4>5. Relayed(n, m, S) \in [Node -> Age \cup {Absent}]
        BY RelayedType
      <4> QED BY <4>1, <4>4, <4>5, ContactedReached
    <3>2. CASE m \notin up
      <4>1. known' = known /\ asked' = [asked EXCEPT ![n] = @ \cup {m}]
        BY <2>2, <3>2 DEF Query
      <4>2. x \in asked'[o] => x \in asked[o]
        BY <3>2, <4>1 DEF TypeOK
      <4> QED BY <4>1, <4>2 DEF Reached
    <3> QED BY <3>1, <3>2
  <2>3. ASSUME NEW n \in Node, NEW m \in Node, ProbeCandidate(n, m) PROVE Reached(o, x)'
    <3>1. CASE m \in up
      <4>1. known' = [known EXCEPT ![n][m] = 0] /\ asked' = [asked EXCEPT ![n] = @ \cup {m}]
        BY <2>3, <3>1 DEF ProbeCandidate
      <4>2. CASE o = n /\ x = m
        BY <4>1, <4>2 DEF Reached, TypeOK
      <4>3. CASE ~(o = n /\ x = m)
        BY <4>1, <4>3 DEF Reached, TypeOK
      <4> QED BY <4>2, <4>3
    <3>2. CASE m \notin up
      BY <2>3, <3>2 DEF ProbeCandidate, Reached
    <3> QED BY <3>1, <3>2
  <2>4. ASSUME NEW n \in Node, Prune(n) PROVE Reached(o, x)'
    <3>1. known[o][x] # Absent /\ ~(known[o][x] > PruneAge)
      BY <2>0 DEF Reached
    <3>2. known'[o][x] = known[o][x] /\ asked' = asked
      BY <2>4, <3>1 DEF Prune, TypeOK
    <3> QED BY <3>2 DEF Reached
  <2>5. ASSUME NEW n \in Node, Crash(n) PROVE Reached(o, x)'
    BY <2>5 DEF Crash, Reached
  <2>6. ASSUME NEW n \in Node, Recover(n) PROVE Reached(o, x)'
    BY <2>6 DEF Recover, Reached, TypeOK
  <2>7. ASSUME Tick PROVE Reached(o, x)'
    <3>1. known[o][x] # Absent /\ x \in asked[o]
      BY <2>0, <2>7 DEF Tick, Reached, Contacts
    <3>2. known[o][x] = 0
      BY <3>1 DEF Reached
    <3>3. known'[o][x] = 1 /\ asked'[o] = {}
      BY <2>0, <2>7, <3>2, OConsts DEF Tick, Older
    <3> QED BY <3>3 DEF Reached
  <2>8. CASE UNCHANGED vars
    BY <2>8 DEF vars, Reached
  <2>9. ASSUME NEW n \in Node, NEW m \in Node, Seed(n, m) PROVE Reached(o, x)'
    <3>1. known[o][x] # Absent
      BY <2>0 DEF Reached
    <3>2. known'[o][x] = known[o][x] /\ (x \in asked'[o] => x \in asked[o])
      BY <2>9, <3>1 DEF Seed, TypeOK
    <3> QED BY <3>2 DEF Reached
  <2> QED BY <2>1, <2>2, <2>3, <2>4, <2>5, <2>6, <2>7, <2>8, <2>9 DEF Next
<1> QED BY <1>1

\* In a network of any size, with any crashes and recoveries of others: while two
\* nodes run, the one that has reached the other keeps reaching it, and so keeps
\* its entry.
THEOREM ReachedAreRemembered == PruneAge # 0 => (Spec => ReachedStays)
<1> SUFFICES ASSUME PruneAge # 0 PROVE Spec => ReachedStays
  OBVIOUS
<1> DEFINE Stays == \A n, m \in Node : Reached(n, m) /\ {n, m} \subseteq up \cap up' => Reached(n, m)'
<1>1. TypeOK /\ [Next]_vars => [Stays]_vars
  BY ReachedStep
<1>2. Spec => [][Stays]_vars
  BY <1>1, OverlayTypes, PTL DEF Spec
<1> QED BY <1>2 DEF ReachedStays

\* A reader that has found itself published queries itself like any other contact.
SelvesReached == recovers = 0 => \A x \in up : known[x][x] # Absent => Reached(x, x)

\* Until a first recovery, a node that is its own contact keeps reaching itself.
THEOREM SelvesAreReached == PruneAge # 0 => (Spec => []SelvesReached)
<1> SUFFICES ASSUME PruneAge # 0 PROVE Spec => []SelvesReached
  OBVIOUS
<1>1. Init => SelvesReached
  BY DEF Init, SelvesReached
<1>2. TypeOK /\ TypeOK' /\ SelvesReached /\ [Next]_vars => SelvesReached'
  <2> SUFFICES ASSUME TypeOK, TypeOK', SelvesReached, [Next]_vars, recovers' = 0,
                      NEW x \in up', known'[x][x] # Absent
               PROVE  Reached(x, x)'
    BY DEF SelvesReached
  <2>0. x \in Node
    BY DEF TypeOK
  <2>1. CASE recovers = 0 /\ x \in up /\ known[x][x] # Absent
    BY <2>0, <2>1, ReachedStep DEF SelvesReached
  <2>2. ASSUME NEW n \in Node, NEW m \in Node, NEW merged \in [Node -> Age \cup {Absent}],
               merged[n] = known[n][n], known[x][x] = Absent, Contacted(n, m, merged)
        PROVE  Reached(x, x)'
    <3>1. known'[x][x] = IF x = n THEN IF x = m THEN 0 ELSE merged[x] ELSE known[x][x]
      BY <2>0, <2>2 DEF Contacted, TypeOK
    <3> QED BY <2>2, <3>1 DEF Reached
  <2>3. CASE recovers = 0 /\ x \in up /\ known[x][x] = Absent
    <3>1. ASSUME NEW n \in Node, NEW m \in Node, Discover(n, m) PROVE Reached(x, x)'
      BY <2>2, <2>3, <3>1 DEF Discover, TypeOK
    <3>2. ASSUME NEW n \in Node, NEW m \in Node, Query(n, m) PROVE Reached(x, x)'
      <4>1. ASSUME NEW S \in Samples(m, n), Contacted(n, m, Relayed(n, m, S))
            PROVE  Reached(x, x)'
        BY <2>2, <2>3, <4>1, RelayedType
      <4>2. known' # known
        BY <2>3
      <4> QED BY <3>2, <4>1, <4>2, QueryShape
    <3>3. ASSUME NEW n \in Node, NEW m \in Node, ProbeCandidate(n, m) PROVE Reached(x, x)'
      <4>1. known' = [known EXCEPT ![n][m] = 0]
        BY <2>3, <3>3 DEF ProbeCandidate
      <4>2. known'[x][x] = 0
        BY <2>0, <2>3, <4>1 DEF TypeOK
      <4> QED BY <4>2 DEF Reached
    <3>4. ASSUME NEW n \in Node, NEW m \in Node, Seed(n, m) PROVE Reached(x, x)'
      <4>1. known'[x][x] = 0
        BY <2>0, <2>3, <3>4 DEF Seed, TypeOK
      <4> QED BY <4>1 DEF Reached
    <3>5. ASSUME NEW n \in Node, Prune(n) PROVE FALSE
      BY <2>0, <2>3, <3>5 DEF Prune, TypeOK
    <3>6. ASSUME NEW n \in Node, Crash(n) PROVE FALSE
      BY <2>3, <3>6 DEF Crash
    <3>7. ASSUME NEW n \in Node, Recover(n) PROVE FALSE
      BY <2>3, <3>7 DEF Recover
    <3>8. ASSUME Tick PROVE FALSE
      BY <2>0, <2>3, <3>8 DEF Tick
    <3>9. CASE UNCHANGED vars
      BY <2>3, <3>9 DEF vars
    <3> QED BY <3>1, <3>2, <3>3, <3>4, <3>5, <3>6, <3>7, <3>8, <3>9 DEF Next
  <2>4. recovers = 0 /\ x \in up
    <3>1. recovers \in Nat /\ (recovers' = recovers \/ recovers' = recovers + 1)
      <4>1. ASSUME NEW n \in Node, NEW m \in Node, Query(n, m) PROVE recovers' = recovers
        BY <4>1, QueryShape
      <4> QED BY <4>1, OConsts
            DEF TypeOK, Next, vars, Discover, ProbeCandidate, Seed, Prune, Crash, Recover, Tick
    <3>2. recovers = 0
      BY <3>1
    <3>3. up' \subseteq up
      <4>1. ASSUME NEW n \in Node, NEW m \in Node, Query(n, m) PROVE up' = up
        BY <4>1, QueryShape
      <4>2. ASSUME NEW n \in Node, Recover(n) PROVE FALSE
        BY <3>2, <4>2 DEF Recover
      <4> QED BY <4>1, <4>2 DEF Next, vars, Discover, ProbeCandidate, Seed, Prune, Crash, Tick
    <3> QED BY <3>2, <3>3
  <2> QED BY <2>1, <2>3, <2>4
<1> QED BY <1>1, <1>2, OverlayTypes, PTL DEF Spec
-----------------------------------------------------------------------------
\* The others that have an entry for x, running or not.
Holders(x) == {n \in Node \ {x} : x \in Contacts(n)}

\* What another running node holds of x is at most as old, in intervals, as the
\* number of others that hold an entry for x; one less if the node is done with x
\* in this interval.
Told(x) ==
  \A n \in up \ {x} : x \in Contacts(n) =>
    /\ known[n][x] <= Cardinality(Holders(x))
    /\ x \in asked[n] => known[n][x] < Cardinality(Holders(x))
KnowledgeIsRecent == recovers = 0 => \A x \in up : Told(x)

\* More holders are not fewer.
LEMMA HoldersCount ==
  ASSUME NEW A \in SUBSET Node, NEW B \in SUBSET Node, A \subseteq B
  PROVE  /\ Cardinality(A) \in Nat /\ Cardinality(B) \in Nat
         /\ Cardinality(A) <= Cardinality(B)
         /\ A # B => Cardinality(A) < Cardinality(B)
<1>1. IsFiniteSet(Node)
  BY OverlayConstants
<1>2. IsFiniteSet(B) /\ IsFiniteSet(A)
  BY <1>1, FS_Subset
<1>3. Cardinality(A) \in Nat /\ Cardinality(B) \in Nat
  BY <1>2, FS_CardinalityType
<1>4. Cardinality(A) <= Cardinality(B)
  BY <1>2, FS_Subset
<1>5. Cardinality(A) = Cardinality(B) => A = B
  BY <1>2, FS_Subset
<1> QED BY <1>3, <1>4, <1>5

\* A running x stays Told when n learns of it, fresh from x or copied from a
\* running holder, when n's entry becomes fresher, and when nothing changes.
LEMMA ToldOfOne ==
  ASSUME TypeOK, TypeOK', NEW x \in Node, Told(x), NEW n \in up \ {x}, up' \subseteq up,
         \A o \in Node : o # n => known'[o][x] = known[o][x] /\ (x \in asked'[o] => x \in asked[o]),
         \/ known'[n][x] = 0
         \/ /\ known[n][x] # Absent /\ known'[n][x] # Absent /\ known'[n][x] <= known[n][x]
            /\ x \in asked'[n] => x \in asked[n]
         \/ known[n][x] = Absent /\ known'[n][x] = Absent
         \/ /\ known[n][x] = Absent
            /\ \E o \in up \ {x} : known[o][x] # Absent /\ known'[n][x] = known[o][x]
  PROVE  Told(x)'
<1> DEFINE A == Holders(x)
           B == Holders(x)'
<1>1. A \in SUBSET Node /\ B \in SUBSET Node
  BY DEF Holders
<1>2. n \in Node /\ 0 # Absent /\ \A o \in Node : known[o][x] # Absent => known[o][x] \in Nat
  BY OConsts DEF TypeOK, Age
<1>3. \A o \in Node : /\ o \in A <=> o # x /\ known[o][x] # Absent
                      /\ o \in B <=> o # x /\ known'[o][x] # Absent
  BY DEF Holders, Contacts
<1>4. A \subseteq B
  <2>1. ASSUME NEW o \in Node, o # x, known[o][x] # Absent PROVE known'[o][x] # Absent
    <3>1. CASE o # n
      BY <2>1, <3>1
    <3>2. CASE o = n
      BY <1>2, <2>1, <3>2
    <3> QED BY <3>1, <3>2
  <2> HIDE DEF A, B
  <2> QED BY <1>1, <1>3, <2>1
<1>5. /\ Cardinality(A) \in Nat /\ Cardinality(B) \in Nat
      /\ Cardinality(A) <= Cardinality(B)
      /\ A # B => Cardinality(A) < Cardinality(B)
  BY <1>1, <1>4, HoldersCount
<1>6. ASSUME NEW o \in up' \ {x}, known'[o][x] # Absent
      PROVE  /\ known'[o][x] <= Cardinality(B)
             /\ x \in asked'[o] => known'[o][x] < Cardinality(B)
  <2>1. o \in up /\ o \in Node
    BY DEF TypeOK
  <2>2. \A p \in up \ {x} : known[p][x] # Absent =>
             /\ known[p][x] <= Cardinality(A)
             /\ x \in asked[p] => known[p][x] < Cardinality(A)
    BY DEF Told, Contacts
  <2> HIDE DEF A, B
  <2>3. CASE o # n
    BY <1>2, <1>5, <1>6, <2>1, <2>2, <2>3
  <2>4. CASE o = n /\ known'[n][x] = 0
    <3>1. n \in B
      BY <1>2, <1>3, <2>4
    <3>2. {} \in SUBSET Node /\ {} \subseteq B /\ {} # B
      BY <3>1
    <3>3. Cardinality({}) < Cardinality(B) /\ Cardinality({}) \in Nat
      BY <1>1, <3>2, HoldersCount
    <3> QED BY <1>5, <2>4, <3>3
  <2>5. CASE /\ o = n /\ known[n][x] # Absent /\ known'[n][x] # Absent
             /\ known'[n][x] <= known[n][x] /\ (x \in asked'[n] => x \in asked[n])
    <3>1. known'[n][x] \in Nat
      BY <2>5, OConsts DEF TypeOK, Age
    <3> QED BY <1>2, <1>5, <2>1, <2>2, <2>5, <3>1
  <2>6. CASE /\ o = n /\ known[n][x] = Absent
             /\ \E p \in up \ {x} : known[p][x] # Absent /\ known'[n][x] = known[p][x]
    <3> PICK p \in up \ {x} : known[p][x] # Absent /\ known'[n][x] = known[p][x]
      BY <2>6
    <3>1. p \in Node
      BY DEF TypeOK
    <3>2. known[p][x] \in Nat /\ known[p][x] <= Cardinality(A)
      BY <1>2, <2>2, <3>1
    <3>3. n \notin A /\ n \in B
      BY <1>2, <1>3, <2>6
    <3>4. Cardinality(A) < Cardinality(B)
      BY <1>5, <3>3
    <3> QED BY <1>5, <2>6, <3>2, <3>4
  <2> QED BY <1>6, <2>3, <2>4, <2>5, <2>6
<1> QED BY <1>6 DEF Told, Contacts

\* An action that leaves the others' entries for x, and who of them is done with x,
\* alone keeps them Told of x.
LEMMA ToldKept ==
  ASSUME NEW x \in Node, Told(x), up' \subseteq up, up \subseteq Node,
         \A o \in Node \ {x} : known'[o][x] = known[o][x] /\ (x \in asked'[o] => x \in asked[o])
  PROVE  Told(x)'
<1>1. Holders(x)' = Holders(x)
  BY DEF Holders, Contacts
<1>2. Cardinality(Holders(x))' = Cardinality(Holders(x))
  BY <1>1
<1> QED BY <1>2 DEF Told, Contacts

\* An answer of m, and what it relays, keeps everybody Told.
LEMMA ContactedTold ==
  ASSUME TypeOK, TypeOK', NEW n \in up, NEW m \in up, up' = up, NEW x \in up, Told(x),
         NEW merged \in [Node -> Age \cup {Absent}], Contacted(n, m, merged),
         known[n][x] # Absent => merged[x] # Absent /\ merged[x] <= known[n][x],
         m # x /\ known[n][x] = Absent /\ merged[x] # Absent
           => \E o \in up \ {x} : known[o][x] # Absent /\ merged[x] = known[o][x]
  PROVE  Told(x)'
<1>1. n \in Node /\ m \in Node /\ x \in Node
  BY DEF TypeOK
<1>2. known' = [known EXCEPT ![n] = [merged EXCEPT ![m] = 0]]
  BY DEF Contacted
<1> DEFINE new == {y \in Node : known[n][y] = Absent /\ merged[y] # Absent}
<1>3. asked' = [asked EXCEPT ![n] = @ \cup {m} \cup new]
  BY DEF Contacted
<1>4. x \in new => known[n][x] = Absent
  OBVIOUS
<1> HIDE DEF new
<1>5. \A o \in Node : o # n => known'[o] = known[o] /\ asked'[o] = asked[o]
  BY <1>1, <1>2, <1>3 DEF TypeOK
<1>6. /\ known'[n][x] = IF x = m THEN 0 ELSE merged[x]
      /\ asked'[n] = asked[n] \cup {m} \cup new
  BY <1>1, <1>2, <1>3 DEF TypeOK
<1>7. x \in asked'[n] => x \in asked[n] \/ x = m \/ x \in new
  BY <1>6
<1>10. CASE x = n
  <2>1. up' \subseteq up /\ up \subseteq Node
    BY DEF TypeOK
  <2> QED BY <1>1, <1>5, <1>10, <2>1, ToldKept
<1>8. CASE x # n /\ x = m
  <2>1. known'[n][x] = 0
    BY <1>6, <1>8
  <2> QED BY <1>1, <1>5, <1>8, <2>1, ToldOfOne
<1>9. CASE x # n /\ x # m
  <2>1. known'[n][x] = merged[x] /\ (x \in asked'[n] => x \in asked[n] \/ x \in new)
    BY <1>6, <1>7, <1>9
  <2>2. CASE known[n][x] # Absent
    <3>1. x \in asked'[n] => x \in asked[n]
      BY <1>4, <2>1, <2>2
    <3> QED BY <1>1, <1>5, <1>9, <2>1, <2>2, <3>1, ToldOfOne
  <2>3. CASE known[n][x] = Absent
    BY <1>1, <1>5, <1>9, <2>1, <2>3, ToldOfOne
  <2> QED BY <2>2, <2>3
<1> QED BY <1>8, <1>9, <1>10

\* A chain of nodes cannot be longer than the network.
FewNodes == PruneAge # 0 /\ Cardinality(Node) <= PruneAge + 1

\* What is Told of x is too young to be pruned.
LEMMA ToldIsYoung ==
  ASSUME FewNodes, TypeOK, NEW x \in Node, Told(x), NEW n \in up \ {x},
         known[n][x] # Absent
  PROVE  ~(known[n][x] > PruneAge)
<1>1. Holders(x) \in SUBSET Node /\ Node \in SUBSET Node /\ Holders(x) # Node
  BY DEF Holders
<1>2. /\ Cardinality(Holders(x)) \in Nat /\ Cardinality(Node) \in Nat
      /\ Cardinality(Holders(x)) < Cardinality(Node)
  BY <1>1, HoldersCount
<1>3. n \in Node /\ known[n][x] \in Nat /\ known[n][x] <= Cardinality(Holders(x))
  BY OConsts DEF Told, Contacts, TypeOK, Age
<1> QED BY <1>2, <1>3, OConsts DEF FewNodes

\* Until a first recovery, what is known of a running node is never older, in
\* intervals, than there are nodes that know it: who queries a node each interval
\* refreshes its entry, and only a chain of nodes that hand the entry on before
\* they query it themselves lets it age.
THEOREM KnowledgeAges == FewNodes => (Spec => []KnowledgeIsRecent)
<1> SUFFICES ASSUME FewNodes PROVE Spec => []KnowledgeIsRecent
  OBVIOUS
<1>1. Init => KnowledgeIsRecent
  BY DEF Init, KnowledgeIsRecent, Told, Contacts
<1>2. TypeOK /\ TypeOK' /\ KnowledgeIsRecent /\ [Next]_vars => KnowledgeIsRecent'
  <2> SUFFICES ASSUME TypeOK, TypeOK', KnowledgeIsRecent, [Next]_vars,
                      recovers' = 0, NEW x \in up'
               PROVE  Told(x)'
    BY DEF KnowledgeIsRecent
  <2>0. x \in Node /\ up \subseteq Node /\ recovers \in Nat
    BY OConsts DEF TypeOK
  <2>1. ASSUME NEW n \in Node, NEW m \in Node, Discover(n, m) PROVE Told(x)'
    <3>1. n \in up /\ m \in up /\ Contacted(n, m, known[n]) /\ up' = up /\ recovers = 0
      BY <2>1 DEF Discover
    <3>2. known[n] \in [Node -> Age \cup {Absent}]
      BY DEF TypeOK
    <3>3. known[n][x] # Absent => known[n][x] <= known[n][x]
      BY <2>0, OConsts DEF TypeOK, Age
    <3>4. Told(x)
      BY <3>1 DEF KnowledgeIsRecent
    <3> QED BY <3>1, <3>2, <3>3, <3>4, ContactedTold
  <2>2. ASSUME NEW n \in Node, NEW m \in Node, Query(n, m) PROVE Told(x)'
    <3>1. up' = up /\ recovers = 0 /\ n \in up
      BY <2>2, QueryShape
    <3>2. Told(x)
      BY <3>1 DEF KnowledgeIsRecent
    <3>3. ASSUME NEW S \in Samples(m, n), m \in up, Contacted(n, m, Relayed(n, m, S))
          PROVE  Told(x)'
      <4>1. known[n][x] \in Age \cup {Absent} /\ known[m][x] \in Age \cup {Absent}
        BY <2>0 DEF TypeOK
      <4>2. Relayed(n, m, S)[x] = known[n][x] \/ Relayed(n, m, S)[x] = Fresher(known[n][x], known[m][x])
        BY <2>0 DEF Relayed
      <4>3. known[n][x] # Absent
              => Relayed(n, m, S)[x] # Absent /\ Relayed(n, m, S)[x] <= known[n][x]
        BY <4>1, <4>2, OConsts DEF Fresher, Age
      <4>4. known[n][x] = Absent /\ Relayed(n, m, S)[x] # Absent
              => known[m][x] # Absent /\ Relayed(n, m, S)[x] = known[m][x]
        BY <4>1, <4>2, OConsts DEF Fresher
      <4> DEFINE r == Relayed(n, m, S)
      <4>5. r \in [Node -> Age \cup {Absent}]
        BY RelayedType
      <4> HIDE DEF r
      <4>6. /\ known[n][x] # Absent => r[x] # Absent /\ r[x] <= known[n][x]
            /\ m # x /\ known[n][x] = Absent /\ r[x] # Absent
                 => \E o \in up \ {x} : known[o][x] # Absent /\ r[x] = known[o][x]
        BY <3>3, <4>3, <4>4 DEF r
      <4>7. Contacted(n, m, r)
        BY <3>3 DEF r
      <4> QED BY <3>1, <3>2, <3>3, <4>5, <4>6, <4>7, ContactedTold
    <3>4. ASSUME UNCHANGED <<known, cand>>, m \notin up PROVE Told(x)'
      <4>1. asked' = [asked EXCEPT ![n] = @ \cup {m}]
        BY <2>2, <3>4 DEF Query
      <4>2. \A o \in Node : known'[o][x] = known[o][x] /\ (x \in asked'[o] => x \in asked[o])
        BY <3>1, <3>4, <4>1 DEF TypeOK
      <4> QED BY <2>0, <3>1, <3>2, <4>2, ToldKept
    <3>5. m \in up => \E S \in Samples(m, n) : Contacted(n, m, Relayed(n, m, S))
      BY <2>2 DEF Query, Relayed
    <3>6. m \notin up => UNCHANGED <<known, cand>>
      BY <2>2 DEF Query
    <3> QED BY <3>3, <3>4, <3>5, <3>6
  <2>3. ASSUME NEW n \in Node, NEW m \in Node, ProbeCandidate(n, m) PROVE Told(x)'
    <3>1. up' = up /\ recovers = 0 /\ n \in up
      BY <2>3 DEF ProbeCandidate
    <3>2. Told(x)
      BY <3>1 DEF KnowledgeIsRecent
    <3>3. CASE m \in up
      <4>1. known' = [known EXCEPT ![n][m] = 0] /\ asked' = [asked EXCEPT ![n] = @ \cup {m}]
        BY <2>3, <3>3 DEF ProbeCandidate
      <4>2. \A o \in Node : o # n => known'[o] = known[o] /\ asked'[o] = asked[o]
        BY <4>1 DEF TypeOK
      <4>3. CASE x = m /\ x # n
        <5>1. known'[n][x] = 0
          BY <4>1, <4>3 DEF TypeOK
        <5> QED BY <2>0, <3>1, <3>2, <4>2, <4>3, <5>1, ToldOfOne
      <4>5. CASE x = n
        BY <2>0, <3>1, <3>2, <4>2, <4>5, ToldKept
      <4>4. CASE x # m
        <5>1. known'[n][x] = known[n][x] /\ (x \in asked'[n] => x \in asked[n])
          BY <2>0, <4>1, <4>4 DEF TypeOK
        <5>2. \A o \in Node : known'[o][x] = known[o][x] /\ (x \in asked'[o] => x \in asked[o])
          BY <4>2, <5>1
        <5> QED BY <2>0, <3>1, <3>2, <5>2, ToldKept
      <4> QED BY <4>3, <4>4, <4>5
    <3>4. CASE m \notin up
      <4>1. known' = known /\ asked' = asked
        BY <2>3, <3>4 DEF ProbeCandidate
      <4> QED BY <2>0, <3>1, <3>2, <4>1, ToldKept
    <3> QED BY <3>3, <3>4
  <2>4. ASSUME NEW n \in Node, Prune(n) PROVE Told(x)'
    <3>1. up' = up /\ asked' = asked /\ recovers = 0 /\ n \in up
      BY <2>4 DEF Prune
    <3>2. Told(x)
      BY <3>1 DEF KnowledgeIsRecent
    <3>3. \A o \in Node : o # n => known'[o][x] = known[o][x]
      BY <2>0, <2>4 DEF Prune, TypeOK
    <3>4. n # x => known'[n][x] = known[n][x]
      BY <2>0, <2>4, <3>1, <3>2, ToldIsYoung DEF Prune, TypeOK
    <3> QED BY <2>0, <3>1, <3>2, <3>3, <3>4, ToldKept
  <2>5. ASSUME NEW n \in Node, Crash(n) PROVE Told(x)'
    <3>1. up' \subseteq up /\ known' = known /\ asked' = asked /\ recovers = 0
      BY <2>5 DEF Crash
    <3>2. Told(x)
      BY <3>1 DEF KnowledgeIsRecent
    <3> QED BY <2>0, <3>1, <3>2, ToldKept
  <2>6. ASSUME NEW n \in Node, Recover(n) PROVE Told(x)'
    BY <2>0, <2>6 DEF Recover
  <2>7. ASSUME Tick PROVE Told(x)'
    <3>1. up' = up /\ recovers = 0 /\ asked' = [n \in Node |-> {}]
      BY <2>7 DEF Tick
    <3>2. Told(x)
      BY <3>1 DEF KnowledgeIsRecent
    <3>3. \A o \in Node : known'[o][x] = IF known[o][x] = Absent THEN Absent ELSE Older(known[o][x])
      BY <2>0, <2>7 DEF Tick
    <3>4. \A o \in Node : known[o][x] # Absent =>
             known[o][x] \in Nat /\ Older(known[o][x]) # Absent /\ Older(known[o][x]) <= known[o][x] + 1
      BY <2>0, OConsts, OlderType DEF TypeOK, Older, Age
    <3>5. Holders(x)' = Holders(x)
      BY <3>3, <3>4 DEF Holders, Contacts
    <3>6. Cardinality(Holders(x))' = Cardinality(Holders(x))
      BY <3>5
    <3>7. Cardinality(Holders(x)) \in Nat
      BY HoldersCount DEF Holders
    <3>8. ASSUME NEW o \in up' \ {x}, x \in Contacts(o)'
          PROVE  known'[o][x] <= Cardinality(Holders(x)) /\ x \notin asked'[o]
      <4>1. o \in up /\ o \in Node
        BY <2>0, <3>1
      <4>2. known[o][x] # Absent /\ x \in Contacts(o)
        BY <2>0, <3>3, <3>8, <4>1 DEF Contacts
      <4>3. x \in asked[o]
        BY <2>7, <4>1, <4>2 DEF Tick
      <4>4. known[o][x] < Cardinality(Holders(x))
        BY <3>2, <4>1, <4>2, <4>3 DEF Told
      <4>5. known'[o][x] <= known[o][x] + 1 /\ known[o][x] \in Nat /\ known'[o][x] \in Int
        BY <3>3, <3>4, <4>1, <4>2, OConsts, OlderType DEF TypeOK, Age
      <4> QED BY <3>1, <3>7, <4>1, <4>4, <4>5
    <3> QED BY <3>6, <3>8 DEF Told
  <2>8. CASE UNCHANGED vars
    <3>1. up' = up /\ known' = known /\ asked' = asked /\ recovers = 0
      BY <2>8 DEF vars
    <3>2. Told(x)
      BY <3>1 DEF KnowledgeIsRecent
    <3> QED BY <2>0, <3>1, <3>2, ToldKept
  <2>9. ASSUME NEW n \in Node, NEW m \in Node, Seed(n, m) PROVE Told(x)'
    <3>1. up' = up /\ recovers = 0 /\ n \in up
      BY <2>9 DEF Seed
    <3>2. Told(x)
      BY <3>1 DEF KnowledgeIsRecent
    <3>3. known' = [known EXCEPT ![n][m] = 0] /\ asked' = [asked EXCEPT ![n] = @ \cup {m}]
      BY <2>9 DEF Seed
    <3>4. \A o \in Node : o # n => known'[o] = known[o] /\ asked'[o] = asked[o]
      BY <3>3 DEF TypeOK
    <3>5. CASE x = m /\ x # n
      <4>1. known'[n][x] = 0
        BY <3>3, <3>5 DEF TypeOK
      <4> QED BY <2>0, <3>1, <3>2, <3>4, <3>5, <4>1, ToldOfOne
    <3>6. CASE x = n
      BY <2>0, <3>1, <3>2, <3>4, <3>6, ToldKept
    <3>7. CASE x # m
      <4>1. known'[n][x] = known[n][x] /\ (x \in asked'[n] => x \in asked[n])
        BY <2>0, <3>3, <3>7 DEF TypeOK
      <4>2. \A o \in Node : known'[o][x] = known[o][x] /\ (x \in asked'[o] => x \in asked[o])
        BY <3>4, <4>1
      <4> QED BY <2>0, <3>1, <3>2, <4>2, ToldKept
    <3> QED BY <3>5, <3>6, <3>7
  <2> QED BY <2>1, <2>2, <2>3, <2>4, <2>5, <2>6, <2>7, <2>8, <2>9 DEF Next
<1> QED BY <1>1, <1>2, OverlayTypes, PTL DEF Spec

\* In a network of up to PruneAge + 1 nodes, whatever crashes, no running node is
\* forgotten by a running node that knows it, until one comes back from an outage.
THEOREM RunningAreRemembered == FewNodes => (Spec => LiveNeverForgotten)
<1> SUFFICES ASSUME FewNodes PROVE Spec => LiveNeverForgotten
  OBVIOUS
<1> DEFINE Kept == recovers = 0 => \A n, m \in Node : m \in Contacts(n) /\ m \notin Contacts(n)'
                                     => m \notin up
<1>1. TypeOK /\ TypeOK' /\ SelvesReached /\ KnowledgeIsRecent /\ [Next]_vars => [Kept]_vars
  <2> SUFFICES ASSUME TypeOK, TypeOK', SelvesReached, KnowledgeIsRecent, [Next]_vars, recovers = 0,
                      NEW o \in Node, NEW x \in Node, known[o][x] # Absent, known'[o][x] = Absent,
                      x \in up
               PROVE  FALSE
    BY DEF Contacts
  <2>0. 0 # Absent /\ Told(x)
    BY OConsts DEF Age, KnowledgeIsRecent
  <2>1. ASSUME NEW n \in Node, NEW m \in Node, NEW merged \in [Node -> Age \cup {Absent}],
               Contacted(n, m, merged), known[n][x] # Absent => merged[x] # Absent
        PROVE  FALSE
    BY <2>0, <2>1 DEF Contacted, TypeOK
  <2>2. ASSUME NEW n \in Node, NEW m \in Node, Discover(n, m) PROVE FALSE
    <3>1. known[n] \in [Node -> Age \cup {Absent}] /\ Contacted(n, m, known[n])
      BY <2>2 DEF Discover, TypeOK
    <3> QED BY <2>1, <3>1
  <2>3. ASSUME NEW n \in Node, NEW m \in Node, Query(n, m) PROVE FALSE
    <3>1. ASSUME NEW S \in Samples(m, n), Contacted(n, m, Relayed(n, m, S)) PROVE FALSE
      <4>1. known[n][x] # Absent => Relayed(n, m, S)[x] # Absent
        BY FresherType DEF Relayed, Fresher, TypeOK
      <4> QED BY <2>1, <3>1, <4>1, RelayedType
    <3>2. known' # known
      OBVIOUS
    <3> QED BY <2>3, <3>1, <3>2, QueryShape
  <2>4. ASSUME NEW n \in Node, NEW m \in Node, ProbeCandidate(n, m) PROVE FALSE
    BY <2>0, <2>4 DEF ProbeCandidate, TypeOK
  <2>5. ASSUME NEW n \in Node, Prune(n) PROVE FALSE
    <3>1. o = n /\ known[n][x] > PruneAge /\ n \in up
      BY <2>5 DEF Prune, TypeOK
    <3>2. CASE o = x
      <4>1. known[x][x] = 0 \/ known[x][x] = 1
        BY <3>1, <3>2 DEF SelvesReached, Reached
      <4> QED BY <3>1, <3>2, <4>1, OConsts DEF FewNodes
    <3>3. CASE o # x
      BY <2>0, <3>1, <3>3, ToldIsYoung
    <3> QED BY <3>2, <3>3
  <2>6. ASSUME NEW n \in Node, Crash(n) PROVE FALSE
    BY <2>6 DEF Crash
  <2>7. ASSUME NEW n \in Node, Recover(n) PROVE FALSE
    BY <2>7 DEF Recover
  <2>8. ASSUME Tick PROVE FALSE
    <3>1. known[o][x] \in Age /\ known'[o][x] = Older(known[o][x])
      BY <2>8 DEF Tick, TypeOK
    <3> QED BY <3>1, OlderType, OConsts
  <2>9. CASE UNCHANGED vars
    BY <2>9 DEF vars
  <2>10. ASSUME NEW n \in Node, NEW m \in Node, Seed(n, m) PROVE FALSE
    BY <2>0, <2>10 DEF Seed, TypeOK
  <2> QED BY <2>2, <2>3, <2>4, <2>5, <2>6, <2>7, <2>8, <2>9, <2>10 DEF Next
<1>2. FewNodes => PruneAge # 0
  BY DEF FewNodes
<1>3. Spec => []SelvesReached
  BY <1>2, SelvesAreReached
<1>4. Spec => [][Kept]_vars
  BY <1>1, <1>3, OverlayTypes, KnowledgeAges, PTL DEF Spec
<1> QED BY <1>4 DEF LiveNeverForgotten

===============================================================================
