------------------------- MODULE TranspeerTableProofs -------------------------
(***************************************************************************)
(* Proofs about TranspeerTable, for every value of its constants: the two  *)
(* admission caps, and who may be evicted.                                 *)
(***************************************************************************)
EXTENDS TranspeerTable, SequenceTheorems, FiniteSetTheorems, WellFoundedInduction, TLAPS

\* The assumptions on the constants, one by one.
LEMMA TConsts ==
  /\ IsFiniteSet(Addr) /\ BucketOf \in [Addr -> Bucket]
  /\ Bucketed \in BOOLEAN /\ TriedTable \in BOOLEAN /\ AnchorRead \in BOOLEAN
  /\ MaxTracked \in Nat /\ PerBucket \in Nat /\ TriedThreshold \in Nat
  /\ MaxTracked > 0 /\ PerBucket > 0 /\ TriedThreshold > 0
  /\ PruneAge \in Nat /\ MaxAge \in Nat /\ PruneAge < MaxAge
  BY TranspeerConstants

\* A set of addresses is finite; one more makes it at most one larger, and
\* one in, one out leaves it no larger.
LEMMA AddrSets ==
  \A S, T \in SUBSET Addr :
    /\ Cardinality(S) \in Nat
    /\ T \subseteq S => Cardinality(T) <= Cardinality(S)
    /\ \A a \in Addr : T \subseteq S \cup {a} => Cardinality(T) <= Cardinality(S) + 1
    /\ \A a \in Addr, v \in S : T \subseteq (S \ {v}) \cup {a}
                                  => Cardinality(T) <= Cardinality(S)
<1> SUFFICES ASSUME NEW S \in SUBSET Addr, NEW T \in SUBSET Addr
             PROVE  /\ Cardinality(S) \in Nat
                    /\ T \subseteq S => Cardinality(T) <= Cardinality(S)
                    /\ \A a \in Addr : T \subseteq S \cup {a}
                                         => Cardinality(T) <= Cardinality(S) + 1
                    /\ \A a \in Addr, v \in S : T \subseteq (S \ {v}) \cup {a}
                                         => Cardinality(T) <= Cardinality(S)
  OBVIOUS
<1>1. \A U \in SUBSET Addr : IsFiniteSet(U) /\ Cardinality(U) \in Nat
  BY TConsts, FS_Subset, FS_CardinalityType
<1>2. T \subseteq S => Cardinality(T) <= Cardinality(S)
  BY <1>1, FS_Subset
<1>3. \A U \in SUBSET Addr, a \in Addr :
        T \subseteq U \cup {a} => Cardinality(T) <= Cardinality(U) + 1
  <2> SUFFICES ASSUME NEW U \in SUBSET Addr, NEW a \in Addr, T \subseteq U \cup {a}
               PROVE  Cardinality(T) <= Cardinality(U) + 1
    OBVIOUS
  <2>1. U \cup {a} \in SUBSET Addr
    OBVIOUS
  <2>2. Cardinality(T) <= Cardinality(U \cup {a})
    BY <1>1, <2>1, FS_Subset
  <2>3. Cardinality(U \cup {a}) <= Cardinality(U) + 1
    BY <1>1, FS_AddElement
  <2> QED BY <1>1, <2>1, <2>2, <2>3
<1>4. ASSUME NEW a \in Addr, NEW v \in S, T \subseteq (S \ {v}) \cup {a}
      PROVE  Cardinality(T) <= Cardinality(S)
  <2>1. S \ {v} \in SUBSET Addr
    OBVIOUS
  <2>2. Cardinality(S \ {v}) = Cardinality(S) - 1
    BY <1>1, FS_RemoveElement
  <2>3. Cardinality(T) <= Cardinality(S \ {v}) + 1
    BY <1>3, <1>4, <2>1
  <2> QED BY <1>1, <2>1, <2>2, <2>3
<1> QED BY <1>1, <1>2, <1>3, <1>4

\* A victim is one of the pool, so it is held.
LEMMA VictimInPool ==
  ASSUME NEW b PROVE Victims(b) \subseteq Pool /\ Pool \subseteq Held
<1>1. Pool \subseteq Held
  BY DEF Pool
<1>2. \A S : LeastRecent(S) \subseteq S
  BY DEF LeastRecent
<1>3. Unfaithful \subseteq Pool /\ Elsewhere(b) \subseteq Unfaithful
  BY DEF Unfaithful, Elsewhere
<1>4. \A c : PoolIn(c) \subseteq Pool
  BY DEF PoolIn
<1>5. CASE Unfaithful # {}
  <2>1. Victims(b) \subseteq Unfaithful
    BY <1>2, <1>3, <1>5 DEF Victims
  <2> QED BY <1>1, <1>3, <2>1
<1>6. CASE Unfaithful = {} /\ ~Bucketed
  BY <1>1, <1>2, <1>6 DEF Victims
<1>7. CASE Unfaithful = {} /\ Bucketed
  <2>1. Victims(b) = UNION {LeastRecent(PoolIn(c)) : c \in Fullest \ {b}}
    BY <1>7 DEF Victims
  <2> QED BY <1>1, <1>2, <1>4, <2>1
<1> QED BY <1>5, <1>6, <1>7

-----------------------------------------------------------------------------
(* The shape of a step: it admits one newcomer, or it adds nobody.         *)

Admits ==
  \E a \in Addr, age, first \in Age, gossiped \in BOOLEAN :
     Admit(a, age, first, gossiped)

\* What Insert does to the table and to its copy.
LEMMA InsertShape ==
  ASSUME TablesOK, NEW a \in Addr, NEW age \in Age, NEW first \in Age,
         NEW gone, Insert(a, age, first, gone)
  PROVE  /\ TablesOK'
         /\ Held' = (Held \ gone) \cup {a}
         /\ DiskMirrors => DiskMirrors'
<1> DEFINE e == [age |-> age, first |-> first, answered |-> 0, alive |-> FALSE,
                 published |-> FALSE, unfaithful |-> FALSE]
<1>1. e \in Entry /\ RowOf(e) \in Row
  BY TConsts DEF Entry, Row, RowOf
<1>2. /\ table' = [x \in Addr |-> IF x = a THEN e
                                  ELSE IF x \in gone THEN Absent ELSE table[x]]
      /\ disk' = [x \in Addr |-> IF x = a THEN RowOf(e)
                                 ELSE IF x \in gone THEN Absent ELSE disk[x]]
  BY DEF Insert
<1>3. e # Absent
  BY <1>1, NoEntry
<1> HIDE DEF e
<1>4. TablesOK'
  BY <1>1, <1>2 DEF TablesOK
<1>5. Held' = (Held \ gone) \cup {a}
  BY <1>2, <1>3 DEF Held
<1>6. DiskMirrors => DiskMirrors'
  BY <1>2, <1>3 DEF DiskMirrors, Held
<1> QED BY <1>4, <1>5, <1>6

\* What Store does.
LEMMA StoreShape ==
  ASSUME TablesOK, NEW a \in Held, NEW e \in Entry, Store(a, e)
  PROVE  TablesOK' /\ Held' = Held /\ (DiskMirrors => DiskMirrors')
<1>1. a \in Addr /\ RowOf(e) \in Row /\ e # Absent
  BY NoEntry DEF Held, RowOf, Row, Entry
<1>2. /\ table'[a] = e /\ disk'[a] = RowOf(e)
      /\ \A o \in Addr \ {a} : table'[o] = table[o] /\ disk'[o] = disk[o]
  BY <1>1 DEF Store, TablesOK
<1>3. TablesOK'
  BY <1>1 DEF Store, TablesOK
<1>4. Held' = Held
  BY <1>1, <1>2 DEF Held
<1>5. DiskMirrors => DiskMirrors'
  BY <1>1, <1>2 DEF DiskMirrors, Held
<1> QED BY <1>3, <1>4, <1>5

\* add_transpeer keeps the tables sound; it admits a newcomer or adds nobody.
LEMMA AddShape ==
  ASSUME TablesOK, NEW a \in Addr, NEW age \in Age, NEW first \in Age,
         NEW gossiped \in BOOLEAN, AddTranspeer(a, age, first, gossiped)
  PROVE  /\ TablesOK'
         /\ Held' = Held \/ Admits
         /\ DiskMirrors => DiskMirrors'
<1>1. CASE Refresh(a, age)
  <2> DEFINE e == [table[a] EXCEPT !.age = Younger(@, age)]
  <2>1. a \in Held /\ table[a] \in Entry /\ Store(a, e)
    BY <1>1 DEF Refresh, Held, TablesOK
  <2>2. Younger(table[a].age, age) \in Age
    BY <2>1 DEF Entry, Younger
  <2>3. e \in Entry
    BY <2>1, <2>2 DEF Entry
  <2> HIDE DEF e
  <2> QED BY <2>1, <2>3, StoreShape
<1>2. CASE Admit(a, age, first, gossiped)
  <2>1. Admits
    BY <1>2 DEF Admits
  <2>2. PICK gone : Insert(a, age, first, gone)
    BY <1>2 DEF Admit
  <2> QED BY <2>1, <2>2, InsertShape
<1>3. CASE Refuse(a, gossiped)
  BY <1>3 DEF Refuse, tables, TablesOK, Held, DiskMirrors
<1> QED BY <1>1, <1>2, <1>3 DEF AddTranspeer

\* What the entry-wise updates keep.
LEMMA EntryUpdates ==
  \A e \in Entry :
    /\ \A ok \in BOOLEAN : Marked(e, ok) \in Entry /\ RowOf(Marked(e, ok)) = RowOf(e)
    /\ Aged(e) \in Entry /\ RowOf(e) \in Row
    /\ AgedRow(RowOf(e)) \in Row /\ AgedRow(RowOf(e)) = RowOf(Aged(e))
<1> SUFFICES ASSUME NEW e \in Entry
             PROVE  /\ \A ok \in BOOLEAN : /\ Marked(e, ok) \in Entry
                                           /\ RowOf(Marked(e, ok)) = RowOf(e)
                    /\ Aged(e) \in Entry /\ RowOf(e) \in Row
                    /\ AgedRow(RowOf(e)) \in Row /\ AgedRow(RowOf(e)) = RowOf(Aged(e))
  OBVIOUS
<1>1. ASSUME NEW ok \in BOOLEAN
      PROVE  Marked(e, ok) \in Entry /\ RowOf(Marked(e, ok)) = RowOf(e)
  <2>1. PICK n \in 0..TriedThreshold :
               n = IF ok THEN Younger(TriedThreshold, e.answered + 1) ELSE e.answered
    BY TConsts DEF Entry, Younger
  <2>2. Marked(e, ok) = [e EXCEPT !.alive = ok, !.answered = n]
    BY <2>1 DEF Marked
  <2> QED BY <2>2 DEF Entry, RowOf
<1>2. RowOf(e) \in Row
  BY DEF RowOf, Row, Entry
<1>3. Aged(e) \in Entry /\ AgedRow(RowOf(e)) \in Row /\ AgedRow(RowOf(e)) = RowOf(Aged(e))
  <2>1. Older(e.age) \in Age /\ Older(e.first) \in Age
    BY TConsts DEF Entry, Age, Older
  <2>2. PICK x \in Age, y \in Age : x = Older(e.age) /\ y = Older(e.first)
    BY <2>1
  <2>3. Aged(e) = [e EXCEPT !.age = x, !.first = y]
    BY <2>2 DEF Aged
  <2>4. Aged(e) \in Entry
    BY <2>3 DEF Entry
  <2>5. RowOf(Aged(e)) = [age |-> x, first |-> y, published |-> e.published,
                          unfaithful |-> e.unfaithful]
    BY <2>3 DEF RowOf, Entry
  <2>6. AgedRow(RowOf(e)) = RowOf(Aged(e))
    BY <2>2, <2>5 DEF RowOf, AgedRow
  <2>7. RowOf(Aged(e)) \in Row
    BY <2>4 DEF RowOf, Row, Entry
  <2> QED BY <2>4, <2>6, <2>7
<1> QED BY <1>1, <1>2, <1>3

Sound == TablesOK /\ DiskMirrors

\* So does every step: whoever is new in the table was admitted.
LEMMA NextShape ==
  ASSUME Sound, [Next]_vars
  PROVE  Sound' /\ (Admits \/ Held' \subseteq Held)
<1> USE DEF Sound
<1>1. ASSUME NEW a \in Addr, NEW age \in Age, NEW first \in Age,
             NEW g \in BOOLEAN, AddTranspeer(a, age, first, g)
      PROVE  Sound' /\ (Admits \/ Held' \subseteq Held)
  BY <1>1, AddShape
<1>2. 0 \in Age
  BY TConsts DEF Age
<1>3. ASSUME UNCHANGED <<table, disk>>
      PROVE  Sound' /\ Held' \subseteq Held
  BY <1>3 DEF TablesOK, DiskMirrors, Held
<1>4. ASSUME NEW a \in Addr, Discover(a) \/ Answer(a)
      PROVE  Sound' /\ (Admits \/ Held' \subseteq Held)
  BY <1>1, <1>2, <1>4 DEF Discover, Answer
<1>5. ASSUME NEW a \in Addr, NEW b \in Addr, NEW age \in Age, NEW first \in Age,
             Relay(a, b, age, first)
      PROVE  Sound' /\ (Admits \/ Held' \subseteq Held)
  BY <1>1, <1>5 DEF Relay
<1>6. CASE StartBatch
  BY <1>3, <1>6 DEF StartBatch, tables
<1>7. ASSUME NEW a \in Addr, Finish(a)
      PROVE  Sound' /\ Held' \subseteq Held
  <2>1. CASE a \notin Held
    BY <1>3, <1>7, <2>1 DEF Finish
  <2>2. CASE a \in Held
    <3>1. PICK ok \in BOOLEAN : table' = [table EXCEPT ![a] = Marked(table[a], ok)]
      BY <1>7, <2>2 DEF Finish
    <3> DEFINE e == Marked(table[a], ok)
    <3>2. table[a] \in Entry /\ e \in Entry /\ RowOf(e) = RowOf(table[a])
      BY <2>2, EntryUpdates DEF Held, TablesOK
    <3>3. disk' = disk /\ e # Absent
      BY <1>7, <3>2, NoEntry DEF Finish
    <3>4. table' = [table EXCEPT ![a] = e]
      BY <3>1
    <3> HIDE DEF e
    <3>5. TablesOK'
      BY <3>2, <3>3, <3>4 DEF TablesOK
    <3>6. table'[a] = e /\ \A o \in Addr \ {a} : table'[o] = table[o]
      BY <3>4 DEF TablesOK
    <3>7. Held' = Held
      BY <2>2, <3>3, <3>6 DEF Held
    <3>8. DiskMirrors'
      BY <2>2, <3>2, <3>3, <3>6, <3>7 DEF DiskMirrors
    <3> QED BY <3>5, <3>7, <3>8
  <2> QED BY <2>1, <2>2
<1>8. ASSUME NEW a \in Addr, NEW flag \in BOOLEAN,
             SetPublished(a, flag) \/ SetUnfaithful(a, flag)
      PROVE  Sound' /\ Held' \subseteq Held
  <2>1. a \in Held /\ table[a] \in Entry
    BY <1>8 DEF SetPublished, SetUnfaithful, Held, TablesOK
  <2>2. /\ [table[a] EXCEPT !.published = flag] \in Entry
        /\ [table[a] EXCEPT !.unfaithful = flag] \in Entry
    BY <2>1 DEF Entry
  <2>3. PICK e \in Entry : Store(a, e)
    BY <1>8, <2>2 DEF SetPublished, SetUnfaithful
  <2> QED BY <2>1, <2>3, StoreShape
<1>9. CASE Prune
  <2>1. /\ table' = [a \in Addr |-> IF a \in Stale THEN Absent ELSE table[a]]
        /\ disk' = [a \in Addr |-> IF a \in Stale THEN Absent ELSE disk[a]]
    BY <1>9 DEF Prune
  <2> QED BY <2>1 DEF TablesOK, DiskMirrors, Held
<1>10. CASE Restart
  <2> DEFINE L(a) == [age |-> disk[a].age, first |-> disk[a].first, answered |-> 0,
                      alive |-> FALSE, published |-> disk[a].published,
                      unfaithful |-> disk[a].unfaithful]
  <2>1. table' = [a \in Addr |-> IF disk[a] = Absent THEN Absent ELSE L(a)]
        /\ disk' = disk
    BY <1>10 DEF Restart
  <2>2. ASSUME NEW a \in Addr, disk[a] # Absent
        PROVE  L(a) \in Entry /\ RowOf(L(a)) = disk[a] /\ L(a) # Absent
    <3>1. disk[a] \in Row
      BY <2>2 DEF TablesOK
    <3>2. L(a) \in Entry
      BY <3>1, TConsts DEF Row, Entry
    <3>3. RowOf(L(a)) = disk[a]
      BY <3>1 DEF RowOf, Row
    <3> QED BY <3>2, <3>3, NoEntry
  <2> HIDE DEF L
  <2>3. TablesOK'
    BY <2>1, <2>2 DEF TablesOK
  <2>4. Held' = {a \in Addr : disk[a] # Absent}
    BY <2>1, <2>2 DEF Held
  <2>5. DiskMirrors'
    BY <2>1, <2>2, <2>4 DEF DiskMirrors
  <2>6. Held' \subseteq Held
    BY <2>4 DEF DiskMirrors
  <2> QED BY <2>3, <2>5, <2>6
<1>11. CASE Tick
  <2>1. table' = [a \in Addr |-> IF a \in Held THEN Aged(table[a]) ELSE Absent]
    BY <1>11 DEF Tick
  <2>2. disk' = [a \in Addr |-> IF disk[a] # Absent THEN AgedRow(disk[a]) ELSE Absent]
    BY <1>11 DEF Tick
  <2>3. ASSUME NEW a \in Held
        PROVE  /\ a \in Addr /\ disk[a] # Absent
               /\ Aged(table[a]) \in Entry /\ Aged(table[a]) # Absent
               /\ AgedRow(disk[a]) = RowOf(Aged(table[a]))
    <3>1. a \in Addr /\ table[a] \in Entry /\ disk[a] = RowOf(table[a])
      BY DEF Held, TablesOK, DiskMirrors
    <3>2. disk[a] \in Row /\ disk[a] # Absent
      BY <3>1, EntryUpdates, NoEntry
    <3> QED BY <3>1, <3>2, EntryUpdates, NoEntry
  <2>4. \A a \in Addr \ Held : disk[a] = Absent
    BY DEF DiskMirrors
  <2>5. \A a \in Addr : disk'[a] = IF a \in Held THEN RowOf(Aged(table[a])) ELSE Absent
    BY <2>2, <2>3, <2>4
  <2>6. Held' = Held
    BY <2>1, <2>3 DEF Held
  <2>7. \A e \in Entry : RowOf(e) \in Row
    BY EntryUpdates
  <2>8. TablesOK'
    BY <2>1, <2>2, <2>3, <2>5, <2>7 DEF TablesOK
  <2>9. DiskMirrors'
    BY <2>1, <2>5, <2>6 DEF DiskMirrors
  <2> QED BY <2>6, <2>8, <2>9
<1>12. CASE UNCHANGED vars
  BY <1>3, <1>12 DEF vars
<1> QED
  BY <1>4, <1>5, <1>6, <1>7, <1>8, <1>9, <1>10, <1>11, <1>12 DEF Next

\* The tables keep their types, and the database is a copy of the table.
THEOREM TranspeersMirrored == Spec => []Sound
<1>1. Init => Sound
  BY DEF Init, Sound, TablesOK, DiskMirrors, Held
<1>2. Sound /\ [Next]_vars => Sound'
  BY NextShape
<1> QED BY <1>1, <1>2, PTL DEF Spec

\* The rows in the database are exactly the persisted part of the table, also
\* after evictions, prunings and restarts.
THEOREM RowsMirrored == Spec => []DiskMirrors
<1>1. Sound => DiskMirrors
  BY DEF Sound
<1> QED BY <1>1, TranspeersMirrored, PTL
-----------------------------------------------------------------------------
(* What an admission does to the set of entries                            *)

\* An admission finds room in the bucket under --bucketed, and either room in
\* the table or a victim whose place the newcomer takes.
LEMMA AdmitShape ==
  ASSUME Sound, Admits
  PROVE  \E a \in Addr \ Held :
           /\ Bucketed => Cardinality(InBucket(BucketOf[a])) < PerBucket
           /\ \/ Cardinality(Held) < MaxTracked /\ Held' = Held \cup {a}
              \/ \E v \in Victims(BucketOf[a]) : Held' = (Held \ {v}) \cup {a}
<1> PICK a \in Addr, age \in Age, first \in Age, g \in BOOLEAN :
         Admit(a, age, first, g)
  BY DEF Admits
<1>1. a \in Addr \ Held /\ ~Capped(a, g)
  BY DEF Admit
<1>2. Bucketed => Cardinality(InBucket(BucketOf[a])) < PerBucket
  <2>1. Cardinality(InBucket(BucketOf[a])) \in Nat
    BY AddrSets DEF InBucket, Held
  <2> QED BY <1>1, <2>1, TConsts DEF Capped
<1>3. CASE Cardinality(Held) < MaxTracked
  <2>1. Insert(a, age, first, {})
    BY <1>3 DEF Admit
  <2>2. Held' = Held \cup {a}
    BY <2>1, InsertShape DEF Sound
  <2> QED BY <1>1, <1>2, <1>3, <2>2
<1>4. CASE ~(Cardinality(Held) < MaxTracked)
  <2>1. PICK v \in Victims(BucketOf[a]) : Insert(a, age, first, {v})
    BY <1>4 DEF Admit
  <2>2. Held' = (Held \ {v}) \cup {a}
    BY <2>1, InsertShape DEF Sound
  <2> QED BY <1>1, <1>2, <2>2
<1> QED BY <1>3, <1>4

\* Whoever an eviction drops was a victim of _pick_eviction.
LEMMA EvictedIsVictim ==
  ASSUME Sound, [Next]_vars, Evicts, NEW v \in Held \ Held'
  PROVE  \E b \in Bucket : v \in Victims(b)
<1>1. Admits
  BY NextShape DEF Evicts
<1>2. PICK a \in Addr \ Held :
         \/ Held' = Held \cup {a}
         \/ \E o \in Victims(BucketOf[a]) : Held' = (Held \ {o}) \cup {a}
  BY <1>1, AdmitShape
<1>3. v \in Victims(BucketOf[a])
  BY <1>2
<1>4. BucketOf[a] \in Bucket
  BY TConsts
<1> QED BY <1>3, <1>4

\* The table never holds more than MAX_TRANSPEERS_TRACKED transpeers, whatever
\* is discovered, relayed, answered late, evicted, pruned or loaded again.
THEOREM CapacityHolds == Spec => []CapacityBound
<1>1. Init => CapacityBound
  <2>1. ASSUME Init PROVE Held = {}
    BY <2>1 DEF Init, Held
  <2> QED BY <2>1, FS_EmptySet, TConsts DEF CapacityBound
<1>2. Sound /\ CapacityBound /\ [Next]_vars => CapacityBound'
  <2> SUFFICES ASSUME Sound, CapacityBound, [Next]_vars
               PROVE  Cardinality(Held') <= MaxTracked
    BY DEF CapacityBound
  <2>1. Held \in SUBSET Addr /\ Held' \in SUBSET Addr
    BY DEF Held
  <2>2. Cardinality(Held) \in Nat /\ Cardinality(Held') \in Nat
    BY <2>1, AddrSets
  <2>3. Cardinality(Held) <= MaxTracked
    BY DEF CapacityBound
  <2>4. CASE Held' \subseteq Held
    <3>1. Cardinality(Held') <= Cardinality(Held)
      BY <2>1, <2>4, AddrSets
    <3> QED BY <2>2, <2>3, <3>1, TConsts
  <2>5. CASE Admits
    <3>1. PICK a \in Addr \ Held :
             \/ Cardinality(Held) < MaxTracked /\ Held' = Held \cup {a}
             \/ \E v \in Victims(BucketOf[a]) : Held' = (Held \ {v}) \cup {a}
      BY <2>5, AdmitShape
    <3>2. CASE Cardinality(Held) < MaxTracked /\ Held' = Held \cup {a}
      <4>1. Cardinality(Held') <= Cardinality(Held) + 1
        BY <2>1, <3>2, AddrSets
      <4> QED BY <2>2, <3>2, <4>1, TConsts
    <3>3. CASE \E v \in Victims(BucketOf[a]) : Held' = (Held \ {v}) \cup {a}
      <4>1. PICK v \in Held : Held' = (Held \ {v}) \cup {a}
        BY <3>3, VictimInPool
      <4>2. Cardinality(Held') <= Cardinality(Held)
        BY <2>1, <4>1, AddrSets
      <4> QED BY <2>2, <2>3, <4>2, TConsts
    <3> QED BY <3>1, <3>2, <3>3
  <2> QED BY <2>4, <2>5, NextShape
<1> QED BY <1>1, <1>2, TranspeersMirrored, PTL DEF Spec

\* Under --bucketed no bucket ever holds more than its cap, on any path.
THEOREM BucketsHold == Spec => []BucketBound
<1>1. Init => BucketBound
  <2>1. ASSUME Init, NEW b \in Bucket PROVE InBucket(b) = {}
    BY <2>1 DEF Init, Held, InBucket
  <2> QED BY <2>1, FS_EmptySet, TConsts DEF BucketBound
<1>2. Sound /\ BucketBound /\ [Next]_vars => BucketBound'
  <2> SUFFICES ASSUME Sound, BucketBound, [Next]_vars, Bucketed, NEW b \in Bucket
               PROVE  Cardinality(InBucket(b)') <= PerBucket
    BY DEF BucketBound
  <2>1. InBucket(b) \in SUBSET Addr /\ InBucket(b)' \in SUBSET Addr
    BY DEF InBucket, Held
  <2>2. Cardinality(InBucket(b)) \in Nat /\ Cardinality(InBucket(b)') \in Nat
    BY <2>1, AddrSets
  <2>3. Cardinality(InBucket(b)) <= PerBucket
    BY DEF BucketBound
  <2>4. ASSUME InBucket(b)' \subseteq InBucket(b)
        PROVE  Cardinality(InBucket(b)') <= PerBucket
    <3>1. Cardinality(InBucket(b)') <= Cardinality(InBucket(b))
      BY <2>1, <2>4, AddrSets
    <3> QED BY <2>2, <2>3, <3>1, TConsts
  <2>5. CASE Held' \subseteq Held
    BY <2>4, <2>5 DEF InBucket
  <2>6. CASE Admits
    <3>1. PICK a \in Addr \ Held :
             /\ Cardinality(InBucket(BucketOf[a])) < PerBucket
             /\ Held' \subseteq Held \cup {a}
      BY <2>6, AdmitShape
    <3>2. CASE BucketOf[a] = b
      <4>1. InBucket(b)' \subseteq InBucket(b) \cup {a}
        BY <3>1 DEF InBucket
      <4>2. Cardinality(InBucket(b)') <= Cardinality(InBucket(b)) + 1
        BY <2>1, <4>1, AddrSets
      <4> QED BY <2>2, <3>1, <3>2, <4>2, TConsts
    <3>3. CASE BucketOf[a] # b
      <4>1. InBucket(b)' \subseteq InBucket(b)
        BY <3>1, <3>3 DEF InBucket
      <4> QED BY <2>4, <4>1
    <3> QED BY <3>2, <3>3
  <2> QED BY <2>5, <2>6, NextShape
<1> QED BY <1>1, <1>2, TranspeersMirrored, PTL DEF Spec

\* A tried transpeer is evicted only when all the others are tried, too.
THEOREM TriedAreLast == Spec => TriedOutlast
<1>1. Sound /\ [Next]_vars =>
        (Evicts => \A v \in Held \ Held' : Tried(v) => \A a \in Held : Tried(a))
  <2> SUFFICES ASSUME Sound, [Next]_vars, Evicts, NEW v \in Held \ Held', Tried(v)
               PROVE  \A a \in Held : Tried(a)
    OBVIOUS
  <2>1. v \in Pool
    BY EvictedIsVictim, VictimInPool
  <2> QED BY <2>1 DEF Pool
<1> QED BY <1>1, TranspeersMirrored, PTL DEF Spec, TriedOutlast

\* A faithful transpeer is not evicted while an unfaithful one that is no
\* better tried is kept.
THEOREM FaithfulAreLast == Spec => FaithfulOutlast
<1>1. Sound /\ [Next]_vars =>
        (AnchorRead /\ Evicts =>
           \A v \in Held \ Held', a \in Held :
             table[a].unfaithful /\ (Tried(a) => Tried(v)) => table[v].unfaithful)
  <2> SUFFICES ASSUME Sound, [Next]_vars, AnchorRead, Evicts,
                      NEW v \in Held \ Held', NEW a \in Held,
                      table[a].unfaithful, Tried(a) => Tried(v)
               PROVE  table[v].unfaithful
    OBVIOUS
  <2>1. PICK b \in Bucket : v \in Victims(b)
    BY EvictedIsVictim
  <2>2. v \in Pool
    BY <2>1, VictimInPool
  <2>3. a \in Unfaithful
    BY <2>2 DEF Pool, Unfaithful
  <2>4. v \in Unfaithful
    BY <2>1, <2>3 DEF Victims, LeastRecent, Elsewhere
  <2> QED BY <2>4 DEF Unfaithful
<1> QED BY <1>1, TranspeersMirrored, PTL DEF Spec, FaithfulOutlast

-----------------------------------------------------------------------------
(* The rotation holds each entry once                                      *)

\* Every set of natural numbers with an element has a least one.
LEMMA NatMin ==
  ASSUME NEW S \in SUBSET Nat, S # {}
  PROVE  \E n \in S : \A m \in S : n <= m
<1> DEFINE R == OpToRel(<, Nat)
<1>1. IsWellFoundedOn(R, Nat)
  BY NatLessThanWellFounded
<1> HIDE DEF R
<1>2. PICK x \in S : \A y \in S : ~(<<y, x>> \in R)
  BY <1>1, WFMin
<1>3. ASSUME NEW y \in S PROVE x <= y
  <2>1. x \in Nat /\ y \in Nat
    OBVIOUS
  <2>2. ~(y < x)
    BY <1>2, <2>1 DEF R, OpToRel
  <2> QED BY <2>1, <2>2
<1> QED BY <1>3

\* What Without computes, step by step, up to the n-th element.
Kept(f, s, gone, n) ==
  f = [i \in 0..n |-> IF i = 0 THEN <<>>
                      ELSE IF s[i] \in gone THEN f[i - 1] ELSE Append(f[i - 1], s[i])]

\* There is such a function, ...
LEMMA KeptExists ==
  ASSUME NEW s, NEW gone, NEW n \in Nat
  PROVE  \E f : Kept(f, s, gone, n)
<1> DEFINE S == {k \in Nat : ~ \E f : Kept(f, s, gone, k)}
<1>1. ASSUME S # {} PROVE FALSE
  <2>1. PICK m \in S : \A k \in S : m <= k
    BY <1>1, NatMin
  <2>2. m \in Nat /\ ~ \E f : Kept(f, s, gone, m)
    OBVIOUS
  <2>3. CASE m = 0
    <3> DEFINE f == [i \in 0..0 |-> <<>>]
    <3>1. Kept(f, s, gone, 0)
      BY DEF Kept
    <3> QED BY <2>2, <2>3, <3>1
  <2>4. CASE m # 0
    <3>1. m - 1 \in Nat /\ ~(m <= m - 1)
      BY <2>2, <2>4
    <3>2. PICK f : Kept(f, s, gone, m - 1)
      BY <2>1, <3>1
    <3>3. PICK last : last = IF s[m] \in gone THEN f[m - 1] ELSE Append(f[m - 1], s[m])
      OBVIOUS
    <3> DEFINE g == [i \in 0..m |-> IF i = m THEN last ELSE f[i]]
    <3>4. \A i \in 0..(m - 1) : g[i] = f[i] /\ i \in 0..m
      BY <2>2
    <3>5. ASSUME NEW i \in 0..m
          PROVE  g[i] = IF i = 0 THEN <<>>
                        ELSE IF s[i] \in gone THEN g[i - 1] ELSE Append(g[i - 1], s[i])
      <4>1. CASE i = m
        <5>1. g[i] = last /\ g[m - 1] = f[m - 1] /\ i # 0
          BY <2>2, <2>4, <4>1
        <5> QED BY <3>3, <4>1, <5>1
      <4>2. CASE i # m
        <5>1. i \in 0..(m - 1) /\ g[i] = f[i]
          BY <2>2, <4>2
        <5>2. f[i] = IF i = 0 THEN <<>>
                     ELSE IF s[i] \in gone THEN f[i - 1] ELSE Append(f[i - 1], s[i])
          BY <3>2, <5>1 DEF Kept
        <5>3. i # 0 => g[i - 1] = f[i - 1]
          BY <2>2, <4>2
        <5> QED BY <5>1, <5>2, <5>3
      <4> QED BY <4>1, <4>2
    <3>6. g = [i \in 0..m |-> g[i]]
      OBVIOUS
    <3> HIDE DEF g
    <3>7. Kept(g, s, gone, m)
      BY <3>5, <3>6 DEF Kept
    <3> QED BY <2>2, <3>7
  <2> QED BY <2>3, <2>4
<1> QED BY <1>1

\* ... so Without is its last value.
LEMMA WithoutKept ==
  ASSUME NEW s, Len(s) \in Nat, NEW gone
  PROVE  \E f : Kept(f, s, gone, Len(s)) /\ Without(s, gone) = f[Len(s)]
<1> DEFINE k == CHOOSE f : Kept(f, s, gone, Len(s))
<1>1. Kept(k, s, gone, Len(s))
  BY KeptExists
<1>2. Without(s, gone) = k[Len(s)]
  BY DEF Without, Kept
<1> QED BY <1>1, <1>2

Elems(s) == {s[i] : i \in 1..Len(s)}
Once(s) == \A i, j \in 1..Len(s) : s[i] = s[j] => i = j

\* An element that was not there is there once after it was appended.
LEMMA AppendOnce ==
  ASSUME NEW S, NEW s \in Seq(S), Once(s), NEW a \in S, a \notin Elems(s)
  PROVE  Append(s, a) \in Seq(S) /\ Once(Append(s, a)) /\ Elems(Append(s, a)) = Elems(s) \cup {a}
<1> PICK L \in Nat : L = Len(s)
  BY LenProperties
<1> PICK t : t = Append(s, a)
  OBVIOUS
<1>1. /\ t \in Seq(S) /\ Len(t) = L + 1 /\ t[L + 1] = a /\ \A i \in 1..L : t[i] = s[i]
  BY AppendProperties
<1>2. \A i \in 1..L : s[i] # a
  BY DEF Elems
<1>3. \A i \in 1..(L + 1) : i = L + 1 \/ i \in 1..L
  OBVIOUS
<1>4. Once(t)
  <2>1. ASSUME NEW i \in 1..(L + 1), NEW j \in 1..(L + 1), t[i] = t[j] PROVE i = j
    <3>1. CASE i \in 1..L /\ j \in 1..L
      BY <1>1, <2>1, <3>1 DEF Once
    <3>2. CASE i = L + 1 /\ j \in 1..L
      BY <1>1, <1>2, <2>1, <3>2
    <3>3. CASE i \in 1..L /\ j = L + 1
      BY <1>1, <1>2, <2>1, <3>3
    <3>4. CASE i = L + 1 /\ j = L + 1
      BY <3>4
    <3> QED BY <1>3, <3>1, <3>2, <3>3, <3>4
  <2> QED BY <1>1, <2>1 DEF Once
<1>5. Elems(t) = Elems(s) \cup {a}
  <2>1. ASSUME NEW x \in Elems(t) PROVE x \in Elems(s) \cup {a}
    <3>1. PICK i \in 1..(L + 1) : x = t[i]
      BY <1>1 DEF Elems
    <3>2. CASE i = L + 1
      BY <1>1, <3>1, <3>2
    <3>3. CASE i \in 1..L
      BY <1>1, <3>1, <3>3 DEF Elems
    <3> QED BY <1>3, <3>2, <3>3
  <2>2. ASSUME NEW x \in Elems(s) PROVE x \in Elems(t)
    <3>1. PICK i \in 1..L : x = s[i]
      BY DEF Elems
    <3>2. i \in 1..(L + 1) /\ t[i] = x
      BY <1>1, <3>1
    <3> QED BY <1>1, <3>2 DEF Elems
  <2>3. a \in Elems(t)
    <3>1. L + 1 \in 1..(L + 1)
      OBVIOUS
    <3> QED BY <1>1, <3>1 DEF Elems
  <2> QED BY <2>1, <2>2, <2>3
<1> QED BY <1>1, <1>4, <1>5

\* A list without some elements has the others, each once if it was so.
LEMMA WithoutShape ==
  ASSUME NEW S, NEW s \in Seq(S), Once(s), NEW gone
  PROVE  /\ Without(s, gone) \in Seq(S) /\ Once(Without(s, gone))
         /\ Elems(Without(s, gone)) = Elems(s) \ gone
<1> PICK L \in Nat : L = Len(s)
  BY LenProperties
<1>1. PICK f : Kept(f, s, gone, L) /\ Without(s, gone) = f[L]
  BY WithoutKept
<1>2. \A i \in 1..L : s[i] \in S
  BY ElementOfSeq
<1> DEFINE First(i) == {s[j] : j \in 1..i}
           Good(i) == f[i] \in Seq(S) /\ Once(f[i]) /\ Elems(f[i]) = First(i) \ gone
           Bad == {i \in 0..L : ~Good(i)}
<1>3. ASSUME Bad # {} PROVE FALSE
  <2>1. PICK m \in Bad : \A i \in Bad : m <= i
    <3>1. Bad \in SUBSET Nat
      OBVIOUS
    <3> HIDE DEF Bad
    <3> QED BY <1>3, <3>1, NatMin
  <2>2. m \in 0..L /\ m \in Nat /\ ~Good(m)
    OBVIOUS
  <2>3. f[m] = IF m = 0 THEN <<>>
               ELSE IF s[m] \in gone THEN f[m - 1] ELSE Append(f[m - 1], s[m])
    BY <1>1, <2>2 DEF Kept
  <2>4. CASE m = 0
    <3>1. f[0] = <<>> /\ <<>> \in Seq(S) /\ Len(<<>>) = 0 /\ 1..0 = {}
      BY <2>3, <2>4, EmptySeq
    <3>2. Once(<<>>) /\ Elems(<<>>) = {} /\ First(0) = {}
      BY <3>1 DEF Once, Elems
    <3>3. Good(0)
      BY <3>1, <3>2
    <3> QED BY <2>2, <2>4, <3>3
  <2>5. CASE m # 0
    <3>1. m - 1 \in 0..L /\ ~(m <= m - 1) /\ m \in 1..L
      BY <2>2, <2>5
    <3>2. Good(m - 1)
      <4>1. m - 1 \notin Bad
        BY <2>1, <3>1
      <4> QED BY <3>1, <4>1
    <3> HIDE DEF Bad
    <3>3. First(m) = First(m - 1) \cup {s[m]}
      <4>1. \A j \in 1..m : j = m \/ j \in 1..(m - 1)
        BY <3>1
      <4>2. \A j \in 1..(m - 1) : j \in 1..m
        BY <3>1
      <4>3. m \in 1..m
        BY <3>1
      <4> QED BY <4>1, <4>2, <4>3
    <3>4. s[m] \notin First(m - 1)
      <4>1. ASSUME NEW j \in 1..(m - 1), s[j] = s[m] PROVE FALSE
        <5>1. j \in 1..L /\ j # m
          BY <3>1
        <5> QED BY <3>1, <4>1, <5>1 DEF Once
      <4> QED BY <4>1
    <3> HIDE DEF Front
    <3>5. CASE s[m] \in gone
      <4>1. f[m] = f[m - 1] /\ First(m) \ gone = First(m - 1) \ gone
        BY <2>3, <2>5, <3>3, <3>5
      <4> QED BY <2>2, <3>2, <4>1
    <3>6. CASE s[m] \notin gone
      <4>1. PICK t \in Seq(S) : t = f[m - 1] /\ Once(t) /\ Elems(t) = First(m - 1) \ gone
        BY <3>2
      <4>2. f[m] = Append(t, s[m]) /\ s[m] \notin Elems(t) /\ s[m] \in S
        BY <1>2, <2>3, <2>5, <3>1, <3>4, <3>6, <4>1
      <4>3. /\ Append(t, s[m]) \in Seq(S) /\ Once(Append(t, s[m]))
            /\ Elems(Append(t, s[m])) = Elems(t) \cup {s[m]}
        BY <4>1, <4>2, AppendOnce
      <4>4. First(m) \ gone = Elems(t) \cup {s[m]}
        BY <3>3, <3>6, <4>1
      <4> QED BY <2>2, <4>2, <4>3, <4>4
    <3> QED BY <3>5, <3>6
  <2> QED BY <2>4, <2>5
<1>4. Good(L)
  <2>1. L \in 0..L
    OBVIOUS
  <2> QED BY <1>3, <2>1
<1>5. First(L) = Elems(s)
  BY DEF Elems
<1> QED BY <1>1, <1>4, <1>5

\* Two lists with nothing in common, one after the other, are a list of all.
LEMMA RotationSeqs ==
  ASSUME NEW S, NEW s \in Seq(S), NEW t \in Seq(S), Once(s), Once(t),
         Elems(s) \cap Elems(t) = {}
  PROVE  s \o t \in SetToSeqs(Elems(s) \cup Elems(t))
<1> PICK L \in Nat, M \in Nat : L = Len(s) /\ M = Len(t)
  BY LenProperties
<1> PICK r : r = s \o t
  OBVIOUS
<1> PICK T : T = Elems(s) \cup Elems(t)
  OBVIOUS
<1>1. /\ r \in Seq(S) /\ Len(r) = L + M
      /\ \A i \in 1..(L + M) : r[i] = IF i <= L THEN s[i] ELSE t[i - L]
  BY ConcatProperties
<1>2. \A i \in 1..(L + M) : i <= L => i \in 1..L /\ r[i] = s[i]
  BY <1>1
<1>3. \A i \in 1..(L + M) : ~(i <= L) => i - L \in 1..M /\ r[i] = t[i - L]
  BY <1>1
<1>4. ASSUME NEW i \in 1..(L + M) PROVE r[i] \in T
  BY <1>2, <1>3 DEF Elems
<1>5. ASSUME NEW i \in 1..(L + M), NEW j \in 1..(L + M), r[i] = r[j] PROVE i = j
  <2>1. CASE i <= L /\ j <= L
    BY <1>2, <1>5, <2>1 DEF Once
  <2>2. CASE ~(i <= L) /\ ~(j <= L)
    <3>1. i - L = j - L
      BY <1>3, <1>5, <2>2 DEF Once
    <3> QED BY <3>1
  <2>3. CASE i <= L /\ ~(j <= L)
    <3>1. r[i] \in Elems(s) /\ r[j] \in Elems(t)
      BY <1>2, <1>3, <2>3 DEF Elems
    <3> QED BY <1>5, <3>1
  <2>4. CASE ~(i <= L) /\ j <= L
    <3>1. r[i] \in Elems(t) /\ r[j] \in Elems(s)
      BY <1>2, <1>3, <2>4 DEF Elems
    <3> QED BY <1>5, <3>1
  <2> QED BY <2>1, <2>2, <2>3, <2>4
<1>6. ASSUME NEW x \in T PROVE \E i \in 1..(L + M) : r[i] = x
  <2>1. CASE x \in Elems(s)
    <3>1. PICK i \in 1..L : x = s[i]
      BY <2>1 DEF Elems
    <3>2. i \in 1..(L + M) /\ i <= L
      OBVIOUS
    <3> QED BY <1>2, <3>1, <3>2
  <2>2. CASE x \in Elems(t)
    <3>1. PICK j \in 1..M : x = t[j]
      BY <2>2 DEF Elems
    <3>2. L + j \in 1..(L + M) /\ ~(L + j <= L) /\ (L + j) - L = j
      OBVIOUS
    <3> QED BY <1>3, <3>1, <3>2
  <2> QED BY <2>1, <2>2
<1>7. r = [i \in 1..(L + M) |-> r[i]]
  BY <1>1, LenProperties
<1>8. r \in [1..(L + M) -> T]
  BY <1>4, <1>7
<1>9. r \in Bijection(1..(L + M), T)
  BY <1>5, <1>6, <1>8 DEF Bijection, Injection, Surjection, IsInjective
<1>10. Cardinality(T) = L + M
  <2>1. L + M \in Nat /\ ExistsBijection(1..(L + M), T)
    BY <1>9 DEF ExistsBijection
  <2> QED BY <2>1, FS_CountingElements
<1>11. r \in SetToSeqs(T)
  BY <1>5, <1>8, <1>10 DEF SetToSeqs
<1> QED BY <1>11

\* A list of a finite set in some order has each member once.
LEMMA SeqsOnce ==
  ASSUME NEW T, IsFiniteSet(T), NEW r \in SetToSeqs(T)
  PROVE  r \in Seq(T) /\ Once(r) /\ Elems(r) = T
<1> PICK n \in Nat : n = Cardinality(T)
  BY FS_CardinalityType
<1>1. r \in [1..n -> T] /\ \A i, j \in 1..n : i # j => r[i] # r[j]
  BY DEF SetToSeqs
<1>2. r \in Seq(T)
  BY <1>1, SeqDef
<1>3. Len(r) = n
  BY <1>1, <1>2, LenProperties
<1>4. Once(r) /\ Elems(r) \subseteq T
  BY <1>1, <1>3 DEF Once, Elems
<1>5. r \in Bijection(1..n, Elems(r))
  <2>1. r = [i \in 1..n |-> r[i]]
    BY <1>1
  <2>2. \A i \in 1..n : r[i] \in Elems(r)
    BY <1>3 DEF Elems
  <2>3. r \in [1..n -> Elems(r)]
    BY <2>1, <2>2
  <2>4. \A x \in Elems(r) : \E i \in 1..n : r[i] = x
    BY <1>3 DEF Elems
  <2> QED BY <1>1, <2>3, <2>4 DEF Bijection, Injection, Surjection, IsInjective
<1>6. Cardinality(Elems(r)) = n
  <2>1. ExistsBijection(1..n, Elems(r))
    BY <1>5 DEF ExistsBijection
  <2> QED BY <2>1, FS_CountingElements
<1>7. Elems(r) = T
  BY <1>4, <1>6, FS_Subset
<1> QED BY <1>2, <1>4, <1>7

\* The rotation: who was never queried, and then who was.
Rotates(first, later, H) ==
  /\ first \in Seq(Addr) /\ later \in Seq(Addr) /\ Once(first) /\ Once(later)
  /\ Elems(first) \cap Elems(later) = {} /\ Elems(first) \cup Elems(later) = H
Rotation == Rotates(fresh, asked, Held)

\* Entries leave the rotation.
LEMMA RotatesWithout ==
  ASSUME NEW first, NEW later, NEW H, Rotates(first, later, H), NEW gone
  PROVE  Rotates(Without(first, gone), Without(later, gone), H \ gone)
<1>1. /\ Without(first, gone) \in Seq(Addr) /\ Once(Without(first, gone))
      /\ Elems(Without(first, gone)) = Elems(first) \ gone
  BY WithoutShape DEF Rotates
<1>2. /\ Without(later, gone) \in Seq(Addr) /\ Once(Without(later, gone))
      /\ Elems(Without(later, gone)) = Elems(later) \ gone
  BY WithoutShape DEF Rotates
<1> QED BY <1>1, <1>2 DEF Rotates

\* A newcomer waits behind the others that were never queried.
LEMMA RotatesInsert ==
  ASSUME NEW first, NEW later, NEW H, Rotates(first, later, H), NEW a \in Addr, a \notin H
  PROVE  Rotates(Append(first, a), later, H \cup {a})
<1>1. a \notin Elems(first) /\ a \notin Elems(later)
  BY DEF Rotates
<1>2. /\ Append(first, a) \in Seq(Addr) /\ Once(Append(first, a))
      /\ Elems(Append(first, a)) = Elems(first) \cup {a}
  BY <1>1, AppendOnce DEF Rotates
<1> QED BY <1>1, <1>2 DEF Rotates

\* An entry joins the end of the queried ones.
LEMMA RotatesBack ==
  ASSUME NEW x, NEW y, NEW H, NEW a \in H, Rotates(x, y, H \ {a}), a \in Addr
  PROVE  Rotates(x, Append(y, a), H)
<1>1. a \notin Elems(x) /\ a \notin Elems(y)
  BY DEF Rotates
<1>2. /\ Append(y, a) \in Seq(Addr) /\ Once(Append(y, a))
      /\ Elems(Append(y, a)) = Elems(y) \cup {a}
  BY <1>1, AppendOnce DEF Rotates
<1> QED BY <1>1, <1>2 DEF Rotates

\* Who was queried goes to the end.
LEMMA RotatesAsk ==
  ASSUME NEW first, NEW later, NEW H, Rotates(first, later, H), NEW a \in Addr, a \in H
  PROVE  Rotates(Without(first, {a}), Append(Without(later, {a}), a), H)
<1> PICK x : x = Without(first, {a})
  OBVIOUS
<1> PICK y : y = Without(later, {a})
  OBVIOUS
<1>1. Rotates(x, y, H \ {a})
  BY RotatesWithout
<1>2. Rotates(x, Append(y, a), H)
  BY <1>1, RotatesBack
<1> QED BY <1>2

\* add_transpeer keeps the rotation that of the table.
LEMMA RotationAdd ==
  ASSUME TablesOK, Rotation, NEW a \in Addr, NEW age \in Age, NEW first \in Age,
         NEW gossiped \in BOOLEAN, AddTranspeer(a, age, first, gossiped)
  PROVE  Rotation'
<1>1. CASE Refresh(a, age)
  <2> DEFINE e == [table[a] EXCEPT !.age = Younger(@, age)]
  <2>1. a \in Held /\ table[a] \in Entry /\ Store(a, e)
    BY <1>1 DEF Refresh, Held, TablesOK
  <2>2. Younger(table[a].age, age) \in Age
    BY <2>1 DEF Entry, Younger
  <2>3. e \in Entry
    BY <2>1, <2>2 DEF Entry
  <2> HIDE DEF e
  <2>4. Held' = Held
    BY <2>1, <2>3, StoreShape
  <2>5. fresh' = fresh /\ asked' = asked
    BY <2>1 DEF Store
  <2> QED BY <2>4, <2>5 DEF Rotation
<1>2. CASE Admit(a, age, first, gossiped)
  <2>1. PICK gone : Insert(a, age, first, gone)
    BY <1>2 DEF Admit
  <2>2. Held' = (Held \ gone) \cup {a}
    BY <2>1, InsertShape
  <2>3. fresh' = Append(Without(fresh, gone), a) /\ asked' = Without(asked, gone)
    BY <2>1 DEF Insert
  <2>4. a \notin Held \ gone
    BY <1>2 DEF Admit
  <2>5. PICK x, y : x = Without(fresh, gone) /\ y = Without(asked, gone)
    OBVIOUS
  <2>6. Rotates(x, y, Held \ gone)
    BY <2>5, RotatesWithout DEF Rotation
  <2>7. Rotates(Append(x, a), y, (Held \ gone) \cup {a})
    BY <2>4, <2>6, RotatesInsert
  <2> QED BY <2>2, <2>3, <2>5, <2>7 DEF Rotation
<1>3. CASE Refuse(a, gossiped)
  BY <1>3 DEF Refuse, tables, Held, Rotation
<1> QED BY <1>1, <1>2, <1>3 DEF AddTranspeer

\* So does every step.
LEMMA RotationStep ==
  ASSUME Sound, Rotation, [Next]_vars
  PROVE  Rotation'
<1>0. TablesOK /\ 0 \in Age
  BY TConsts DEF Sound, Age
<1>1. ASSUME fresh' = fresh, asked' = asked, Held' = Held
      PROVE  Rotation'
  BY <1>1 DEF Rotation
<1>2. ASSUME NEW a \in Addr, Discover(a) \/ Answer(a)
      PROVE  Rotation'
  BY <1>0, <1>2, RotationAdd DEF Discover, Answer
<1>3. ASSUME NEW a \in Addr, NEW b \in Addr, NEW age \in Age, NEW first \in Age,
             Relay(a, b, age, first)
      PROVE  Rotation'
  BY <1>0, <1>3, RotationAdd DEF Relay
<1>4. CASE StartBatch
  BY <1>1, <1>4 DEF StartBatch, tables, Held
<1>5. ASSUME NEW a \in Addr, Finish(a)
      PROVE  Rotation'
  <2>1. CASE a \notin Held
    BY <1>1, <1>5, <2>1 DEF Finish, Held
  <2>2. CASE a \in Held
    <3>1. PICK ok \in BOOLEAN : table' = [table EXCEPT ![a] = Marked(table[a], ok)]
      BY <1>5, <2>2 DEF Finish
    <3>2. PICK e : e = Marked(table[a], ok)
      OBVIOUS
    <3>3. e \in Entry /\ e # Absent
      BY <1>0, <2>2, <3>2, EntryUpdates, NoEntry DEF Held, TablesOK
    <3>4. table'[a] = e /\ \A o \in Addr \ {a} : table'[o] = table[o]
      BY <1>0, <3>1, <3>2 DEF TablesOK
    <3>5. Held' = Held
      BY <2>2, <3>3, <3>4 DEF Held
    <3>6. fresh' = Without(fresh, {a}) /\ asked' = Append(Without(asked, {a}), a)
      BY <1>5, <2>2 DEF Finish
    <3>7. Rotates(Without(fresh, {a}), Append(Without(asked, {a}), a), Held)
      BY <2>2, RotatesAsk DEF Rotation
    <3> QED BY <3>5, <3>6, <3>7 DEF Rotation
  <2> QED BY <2>1, <2>2
<1>6. ASSUME NEW a \in Addr, NEW flag \in BOOLEAN,
             SetPublished(a, flag) \/ SetUnfaithful(a, flag)
      PROVE  Rotation'
  <2>1. a \in Held /\ table[a] \in Entry
    BY <1>0, <1>6 DEF SetPublished, SetUnfaithful, Held, TablesOK
  <2>2. /\ [table[a] EXCEPT !.published = flag] \in Entry
        /\ [table[a] EXCEPT !.unfaithful = flag] \in Entry
    BY <2>1 DEF Entry
  <2>3. PICK e \in Entry : Store(a, e)
    BY <1>6, <2>2 DEF SetPublished, SetUnfaithful
  <2>4. Held' = Held
    BY <1>0, <2>1, <2>3, StoreShape
  <2>5. fresh' = fresh /\ asked' = asked
    BY <2>3 DEF Store
  <2> QED BY <1>1, <2>4, <2>5
<1>7. CASE Prune
  <2>1. /\ table' = [a \in Addr |-> IF a \in Stale THEN Absent ELSE table[a]]
        /\ fresh' = Without(fresh, Stale) /\ asked' = Without(asked, Stale)
    BY <1>7 DEF Prune
  <2>2. Held' = Held \ Stale
    BY <2>1 DEF Held
  <2>3. Rotates(Without(fresh, Stale), Without(asked, Stale), Held \ Stale)
    BY RotatesWithout DEF Rotation
  <2> QED BY <2>1, <2>2, <2>3 DEF Rotation
<1>8. CASE Restart
  <2>1. PICK T : T = {a \in Addr : disk[a] # Absent}
    OBVIOUS
  <2>2. fresh' \in SetToSeqs(T) /\ asked' = <<>>
    BY <1>8, <2>1 DEF Restart
  <2>3. T \in SUBSET Addr /\ IsFiniteSet(T)
    BY <2>1, TConsts, FS_Subset
  <2>4. PICK r : r = fresh'
    OBVIOUS
  <2>5. r \in Seq(T) /\ Once(r) /\ Elems(r) = T
    BY <2>2, <2>3, <2>4, SeqsOnce
  <2>6. r \in Seq(Addr)
    <3>1. r \in [1..Len(r) -> T] /\ Len(r) \in Nat
      BY <2>5, LenProperties
    <3>2. r \in [1..Len(r) -> Addr]
      BY <2>3, <3>1
    <3> QED BY <3>1, <3>2, SeqDef
  <2>7. <<>> \in Seq(Addr) /\ Once(<<>>) /\ Elems(<<>>) = {}
    <3>1. <<>> \in Seq(Addr) /\ Len(<<>>) = 0 /\ 1..0 = {}
      BY EmptySeq
    <3> QED BY <3>1 DEF Once, Elems
  <2>8. Held' = T
    <3>1. ASSUME NEW a \in Addr PROVE table'[a] = Absent <=> disk[a] = Absent
      <4>1. CASE disk[a] = Absent
        BY <1>8, <4>1 DEF Restart
      <4>2. CASE disk[a] # Absent
        <5>1. disk[a] \in Row
          BY <1>0, <4>2 DEF TablesOK
        <5>2. [age |-> disk[a].age, first |-> disk[a].first, answered |-> 0,
               alive |-> FALSE, published |-> disk[a].published,
               unfaithful |-> disk[a].unfaithful] \in Entry
          BY <5>1, TConsts DEF Row, Entry
        <5> QED BY <1>8, <4>2, <5>2, NoEntry DEF Restart
      <4> QED BY <4>1, <4>2
    <3> QED BY <2>1, <3>1 DEF Held
  <2>9. Rotates(r, <<>>, T)
    BY <2>5, <2>6, <2>7 DEF Rotates
  <2> QED BY <2>2, <2>4, <2>8, <2>9 DEF Rotation
<1>9. CASE Tick
  <2>1. table' = [a \in Addr |-> IF a \in Held THEN Aged(table[a]) ELSE Absent]
    BY <1>9 DEF Tick
  <2>2. ASSUME NEW a \in Held PROVE Aged(table[a]) # Absent
    <3>1. table[a] \in Entry
      BY <1>0 DEF Held, TablesOK
    <3> QED BY <3>1, EntryUpdates, NoEntry
  <2>3. Held' = Held
    BY <2>1, <2>2 DEF Held
  <2> QED BY <1>1, <1>9, <2>3 DEF Tick
<1>10. CASE UNCHANGED vars
  BY <1>1, <1>10 DEF vars, Held
<1> QED BY <1>2, <1>3, <1>4, <1>5, <1>6, <1>7, <1>8, <1>9, <1>10 DEF Next

\* What a query round knows, and restarts, keep their types.
Rounds == flight \in [Addr -> {"idle", "out", "answered"}] /\ restarts \in 0..MaxRestarts

LEMMA RoundsStep ==
  ASSUME Rounds, [Next]_vars
  PROVE  Rounds'
<1>1. MaxRestarts \in Nat
  BY TranspeerConstants
<1>2. ASSUME NEW a \in Addr, Discover(a) PROVE Rounds'
  BY <1>2 DEF Discover, Rounds
<1>3. ASSUME NEW a \in Addr, Answer(a) PROVE Rounds'
  BY <1>3 DEF Answer, Rounds
<1>4. ASSUME NEW a \in Addr, NEW b, NEW age, NEW first, Relay(a, b, age, first) PROVE Rounds'
  BY <1>4 DEF Relay, Rounds
<1>5. ASSUME NEW a \in Addr, Finish(a) PROVE Rounds'
  BY <1>5 DEF Finish, Rounds
<1>6. CASE StartBatch
  BY <1>6 DEF StartBatch, Rounds
<1>7. ASSUME NEW a, NEW flag, SetPublished(a, flag) \/ SetUnfaithful(a, flag) PROVE Rounds'
  BY <1>7 DEF SetPublished, SetUnfaithful, Rounds
<1>8. CASE Prune
  BY <1>8 DEF Prune, Rounds
<1>9. CASE Restart
  BY <1>1, <1>9 DEF Restart, Rounds
<1>10. CASE Tick
  BY <1>10 DEF Tick, Rounds
<1>11. CASE UNCHANGED vars
  BY <1>11 DEF vars, Rounds
<1> QED BY <1>2, <1>3, <1>4, <1>5, <1>6, <1>7, <1>8, <1>9, <1>10, <1>11 DEF Next

\* Every variable keeps its type, and the two lists by which the module represents
\* the order of last_queried list each entry of the table once, so that a batch
\* of get_transpeers_for_query is always one of entries held when it is picked.
THEOREM TypeCorrect == Spec => []TypeOK
<1>1. Init => Rotation /\ Rounds
  <2> SUFFICES ASSUME Init PROVE Rotation /\ Rounds
    OBVIOUS
  <2>1. <<>> \in Seq(Addr) /\ Len(<<>>) = 0 /\ 1..0 = {}
    BY EmptySeq
  <2>2. Once(<<>>) /\ Elems(<<>>) = {}
    BY <2>1 DEF Once, Elems
  <2>3. Held = {}
    BY DEF Init, Held
  <2>4. Rotation
    BY <2>1, <2>2, <2>3 DEF Init, Rotation, Rotates
  <2>5. 0 \in 0..MaxRestarts
    BY TranspeerConstants
  <2> QED BY <2>4, <2>5 DEF Init, Rounds
<1>2. Sound /\ Rotation /\ Rounds /\ [Next]_vars => (Rotation /\ Rounds)'
  BY RotationStep, RoundsStep
<1>3. Sound /\ Rotation /\ Rounds => TypeOK
  <2> SUFFICES ASSUME Sound, Rotation, Rounds PROVE TypeOK
    OBVIOUS
  <2>1. /\ fresh \in Seq(Addr) /\ asked \in Seq(Addr) /\ Once(fresh) /\ Once(asked)
        /\ Elems(fresh) \cap Elems(asked) = {} /\ Elems(fresh) \cup Elems(asked) = Held
    BY DEF Rotation, Rotates
  <2>2. fresh \o asked \in SetToSeqs(Elems(fresh) \cup Elems(asked))
    BY <2>1, RotationSeqs
  <2> QED BY <2>1, <2>2 DEF Sound, Rounds, TypeOK
<1> QED BY <1>1, <1>2, <1>3, TranspeersMirrored, PTL DEF Spec
=============================================================================
