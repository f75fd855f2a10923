--------------------------- MODULE BlobGossipProofs ---------------------------
(* Proofs about BlobGossip, for every value of its constants: types, that no  *)
(* row is stored that no share commits to, and that the paged index leaves no *)
(* row out.                                                                   *)
EXTENDS BlobGossip, SequenceTheorems, FiniteSetTheorems, TLAPS

\* The assumptions on the constants, one by one.
LEMMA BConsts ==
  /\ Publisher \in Node /\ Blob \subseteq Nat /\ 0 \notin Blob
  /\ Keep \in Nat /\ Keep > 0 /\ MaxClock \in Nat /\ MaxClock > 0 /\ MaxCrashes \in Nat
  /\ None \notin Row /\ None \notin Step /\ None \notin Pages
  BY NodeAssumption, BlobAssumption, BoundAssumption, NoneAssumption

\* Two levels of EXCEPT, at any place.
LEMMA Nested ==
  ASSUME NEW A, NEW B, NEW V, NEW f \in [A -> [B -> V]], NEW a \in A, NEW b \in B, NEW v \in V
  PROVE  /\ [f EXCEPT ![a][b] = v] \in [A -> [B -> V]]
         /\ \A x \in A, y \in B :
              [f EXCEPT ![a][b] = v][x][y] = IF x = a /\ y = b THEN v ELSE f[x][y]
  OBVIOUS

\* A row with more records is a row, with the union of the records.
LEMMA MoreRecords ==
  ASSUME NEW r \in Row, NEW kinds \in SUBSET {"share", "template"}
  PROVE  /\ WithRecords(r, kinds) \in Row
         /\ WithRecords(r, kinds).kinds = r.kinds \cup kinds
         /\ WithRecords(r, kinds).seen = r.seen
         /\ WithRecords(r, kinds).stored = r.stored
  BY DEF Row, WithRecords

\* BlobDB.add leaves every other row alone.
LEMMA AddElsewhere ==
  ASSUME db \in Tables, NEW n \in Node, NEW b \in Blob, NEW kinds, NEW now,
         NEW x \in Node, NEW y \in Blob, x # n \/ y # b
  PROVE  Added(n, b, kinds, now)[x][y] = db[x][y]
  BY DEF Added, Tables

\* What BlobDB.add does to the tables.
LEMMA AddedShape ==
  ASSUME db \in Tables, clock \in Time, NEW n \in Node, NEW b \in Blob,
         NEW kinds \in SUBSET {"share", "template"}, NEW now \in Time
  PROVE  /\ Added(n, b, kinds, now) \in Tables
         /\ Added(n, b, kinds, now)[n][b] # None
         /\ db[n][b] = None => /\ Added(n, b, kinds, now)[n][b].kinds = kinds
                               /\ Added(n, b, kinds, now)[n][b].seen = now
                               /\ Added(n, b, kinds, now)[n][b].stored = clock
         /\ db[n][b] # None => /\ Added(n, b, kinds, now)[n][b].kinds = db[n][b].kinds \cup kinds
                               /\ Added(n, b, kinds, now)[n][b].seen = db[n][b].seen
                               /\ Added(n, b, kinds, now)[n][b].stored = db[n][b].stored
<1> DEFINE new == [seen |-> now, stored |-> clock, kinds |-> kinds]
           old == WithRecords(db[n][b], kinds)
           row == IF db[n][b] = None THEN new ELSE old
<1>1. db[n][b] \in Row \cup {None}
  BY DEF Tables
<1>2. new \in Row /\ new.kinds = kinds /\ new.seen = now /\ new.stored = clock
  BY DEF Row
<1>3. db[n][b] # None => /\ old \in Row /\ old.kinds = db[n][b].kinds \cup kinds
                         /\ old.seen = db[n][b].seen /\ old.stored = db[n][b].stored
  BY <1>1, MoreRecords
<1>4. row \in Row /\ row # None
  BY <1>1, <1>2, <1>3, BConsts
<1>5. Added(n, b, kinds, now) = [db EXCEPT ![n][b] = row]
  BY DEF Added
<1>6. /\ db[n][b] = None => row = new
      /\ db[n][b] # None => row = old
  OBVIOUS
<1> HIDE DEF new, old, row
<1>7. /\ [db EXCEPT ![n][b] = row] \in Tables
      /\ \A x \in Node, y \in Blob :
           [db EXCEPT ![n][b] = row][x][y] = IF x = n /\ y = b THEN row ELSE db[x][y]
  BY <1>4, Nested DEF Tables
<1>8. CASE db[n][b] = None
  BY <1>2, <1>4, <1>5, <1>6, <1>7, <1>8
<1>9. CASE db[n][b] # None
  BY <1>3, <1>4, <1>5, <1>6, <1>7, <1>9
<1> QED BY <1>8, <1>9
-----------------------------------------------------------------------------
(* Types                                                                     *)

\* The place of every row that is held is a cursor.
LEMMA Places ==
  ASSUME db \in Tables, NEW m \in Node, NEW b \in Held(m)
  PROVE  b \in Blob /\ db[m][b] \in Row /\ At(m, b) \in Pos
<1>1. b \in Blob /\ db[m][b] \in Row
  BY DEF Held, Holds, Tables
<1>2. db[m][b].seen \in Time
  BY <1>1 DEF Row
<1> QED BY <1>1, <1>2 DEF At, Pos

\* Of the issued blobs the newest Keep are kept.
LEMMA KeptShape ==
  ASSUME issued \in Seq(Blob), Len(issued) <= Keep, NEW b \in Blob
  PROVE  /\ Kept(Append(issued, b)) \in Seq(Blob)
         /\ Len(Kept(Append(issued, b))) <= Keep
<1> DEFINE all == Append(issued, b)
           from == IF Len(all) > Keep THEN 2 ELSE 1
<1>1. all \in Seq(Blob) /\ Len(all) = Len(issued) + 1 /\ Len(issued) \in Nat
  BY AppendProperties, LenProperties
<1>2. from \in 1..2 /\ (from = 1 => Len(all) <= Keep) /\ Len(all) \in Nat
  BY <1>1, BConsts
<1>3. \A i \in from..Len(all) : all[i] \in Blob
  BY <1>1, <1>2, LenProperties
<1>4. Kept(all) = SubSeq(all, from, Len(all))
  BY DEF Kept
<1> HIDE DEF all, from
<1>5. /\ SubSeq(all, from, Len(all)) \in Seq(Blob)
      /\ Len(SubSeq(all, from, Len(all))) = IF from <= Len(all) THEN Len(all) - from + 1 ELSE 0
  BY <1>2, <1>3, SubSeqProperties
<1>6. Len(SubSeq(all, from, Len(all))) <= Keep
  BY <1>1, <1>2, <1>5, BConsts
<1> QED BY <1>4, <1>5, <1>6 DEF all

\* A page that is worked through remains one, or is over.
LEMMA RestOfPage ==
  ASSUME NEW p \in Pages, NEW b \in DOMAIN p.rows, NEW ok \in BOOLEAN, DOMAIN p.rows # {b}
  PROVE  [rows |-> [o \in DOMAIN p.rows \ {b} |-> p.rows[o]], to |-> p.to, ok |-> ok] \in Pages
<1>1. PICK R \in (SUBSET Blob) \ {{}} : p \in [rows : [R -> Row], to : Pos, ok : BOOLEAN]
  BY DEF Pages
<1> DEFINE left == DOMAIN p.rows \ {b}
<1>2. DOMAIN p.rows = R /\ p.rows \in [R -> Row] /\ p.to \in Pos
  BY <1>1
<1>3. left \in (SUBSET Blob) \ {{}}
  BY <1>2
<1>4. [o \in left |-> p.rows[o]] \in [left -> Row]
  BY <1>2
<1>5. [rows |-> [o \in left |-> p.rows[o]], to |-> p.to, ok |-> ok]
        \in [rows : [left -> Row], to : Pos, ok : BOOLEAN]
  BY <1>2, <1>4
<1> QED BY <1>3, <1>5 DEF Pages

\* What a page holds.
LEMMA PageParts ==
  ASSUME NEW p \in Pages
  PROVE  /\ p.to \in Pos /\ p.ok \in BOOLEAN
         /\ DOMAIN p.rows \subseteq Blob /\ DOMAIN p.rows # {}
         /\ \A b \in DOMAIN p.rows : p.rows[b] \in Row
<1>1. PICK R \in (SUBSET Blob) \ {{}} : p \in [rows : [R -> Row], to : Pos, ok : BOOLEAN]
  BY DEF Pages
<1> QED BY <1>1

\* Only verified records are passed on.
LEMMA VerifiedKinds ==
  \A m, b, kinds : /\ Verified(m, b, kinds) \in SUBSET {"share", "template"}
                   /\ Verified(m, b, kinds) # {} => b \in shares[m]
  BY DEF Verified
-----------------------------------------------------------------------------
\* One row of a page done: page, cursor and history keep their types.
LEMMA RowDoneTypes ==
  ASSUME TypeOK, NEW n \in Node, NEW m \in Node, NEW b \in Blob, NEW processed \in BOOLEAN,
         NextRow(n, m, b), RowDone(n, m, b, processed)
  PROVE  /\ page' \in [Node -> [Node -> Pages \cup {None}]]
         /\ cursor' \in [Node -> [Node -> Pos]]
         /\ passed' \in [Node -> [Node -> SUBSET Blob]]
<1> DEFINE p    == page[n][m]
           left == DOMAIN p.rows \ {b}
           ok   == p.ok /\ processed
           rest == [rows |-> [o \in left |-> p.rows[o]], to |-> p.to, ok |-> ok]
           new  == IF left = {} THEN None ELSE rest
<1>1. p \in Pages /\ b \in DOMAIN p.rows
  BY DEF TypeOK, NextRow
<1>2. p.to \in Pos /\ ok \in BOOLEAN
  BY <1>1, PageParts
<1>3. new \in Pages \cup {None}
  <2>1. CASE left = {}
    BY <2>1
  <2>2. CASE left # {}
    <3>1. DOMAIN p.rows # {b}
      BY <2>2
    <3>2. rest \in Pages
      BY <1>1, <1>2, <3>1, RestOfPage
    <3> QED BY <2>2, <3>2
  <2> QED BY <2>1, <2>2
<1>4. page' = [page EXCEPT ![n][m] = new]
  BY DEF RowDone
<1>5. cursor' = cursor \/ cursor' = [cursor EXCEPT ![n][m] = p.to]
  BY DEF RowDone
<1>6. passed' = passed \/ passed' = [passed EXCEPT ![n][m] = passed[n][m] \cup {b}]
  BY DEF RowDone
<1>7. passed[n][m] \cup {b} \in SUBSET Blob
  BY DEF TypeOK
<1> HIDE DEF p, new
<1>8. page' \in [Node -> [Node -> Pages \cup {None}]]
  BY <1>3, <1>4, Nested DEF TypeOK
<1>9. cursor' \in [Node -> [Node -> Pos]]
  <2>1. cursor \in [Node -> [Node -> Pos]]
    BY DEF TypeOK
  <2>2. [cursor EXCEPT ![n][m] = p.to] \in [Node -> [Node -> Pos]]
    BY <1>2, <2>1, Nested
  <2> QED BY <1>5, <2>1, <2>2
<1>10. passed' \in [Node -> [Node -> SUBSET Blob]]
  <2>1. passed \in [Node -> [Node -> SUBSET Blob]]
    BY DEF TypeOK
  <2>2. [passed EXCEPT ![n][m] = passed[n][m] \cup {b}] \in [Node -> [Node -> SUBSET Blob]]
    BY <1>7, <2>1, Nested
  <2> QED BY <1>6, <2>1, <2>2
<1> QED BY <1>8, <1>9, <1>10

\* A page of an index is a page.
LEMMA IndexPage ==
  ASSUME TypeOK, NEW m \in Node, NEW R, NEW from, R = Rows(m, from), NEW last \in R
  PROVE  [rows |-> [b \in R |-> db[m][b]], to |-> At(m, last), ok |-> TRUE] \in Pages
<1>1. R \subseteq Held(m)
  BY DEF Rows, After
<1>2. db \in Tables
  BY DEF TypeOK
<1>3. At(m, last) \in Pos /\ R \in (SUBSET Blob) \ {{}}
  BY <1>1, <1>2, Places
<1>4. [b \in R |-> db[m][b]] \in [R -> Row]
  BY <1>1, <1>2, Places
<1> QED BY <1>3, <1>4 DEF Pages

\* A fetched page keeps the type of the pages.
LEMMA FetchIndexTypes ==
  ASSUME TypeOK, NEW n \in Node, NEW m \in Node, FetchIndex(n, m)
  PROVE  page' \in [Node -> [Node -> Pages \cup {None}]]
<1> DEFINE R == Rows(m, cursor[n][m])
<1>1. PICK last \in R :
        page' = [page EXCEPT ![n][m] =
                   [rows |-> [b \in R |-> db[m][b]], to |-> At(m, last), ok |-> TRUE]]
  BY DEF FetchIndex
<1>2. [rows |-> [b \in R |-> db[m][b]], to |-> At(m, last), ok |-> TRUE] \in Pages
  BY IndexPage
<1> HIDE DEF R
<1> QED BY <1>1, <1>2, Nested DEF TypeOK

\* A share is taken from a running step: it goes on with the others, or ends.
LEMMA WithoutShareTypes ==
  ASSUME TypeOK, NEW n \in Node, NEW b \in Blob, step[n] # None
  PROVE  /\ WithoutShare(n, b) \in [Node -> Step \cup {None}]
         /\ \A k \in Node : WithoutShare(n, b)[k] # None =>
              /\ step[k] # None
              /\ WithoutShare(n, b)[k].now = step[k].now
              /\ WithoutShare(n, b)[k].todo \subseteq step[k].todo
<1> DEFINE s == step[n]
           less == [now |-> s.now, todo |-> s.todo \ {b}]
           new == IF s.todo = {b} THEN None ELSE less
<1>1. s \in Step
  BY DEF TypeOK
<1>2. less \in Step /\ less.now = s.now /\ less.todo = s.todo \ {b}
  BY <1>1 DEF Step
<1>3. WithoutShare(n, b) = [step EXCEPT ![n] = new]
  BY DEF WithoutShare
<1>4. new \in Step \cup {None} /\ (new # None => new = less)
  BY <1>2
<1> HIDE DEF new, less
<1>5. step \in [Node -> Step \cup {None}]
  BY DEF TypeOK
<1> QED BY <1>2, <1>3, <1>4, <1>5

\* The last conjunct of TypeOK, by name.
StepsOK == \A n \in Node : step[n] # None =>
             step[n].now <= clock /\ step[n].todo \subseteq shares[n]

\* A step that loses a share stays typed while clock and shares stand.
LEMMA StepGoesOn ==
  ASSUME TypeOK, NEW n \in Node, NEW b \in Blob, step[n] # None,
         step' = WithoutShare(n, b), clock' = clock, shares' = shares
  PROVE  step' \in [Node -> Step \cup {None}] /\ StepsOK'
<1>1. StepsOK
  BY DEF TypeOK, StepsOK
<1>2. /\ step' \in [Node -> Step \cup {None}]
      /\ \A k \in Node : step'[k] # None =>
           step[k] # None /\ step'[k].now = step[k].now /\ step'[k].todo \subseteq step[k].todo
  BY WithoutShareTypes
<1>3. ASSUME NEW k \in Node, step'[k] # None
      PROVE  step'[k].now <= clock /\ step'[k].todo \subseteq shares[k]
  <2>1. step[k].now <= clock /\ step[k].todo \subseteq shares[k]
    BY <1>1, <1>2, <1>3 DEF StepsOK
  <2>2. step'[k].now = step[k].now /\ step'[k].todo \subseteq step[k].todo
    BY <1>2, <1>3
  <2> QED BY <2>1, <2>2
<1> QED BY <1>2, <1>3 DEF StepsOK

\* BlobDB.add, by whoever calls it, keeps the type of the tables.
LEMMA AddTypes ==
  ASSUME TypeOK, NEW n \in Node, NEW b \in Blob, NEW kinds \in SUBSET {"share", "template"},
         NEW now \in Time
  PROVE  Added(n, b, kinds, now) \in Tables
<1>1. db \in Tables /\ clock \in Time
  BY DEF TypeOK
<1> QED BY <1>1, AddedShape

\* Working through a row keeps the types.
LEMMA RowStepTypes ==
  ASSUME TypeOK, NEW n \in Node, NEW m \in Node, NEW b \in Blob, RowStep(n, m, b)
  PROVE  TypeOK'
<1>1. PICK processed \in BOOLEAN : RowDone(n, m, b, processed)
  BY DEF RowStep, RowHeld, RowFails, RowVerified, RowUnverified
<1>2. NextRow(n, m, b)
  BY DEF RowStep, RowHeld, RowFails, RowVerified, RowUnverified
<1>3. UNCHANGED clock
  BY DEF RowStep, RowHeld, RowFails, RowVerified, RowUnverified, RowDone
<1>4. UNCHANGED <<issued, jobs, mined, shares, disk, step, crashes>>
  BY <1>1 DEF RowDone
<1>5. db' \in Tables
  <2>1. CASE UNCHANGED db
    BY <2>1 DEF TypeOK
  <2>2. CASE RowVerified(n, m, b)
    BY <2>2, VerifiedKinds, AddTypes DEF RowVerified, TypeOK
  <2> QED BY <2>1, <2>2 DEF RowStep, RowHeld, RowFails, RowUnverified
<1>6. /\ page' \in [Node -> [Node -> Pages \cup {None}]]
      /\ cursor' \in [Node -> [Node -> Pos]]
      /\ passed' \in [Node -> [Node -> SUBSET Blob]]
  BY <1>1, <1>2, RowDoneTypes
<1> QED BY <1>3, <1>4, <1>5, <1>6 DEF TypeOK

\* The reader's step 5 keeps the types.
LEMMA StepTypes ==
  ASSUME TypeOK, NEW n \in Node, NEW b \in Blob,
         LearnShare(n, b) \/ StartBlobs(n) \/ ResolveBlob(n, b) \/ SkipBlob(n, b)
  PROVE  TypeOK'
<1>1. CASE LearnShare(n, b)
  <2>1. shares[n] \cup {b} \in SUBSET mined
    BY <1>1 DEF LearnShare, TypeOK
  <2>2. /\ shares' \in [Node -> SUBSET mined]
        /\ \A k \in Node : shares[k] \subseteq shares'[k]
    BY <1>1, <2>1 DEF LearnShare, TypeOK
  <2> QED BY <1>1, <2>2 DEF LearnShare, TypeOK
<1>2. CASE StartBlobs(n)
  <2>0. PICK chain \in SUBSET shares[n] :
          step' = [step EXCEPT ![n] = [now |-> clock, todo |-> chain]]
    BY <1>2 DEF StartBlobs
  <2> DEFINE new == [now |-> clock, todo |-> chain]
  <2>1. chain \in SUBSET Blob
    BY DEF TypeOK
  <2>2. new \in Step /\ new.now = clock /\ new.todo \subseteq shares[n]
    BY <2>1 DEF Step, TypeOK
  <2>3. step' = [step EXCEPT ![n] = new]
    BY <2>0
  <2> HIDE DEF new
  <2>4. /\ step' \in [Node -> Step \cup {None}]
        /\ \A k \in Node : step'[k] = IF k = n THEN new ELSE step[k]
    BY <2>2, <2>3 DEF TypeOK
  <2>5. clock <= clock
    BY DEF TypeOK, Time
  <2>6. StepsOK'
    BY <1>2, <2>2, <2>4, <2>5 DEF StartBlobs, StepsOK, TypeOK
  <2> QED BY <1>2, <2>4, <2>6 DEF StartBlobs, StepsOK, TypeOK
<1>3. CASE ResolveBlob(n, b)
  <2>1. step[n] # None
    BY <1>3 DEF ResolveBlob, NextShare
  <2>2. step' = WithoutShare(n, b)
    BY <1>3 DEF ResolveBlob
  <2>3. step' \in [Node -> Step \cup {None}] /\ StepsOK'
    BY <1>3, <2>1, <2>2, StepGoesOn DEF ResolveBlob
  <2>4. step[n].now \in Time
    BY <2>1 DEF TypeOK, Step
  <2>5. db' \in Tables
    BY <1>3, <2>4, AddTypes DEF ResolveBlob
  <2> QED BY <1>3, <2>3, <2>5 DEF ResolveBlob, StepsOK, TypeOK
<1>4. CASE SkipBlob(n, b)
  <2>1. step[n] # None
    BY <1>4 DEF SkipBlob, NextShare
  <2>2. step' = WithoutShare(n, b)
    BY <1>4 DEF SkipBlob
  <2>3. step' \in [Node -> Step \cup {None}] /\ StepsOK'
    BY <1>4, <2>1, <2>2, StepGoesOn DEF SkipBlob
  <2> QED BY <1>4, <2>3 DEF SkipBlob, StepsOK, TypeOK
<1> QED BY <1>1, <1>2, <1>3, <1>4

\* Publishing keeps the types.
LEMMA PublishTypes ==
  ASSUME TypeOK, NEW b \in Blob, Poll(b) \/ MineShare(b) \/ SubmitSolution(b)
  PROVE  TypeOK'
<1>1. CASE Poll(b)
  <2>1. issued' \in Seq(Blob) /\ Len(issued') <= Keep
    BY <1>1, KeptShape DEF Poll, TypeOK
  <2> QED BY <1>1, <2>1 DEF Poll, TypeOK
<1>2. CASE MineShare(b)
  <2>1. mined \cup {b} \subseteq jobs /\ mined \subseteq mined \cup {b}
    BY <1>2 DEF MineShare, TypeOK
  <2>2. shares \in [Node -> SUBSET (mined \cup {b})]
    BY <2>1 DEF TypeOK
  <2> QED BY <1>2, <2>1, <2>2 DEF MineShare, TypeOK
<1>3. CASE SubmitSolution(b)
  <2>1. clock \in Time /\ Publisher \in Node
    BY BConsts DEF TypeOK
  <2>2. db' \in Tables
    BY <1>3, <2>1, AddTypes DEF SubmitSolution
  <2> QED BY <1>3, <2>2 DEF SubmitSolution, TypeOK
<1> QED BY <1>1, <1>2, <1>3

\* Saving, restarting and the clock keep the types.
LEMMA NodeTypes ==
  ASSUME TypeOK, NEW n \in Node, Save(n) \/ Restart(n) \/ Tick
  PROVE  TypeOK'
<1>1. CASE Save(n)
  <2>1. disk' \in Tables
    BY <1>1 DEF Save, TypeOK, Tables
  <2> QED BY <1>1, <2>1 DEF Save, TypeOK
<1>2. CASE clock < MaxClock /\ clock' = clock + 1
  <2>1. clock' \in Time /\ \A k \in Time : k <= clock => k <= clock'
    BY <1>2, BConsts DEF TypeOK, Time
  <2>2. \A k \in Node : step[k] # None => step[k].now \in Time
    BY DEF TypeOK, Step
  <2>3. CASE Tick
    <3>1. StepsOK'
      BY <2>1, <2>2, <2>3 DEF Tick, StepsOK, TypeOK
    <3> QED BY <2>1, <2>3, <3>1 DEF Tick, StepsOK, TypeOK
  <2>4. CASE Restart(n)
    <3>1. db' \in Tables
      BY <2>4 DEF Restart, TypeOK, Tables
    <3>2. cursor' \in [Node -> [Node -> Pos]]
      <4>1. Start \in Pos
        BY BConsts DEF Start, Pos, Time
      <4>2. [m \in Node |-> Start] \in [Node -> Pos]
        BY <4>1
      <4> QED BY <2>4, <4>2 DEF Restart, TypeOK
    <3>3. passed' \in [Node -> [Node -> SUBSET Blob]]
      BY <2>4 DEF Restart, TypeOK
    <3>4. page' \in [Node -> [Node -> Pages \cup {None}]]
      BY <2>4 DEF Restart, TypeOK
    <3>5. /\ step' \in [Node -> Step \cup {None}]
          /\ \A k \in Node : step'[k] # None => step[k] # None /\ step'[k] = step[k]
      BY <2>4 DEF Restart, TypeOK
    <3>6. StepsOK'
      BY <2>1, <2>2, <2>4, <3>5 DEF Restart, StepsOK, TypeOK
    <3>7. crashes' \in 0..MaxCrashes
      BY <2>4, BConsts DEF Restart, TypeOK
    <3>8. issued' \in Seq(Blob) /\ Len(issued') <= Keep
      BY <2>4, BConsts DEF Restart, TypeOK
    <3> QED BY <2>1, <2>4, <3>1, <3>2, <3>3, <3>4, <3>5, <3>6, <3>7, <3>8
              DEF Restart, StepsOK, TypeOK
  <2>5. CASE Save(n)
    BY <1>1, <2>5
  <2> QED BY <2>3, <2>4, <2>5
<1> QED BY <1>1, <1>2 DEF Restart, Tick

\* Nothing is held, asked or running at the start.
LEMMA InitTypes == Init => TypeOK
<1> SUFFICES ASSUME Init PROVE TypeOK
  OBVIOUS
<1>1. Start \in Pos /\ clock \in Time /\ crashes \in 0..MaxCrashes
  BY BConsts DEF Init, Start, Pos, Time
<1>2. issued \in Seq(Blob) /\ Len(issued) <= Keep
  BY BConsts DEF Init
<1>3. db \in Tables /\ disk \in Tables
  BY DEF Init, Tables
<1>4. /\ cursor \in [Node -> [Node -> Pos]]
      /\ page \in [Node -> [Node -> Pages \cup {None}]]
      /\ passed \in [Node -> [Node -> SUBSET Blob]]
      /\ step \in [Node -> Step \cup {None}] /\ StepsOK
  BY <1>1 DEF Init, StepsOK
<1> QED BY <1>1, <1>2, <1>3, <1>4 DEF Init, TypeOK, StepsOK

\* Every step keeps the types.
LEMMA NextTypes == TypeOK /\ [Next]_vars => TypeOK'
<1> SUFFICES ASSUME TypeOK, [Next]_vars PROVE TypeOK'
  OBVIOUS
<1>1. CASE \E n, m \in Node : FetchIndex(n, m)
  BY <1>1, FetchIndexTypes DEF FetchIndex, TypeOK
<1>2. CASE \E n \in Node : Save(n) \/ Restart(n)
  BY <1>2, NodeTypes
<1>3. CASE Tick
  BY <1>3, BConsts, NodeTypes
<1>4. CASE \E b \in Blob : Poll(b) \/ MineShare(b) \/ SubmitSolution(b)
  BY <1>4, PublishTypes
<1>5. CASE \E n \in Node, b \in Blob : LearnShare(n, b) \/ ResolveBlob(n, b) \/ SkipBlob(n, b)
  BY <1>5, StepTypes
<1>6. CASE \E n \in Node : StartBlobs(n)
  <2>1. PICK n \in Node : StartBlobs(n)
    BY <1>6
  <2>2. \E b : b \in Blob
    BY <2>1 DEF StartBlobs, TypeOK
  <2> QED BY <2>1, <2>2, StepTypes
<1>7. CASE \E n, m \in Node, b \in Blob : RowStep(n, m, b)
  BY <1>7, RowStepTypes
<1>8. CASE UNCHANGED vars
  BY <1>8 DEF vars, TypeOK
<1> QED BY <1>1, <1>2, <1>3, <1>4, <1>5, <1>6, <1>7, <1>8 DEF Next

\* Every variable keeps its type, for any nodes, blobs and bounds: stamps and
\* cursors lie on the clock, the publisher remembers at most Keep blobs, and a
\* running step resolves shares that its node holds.
THEOREM TypeCorrect == Spec => []TypeOK
  BY InitTypes, NextTypes, PTL DEF Spec
-----------------------------------------------------------------------------
(* Commitments                                                               *)

\* A table holds, at other nodes than the publisher or with a share record,
\* only blobs that are committed to.
Committed(rows) ==
  \A n \in Node, b \in Blob :
    rows[n][b] # None /\ (n # Publisher \/ "share" \in rows[n][b].kinds) => b \in mined

\* The inductive invariant: what a restart brings back is committed to as well,
\* and the shares that are held, served and asked for are the venue's.
CInv == TypeOK /\ Committed(db) /\ Committed(disk)

\* A row that is added is committed to if its adder is not the publisher, or it
\* comes with a share record.
LEMMA AddCommitted ==
  ASSUME CInv, NEW n \in Node, NEW b \in Blob, NEW kinds \in SUBSET {"share", "template"},
         NEW now \in Time, n # Publisher \/ "share" \in kinds => b \in mined
  PROVE  Committed(Added(n, b, kinds, now))
<1>1. db \in Tables /\ clock \in Time
  BY DEF CInv, TypeOK
<1> DEFINE new == Added(n, b, kinds, now)
<1>2. ASSUME NEW x \in Node, NEW y \in Blob, x # n \/ y # b
      PROVE  new[x][y] = db[x][y]
  BY <1>1, <1>2, AddElsewhere
<1>7. ASSUME db[n][b] = None PROVE new[n][b].kinds = kinds
  BY <1>1, <1>7, AddedShape
<1>8. ASSUME db[n][b] # None PROVE new[n][b].kinds = db[n][b].kinds \cup kinds
  BY <1>1, <1>8, AddedShape
<1> HIDE DEF new
<1>3. SUFFICES ASSUME NEW k \in Node, NEW o \in Blob, new[k][o] # None,
                      k # Publisher \/ "share" \in new[k][o].kinds
               PROVE  o \in mined
  BY DEF new, Committed
<1>4. CASE k # n \/ o # b
  BY <1>2, <1>3, <1>4 DEF CInv, Committed
<1>5. CASE k = n /\ o = b /\ db[n][b] = None
  BY <1>7, <1>3, <1>5
<1>6. CASE k = n /\ o = b /\ db[n][b] # None
  BY <1>8, <1>3, <1>6 DEF CInv, Committed
<1> QED BY <1>4, <1>5, <1>6

LEMMA NextCommitted == CInv /\ [Next]_vars => Committed(db)' /\ Committed(disk)'
<1> SUFFICES ASSUME CInv, [Next]_vars PROVE Committed(db)' /\ Committed(disk)'
  OBVIOUS
<1>1. CASE \E b \in Blob : SubmitSolution(b)
  <2>1. PICK b \in Blob : SubmitSolution(b)
    BY <1>1
  <2>2. clock \in Time /\ Publisher \in Node
    BY BConsts DEF CInv, TypeOK
  <2>3. Committed(Added(Publisher, b, {"template"}, clock))
    BY <2>2, AddCommitted
  <2> QED BY <2>1, <2>3 DEF SubmitSolution, CInv, Committed
<1>2. CASE \E n \in Node, b \in Blob : ResolveBlob(n, b)
  <2>1. PICK n \in Node, b \in Blob : ResolveBlob(n, b)
    BY <1>2
  <2>2. b \in mined /\ step[n].now \in Time
    BY <2>1 DEF ResolveBlob, NextShare, CInv, TypeOK, Step
  <2>3. Committed(Added(n, b, {"share"}, step[n].now))
    BY <2>2, AddCommitted
  <2> QED BY <2>1, <2>3 DEF ResolveBlob, CInv, Committed
<1>3. CASE \E n, m \in Node, b \in Blob : RowVerified(n, m, b)
  <2>1. PICK n \in Node, m \in Node, b \in Blob : RowVerified(n, m, b)
    BY <1>3
  <2> DEFINE kinds == Verified(m, b, page[n][m].rows[b].kinds)
  <2>2. b \in mined /\ kinds \in SUBSET {"share", "template"}
    BY <2>1, VerifiedKinds DEF RowVerified, CInv, TypeOK
  <2>3. clock \in Time /\ db' = Added(n, b, kinds, clock) /\ UNCHANGED <<mined, disk>>
    BY <2>1 DEF RowVerified, RowDone, CInv, TypeOK
  <2> HIDE DEF kinds
  <2>4. Committed(Added(n, b, kinds, clock))
    BY <2>2, <2>3, AddCommitted
  <2> QED BY <2>3, <2>4 DEF CInv, Committed
<1>4. CASE \E n \in Node : Save(n)
  BY <1>4 DEF Save, CInv, Committed, TypeOK, Tables
<1>5. CASE \E n \in Node : Restart(n)
  BY <1>5 DEF Restart, CInv, Committed, TypeOK, Tables
<1>6. CASE \E b \in Blob : MineShare(b)
  BY <1>6 DEF MineShare, CInv, Committed
<1>7. CASE UNCHANGED <<mined, db, disk>>
  BY <1>7 DEF CInv, Committed
<1>8. CASE \/ \E b \in Blob : Poll(b)
           \/ \E n \in Node, b \in Blob : LearnShare(n, b) \/ SkipBlob(n, b)
           \/ \E n \in Node : StartBlobs(n)
           \/ \E n, m \in Node : FetchIndex(n, m)
           \/ Tick \/ UNCHANGED vars
  BY <1>7, <1>8 DEF Poll, LearnShare, SkipBlob, StartBlobs, FetchIndex, Tick, vars
<1>9. CASE \E n, m \in Node, b \in Blob :
             RowHeld(n, m, b) \/ RowFails(n, m, b) \/ RowUnverified(n, m, b)
  BY <1>7, <1>9 DEF RowHeld, RowFails, RowUnverified, RowDone
<1> QED BY <1>1, <1>2, <1>3, <1>4, <1>5, <1>6, <1>8, <1>9 DEF Next, RowStep

\* Spec section 3.3 for any venue: only the publisher ever holds a blob that no
\* share commits to, and it never claims a share record for one.
THEOREM VenueBacked == Spec => []OnlyCommitted
<1>1. Init => CInv
  <2>1. Init => Committed(db) /\ Committed(disk)
    BY DEF Init, Committed
  <2> QED BY <2>1, InitTypes DEF CInv
<1>2. CInv /\ [Next]_vars => CInv'
  BY NextTypes, NextCommitted DEF CInv
<1>3. CInv => OnlyCommitted
  BY DEF CInv, Committed, OnlyCommitted, Holds
<1> QED BY <1>1, <1>2, <1>3, PTL DEF Spec

-----------------------------------------------------------------------------
(* No row is skipped: the invariant is stated for one node asking another,  *)
(* over the other's rows, what it saved of them, and the first's cursor,    *)
(* page and passed rows.                                                    *)

\* A row that was stamped when it was stored, its place, and another row of its
\* second.
FreshRow(rows, b) == rows[b] # None /\ rows[b].stored = rows[b].seen
Place(rows, b) == <<rows[b].seen, b>>
Twin(rows, b) == \E o \in Blob \ {b} : rows[o] # None /\ rows[o].seen = rows[b].seen

\* What lies at the cursor or behind it has been passed, or shares its second.
Reached(rows, cur, pas) ==
  \A b \in Blob :
    FreshRow(rows, b) /\ ~Before(cur, Place(rows, b)) /\ b \notin pas => Twin(rows, b)

\* What lies between the cursor and the end of a page without a failure is
\* still in it, has been passed, or shares its second.
Covered(rows, cur, pg, pas) ==
  pg # None /\ pg.ok =>
    \A b \in Blob :
      /\ FreshRow(rows, b) /\ b \notin pas
      /\ Before(cur, Place(rows, b)) /\ ~Before(pg.to, Place(rows, b))
      => b \in DOMAIN pg.rows \/ Twin(rows, b)

\* A place that was read: in the past, or that of a row that is still there.
Read(rows, p, now) ==
  /\ p[1] <= now
  /\ p[1] = now => p[2] \in Blob /\ rows[p[2]] # None /\ rows[p[2]].seen = now

\* What is saved is a part of what is held.
Within(saved, rows) ==
  \A b \in Blob : saved[b] # None =>
    rows[b] # None /\ rows[b].seen = saved[b].seen /\ rows[b].stored = saved[b].stored

Pair(rows, saved, cur, pg, pas, now) ==
  /\ now > 0
  /\ \A b \in Blob : rows[b] # None => rows[b].seen <= now
  /\ Within(saved, rows)
  /\ Reached(rows, cur, pas) /\ Reached(saved, cur, pas)
  /\ Covered(rows, cur, pg, pas) /\ Covered(saved, cur, pg, pas)
  /\ Read(rows, cur, now)
  /\ pg # None => Read(rows, pg.to, now)

RowsOf == [Blob -> Row \cup {None}]

\* A table's rows have stamps on the clock.
LEMMA RowStamps ==
  ASSUME NEW rows \in RowsOf, NEW b \in Blob, rows[b] # None
  PROVE  rows[b].seen \in Nat /\ rows[b].stored \in Nat /\ b \in Nat /\ b # 0
  BY BConsts DEF RowsOf, Row, Time

\* A cursor's parts are numbers.
LEMMA PosParts ==
  ASSUME NEW p \in Pos
  PROVE  p[1] \in Nat /\ p[2] \in Nat
<1>1. p[1] \in Time /\ p[2] \in Blob \cup {0}
  BY DEF Pos
<1>2. Time \subseteq Nat /\ Blob \cup {0} \subseteq Nat
  BY BConsts DEF Time
<1> QED BY <1>1, <1>2

\* A row that is stored now, or learns a commitment, skips nothing: where the
\* cursor already stands in this second there is another row.
LEMMA AddRow ==
  ASSUME NEW rows \in RowsOf, NEW saved, NEW cur \in Pos, NEW pg \in Pages \cup {None},
         NEW pas, NEW now \in Nat, NEW new \in RowsOf, NEW b \in Blob,
         Pair(rows, saved, cur, pg, pas, now),
         \A o \in Blob \ {b} : new[o] = rows[o],
         new[b] # None,
         rows[b] # None => new[b].seen = rows[b].seen /\ new[b].stored = rows[b].stored,
         rows[b] = None => new[b].seen <= now /\ new[b].stored = now
  PROVE  Pair(new, saved, cur, pg, pas, now)
<1>1. \A o \in Blob : rows[o] # None =>
        new[o] # None /\ new[o].seen = rows[o].seen /\ new[o].stored = rows[o].stored
  OBVIOUS
<1>2. \A o \in Blob : new[o] # None =>
        rows[o] # None \/ (o = b /\ rows[o] = None)
  OBVIOUS
<1>3. \A o \in Blob : rows[o] # None /\ Twin(rows, o) => Twin(new, o)
  BY <1>1 DEF Twin
<1>4. ASSUME rows[b] = None, NEW p \in Pos, Read(rows, p, now), FreshRow(new, b),
             ~Before(p, Place(new, b))
      PROVE  Twin(new, b)
  <2>1. new[b].seen = now /\ b \in Nat
    BY <1>4, RowStamps DEF FreshRow
  <2>2. p[1] = now
    BY <1>4, <2>1, PosParts DEF Before, Place, Read
  <2>3. p[2] \in Blob /\ rows[p[2]] # None /\ rows[p[2]].seen = now
    BY <1>4, <2>2 DEF Read
  <2>4. p[2] # b
    BY <1>4, <2>3
  <2> QED BY <1>1, <2>1, <2>3, <2>4 DEF Twin
<1>5. Reached(new, cur, pas)
  <2> SUFFICES ASSUME NEW o \in Blob, FreshRow(new, o), ~Before(cur, Place(new, o)), o \notin pas
               PROVE  Twin(new, o)
    BY DEF Reached
  <2>1. CASE rows[o] # None
    BY <1>1, <1>3, <2>1 DEF Reached, FreshRow, Place, Pair
  <2>2. CASE rows[o] = None
    BY <1>2, <1>4, <2>2 DEF Pair, FreshRow
  <2> QED BY <2>1, <2>2
<1>6. Covered(new, cur, pg, pas)
  <2> SUFFICES ASSUME pg # None, pg.ok, NEW o \in Blob, FreshRow(new, o), o \notin pas,
                      Before(cur, Place(new, o)), ~Before(pg.to, Place(new, o))
               PROVE  o \in DOMAIN pg.rows \/ Twin(new, o)
    BY DEF Covered
  <2>1. CASE rows[o] # None
    BY <1>1, <1>3, <2>1 DEF Covered, FreshRow, Place, Pair
  <2>2. CASE rows[o] = None
    <3>1. pg.to \in Pos /\ Read(rows, pg.to, now)
      BY PageParts DEF Pair
    <3> QED BY <1>2, <1>4, <2>2, <3>1 DEF FreshRow
  <2> QED BY <2>1, <2>2
<1>7. \A p : Read(rows, p, now) => Read(new, p, now)
  BY <1>1 DEF Read
<1>8. Within(saved, new)
  BY <1>1 DEF Within, Pair
<1>9. \A o \in Blob : new[o] # None => new[o].seen <= now
  BY <1>1, <1>2 DEF Pair
<1> QED BY <1>5, <1>6, <1>7, <1>8, <1>9 DEF Pair

\* With time nothing is at the present any more.
LEMMA LaterPair ==
  ASSUME NEW rows \in RowsOf, NEW saved, NEW cur \in Pos, NEW pg \in Pages \cup {None},
         NEW pas, NEW now \in Nat, Pair(rows, saved, cur, pg, pas, now)
  PROVE  Pair(rows, saved, cur, pg, pas, now + 1)
<1>1. \A p \in Pos : Read(rows, p, now) => Read(rows, p, now + 1)
  BY PosParts DEF Read
<1>2. \A b \in Blob : rows[b] # None => rows[b].seen <= now + 1
  BY RowStamps DEF Pair
<1>3. pg # None => pg.to \in Pos
  BY PageParts
<1> QED BY <1>1, <1>2, <1>3 DEF Pair

\* The asked node restarts with what it saved, a second later at least.
LEMMA RestoredPair ==
  ASSUME NEW rows \in RowsOf, NEW saved \in RowsOf, NEW cur \in Pos, NEW pg \in Pages \cup {None},
         NEW pas, NEW now \in Nat, Pair(rows, saved, cur, pg, pas, now)
  PROVE  Pair(saved, saved, cur, pg, pas, now + 1)
<1>1. \A p \in Pos : Read(rows, p, now) => Read(saved, p, now + 1)
  BY PosParts DEF Read
<1>2. \A b \in Blob : saved[b] # None => saved[b].seen <= now + 1
  BY RowStamps DEF Pair, Within
<1>3. pg # None => pg.to \in Pos
  BY PageParts
<1>4. Within(saved, saved)
  BY DEF Within
<1> QED BY <1>1, <1>2, <1>3, <1>4 DEF Pair

\* The asked node saves.
LEMMA SavedPair ==
  ASSUME NEW rows, NEW saved, NEW cur, NEW pg, NEW pas, NEW now,
         Pair(rows, saved, cur, pg, pas, now)
  PROVE  Pair(rows, rows, cur, pg, pas, now)
  BY DEF Pair, Within

\* The asking node restarts: it begins anew.
LEMMA RestartedPair ==
  ASSUME NEW rows \in RowsOf, NEW saved \in RowsOf, NEW cur, NEW pg, NEW pas, NEW now \in Nat,
         Pair(rows, saved, cur, pg, pas, now)
  PROVE  Pair(rows, saved, Start, None, {}, now)
<1>1. ASSUME NEW r \in RowsOf, NEW b \in Blob, r[b] # None
      PROVE  Before(Start, Place(r, b))
  BY <1>1, RowStamps DEF Before, Start, Place
<1>2. Reached(rows, Start, {}) /\ Reached(saved, Start, {})
  BY <1>1 DEF Reached, FreshRow
<1>3. Read(rows, Start, now)
  BY DEF Read, Start, Pair
<1> QED BY <1>2, <1>3 DEF Pair, Covered

-----------------------------------------------------------------------------
(* Pages                                                                     *)

\* The places of a table's rows are ordered by second, then by hash.
LEMMA PlaceOrder ==
  ASSUME NEW rows \in RowsOf, NEW a \in Blob, NEW b \in Blob, NEW c \in Blob,
         rows[a] # None, rows[b] # None, rows[c] # None
  PROVE  /\ ~Before(Place(rows, a), Place(rows, a))
         /\ Before(Place(rows, a), Place(rows, b)) /\ Before(Place(rows, b), Place(rows, c))
              => Before(Place(rows, a), Place(rows, c))
         /\ a # b => Before(Place(rows, a), Place(rows, b)) \/ Before(Place(rows, b), Place(rows, a))
  BY RowStamps DEF Before, Place

\* The rows after a place, and the first of them, over any table.
Later(rows, cur) == {b \in Blob : rows[b] # None /\ Before(cur, Place(rows, b))}
Earlier(rows, cur, b) == {o \in Later(rows, cur) : Before(Place(rows, o), Place(rows, b))}
FirstRows(rows, cur) == {b \in Later(rows, cur) : Cardinality(Earlier(rows, cur, b)) < Page}

\* A page is a beginning: what lies before one of its rows is in it too.
LEMMA PageIsPrefix ==
  ASSUME NEW rows \in RowsOf, NEW cur \in Pos, NEW last \in FirstRows(rows, cur),
         NEW b \in Later(rows, cur), ~Before(Place(rows, last), Place(rows, b))
  PROVE  b \in FirstRows(rows, cur)
<1>1. last \in Later(rows, cur) /\ Cardinality(Earlier(rows, cur, last)) < Page
  BY DEF FirstRows
<1>2. /\ b \in Blob /\ rows[b] # None
      /\ last \in Blob /\ rows[last] # None
  BY <1>1 DEF Later
<1>3. b = last \/ Before(Place(rows, b), Place(rows, last))
  BY <1>2, PlaceOrder
<1>4. Earlier(rows, cur, b) \subseteq Earlier(rows, cur, last)
  <2> SUFFICES ASSUME NEW o \in Earlier(rows, cur, b) PROVE o \in Earlier(rows, cur, last)
    OBVIOUS
  <2>1. o \in Later(rows, cur) /\ Before(Place(rows, o), Place(rows, b))
    BY DEF Earlier
  <2>2. o \in Blob /\ rows[o] # None
    BY <2>1 DEF Later
  <2>3. Before(Place(rows, o), Place(rows, last))
    BY <1>2, <1>3, <2>1, <2>2, PlaceOrder
  <2> QED BY <2>1, <2>3 DEF Earlier
<1>5. IsFiniteSet(Earlier(rows, cur, last))
  <2>1. Earlier(rows, cur, last) \subseteq Blob
    BY DEF Earlier, Later
  <2> QED BY <2>1, BlobAssumption, FS_Subset
<1>6. /\ IsFiniteSet(Earlier(rows, cur, b))
      /\ Cardinality(Earlier(rows, cur, b)) <= Cardinality(Earlier(rows, cur, last))
  BY <1>4, <1>5, FS_Subset
<1>7. Cardinality(Earlier(rows, cur, b)) \in Nat /\ Cardinality(Earlier(rows, cur, last)) \in Nat
  BY <1>5, <1>6, FS_CardinalityType
<1>8. Page \in Nat
  BY BoundAssumption
<1>9. Cardinality(Earlier(rows, cur, b)) < Page
  BY <1>1, <1>6, <1>7, <1>8
<1> QED BY <1>9 DEF FirstRows

\* A page is fetched: its end was read, and it covers what lies before it.
LEMMA FetchPair ==
  ASSUME NEW rows \in RowsOf, NEW saved \in RowsOf, NEW cur \in Pos, NEW pas, NEW now \in Nat,
         Pair(rows, saved, cur, None, pas, now),
         NEW R, R = FirstRows(rows, cur), NEW last \in R,
         NEW pg \in Pages, DOMAIN pg.rows = R, pg.to = Place(rows, last)
  PROVE  Pair(rows, saved, cur, pg, pas, now)
<1>1. last \in Blob /\ rows[last] # None
  BY DEF FirstRows, Later
<1>2. \A b \in Blob : /\ rows[b] # None /\ Before(cur, Place(rows, b))
                      /\ ~Before(pg.to, Place(rows, b))
                      => b \in R
  BY PageIsPrefix DEF Later
<1>3. Covered(rows, cur, pg, pas)
  BY <1>2 DEF Covered, FreshRow
<1>4. Covered(saved, cur, pg, pas)
  <2> SUFFICES ASSUME NEW b \in Blob, FreshRow(saved, b), Before(cur, Place(saved, b)),
                      ~Before(pg.to, Place(saved, b))
               PROVE  b \in DOMAIN pg.rows
    BY DEF Covered
  <2>1. rows[b] # None /\ Place(rows, b) = Place(saved, b)
    BY DEF Pair, Within, FreshRow, Place
  <2> QED BY <1>2, <2>1
<1>5. Read(rows, pg.to, now)
  <2>1. rows[last].seen <= now
    BY <1>1 DEF Pair
  <2>2. pg.to[1] = rows[last].seen /\ pg.to[2] = last
    BY DEF Place
  <2> QED BY <1>1, <2>1, <2>2 DEF Read
<1> QED BY <1>3, <1>4, <1>5 DEF Pair

\* A row is done; the rest of the page is left.
LEMMA RowDonePair ==
  ASSUME NEW rows \in RowsOf, NEW saved \in RowsOf, NEW cur \in Pos, NEW pas, NEW now \in Nat,
         NEW pg \in Pages, NEW new \in Pages, NEW b, NEW processed \in BOOLEAN,
         NEW done, pas \subseteq done, processed => b \in done,
         Pair(rows, saved, cur, pg, pas, now),
         DOMAIN new.rows = DOMAIN pg.rows \ {b}, new.to = pg.to, new.ok = (pg.ok /\ processed)
  PROVE  Pair(rows, saved, cur, new, done, now)
<1>1. pas \subseteq done /\ (processed => b \in done)
  OBVIOUS
<1>2. pg # None
  BY BConsts
<1>3. ASSUME NEW r, Reached(r, cur, pas), Covered(r, cur, pg, pas)
      PROVE  Reached(r, cur, done) /\ Covered(r, cur, new, done)
  BY <1>1, <1>2, <1>3 DEF Reached, Covered
<1> QED BY <1>2, <1>3 DEF Pair

\* A page is done: all its rows were passed, or the cursor stays.
LEMMA PageDonePair ==
  ASSUME NEW rows \in RowsOf, NEW saved \in RowsOf, NEW cur \in Pos, NEW pas, NEW now \in Nat,
         NEW pg \in Pages, NEW b, NEW processed \in BOOLEAN,
         NEW done, pas \subseteq done, processed => b \in done,
         Pair(rows, saved, cur, pg, pas, now),
         DOMAIN pg.rows \ {b} = {},
         NEW to \in Pos,
         pg.ok /\ processed => to = pg.to, ~(pg.ok /\ processed) => to = cur
  PROVE  Pair(rows, saved, to, None, done, now)
<1>1. pas \subseteq done /\ (processed => b \in done)
  OBVIOUS
<1>2. pg # None
  BY BConsts
<1>3. ASSUME NEW r, Reached(r, cur, pas), Covered(r, cur, pg, pas)
      PROVE  Reached(r, to, done)
  <2>1. CASE pg.ok /\ processed
    <3> SUFFICES ASSUME NEW o \in Blob, FreshRow(r, o), ~Before(to, Place(r, o)), o \notin done
                 PROVE  Twin(r, o)
      BY DEF Reached
    <3>1. o \notin pas /\ o \notin DOMAIN pg.rows
      BY <1>1, <2>1
    <3>2. CASE Before(cur, Place(r, o))
      BY <1>2, <1>3, <2>1, <3>1, <3>2 DEF Covered
    <3>3. CASE ~Before(cur, Place(r, o))
      BY <1>3, <3>1, <3>3 DEF Reached
    <3> QED BY <3>2, <3>3
  <2>2. CASE ~(pg.ok /\ processed)
    BY <1>1, <1>3, <2>2 DEF Reached
  <2> QED BY <2>1, <2>2
<1>4. Read(rows, to, now)
  BY <1>2 DEF Pair
<1>5. Covered(rows, to, None, done) /\ Covered(saved, to, None, done)
  BY DEF Covered
<1> QED BY <1>2, <1>3, <1>4, <1>5 DEF Pair
-----------------------------------------------------------------------------
(* The system                                                                *)

\* What n knows of m's index.
Known(n, m) == Pair(db[m], disk[m], cursor[n][m], page[n][m], passed[n][m], clock)

\* The inductive invariant: every node's view of every index skips nothing.
IInv == TypeOK /\ \A n, m \in Node : Known(n, m)

\* The parts of the state that Known is about have the types the lemmas ask for.
LEMMA KnownTypes ==
  ASSUME TypeOK, NEW n \in Node, NEW m \in Node
  PROVE  /\ db[m] \in RowsOf /\ disk[m] \in RowsOf /\ db \in Tables
         /\ cursor[n][m] \in Pos /\ page[n][m] \in Pages \cup {None}
         /\ clock \in Nat /\ clock \in Time
  BY BConsts DEF TypeOK, Tables, RowsOf, Time

\* BlobDB.add at a node skips nothing for those that ask it or others.
LEMMA AddKnown ==
  ASSUME IInv, NEW k \in Node, NEW b \in Blob, NEW kinds \in SUBSET {"share", "template"},
         NEW now \in Time, now <= clock, NEW n \in Node, NEW m \in Node
  PROVE  Pair(Added(k, b, kinds, now)[m], disk[m], cursor[n][m], page[n][m], passed[n][m], clock)
<1> DEFINE new == Added(k, b, kinds, now)[m]
<1>1. TypeOK /\ Pair(db[m], disk[m], cursor[n][m], page[n][m], passed[n][m], clock)
  BY DEF IInv, Known
<1>2. /\ db[m] \in RowsOf /\ db \in Tables /\ clock \in Time /\ clock \in Nat
      /\ cursor[n][m] \in Pos /\ page[n][m] \in Pages \cup {None}
  BY <1>1, KnownTypes
<1>3. new \in RowsOf
  <2>1. Added(k, b, kinds, now) \in Tables
    BY <1>2, AddedShape
  <2> QED BY <2>1 DEF Tables, RowsOf
<1>4. CASE m = k
  <2>1. ASSUME NEW o \in Blob \ {b} PROVE new[o] = db[m][o]
    BY <1>2, <1>4, <2>1, AddElsewhere
  <2>2. /\ new[b] # None
        /\ db[m][b] # None => new[b].seen = db[m][b].seen /\ new[b].stored = db[m][b].stored
        /\ db[m][b] = None => new[b].seen = now /\ new[b].stored = clock
    BY <1>2, <1>4, AddedShape
  <2> HIDE DEF new
  <2>3. db[m][b] = None => new[b].seen <= clock /\ new[b].stored = clock
    BY <2>2
  <2>4. Pair(new, disk[m], cursor[n][m], page[n][m], passed[n][m], clock)
    BY <1>1, <1>2, <1>3, <2>1, <2>2, <2>3, AddRow
  <2> QED BY <2>4 DEF new
<1>5. CASE m # k
  <2>1. ASSUME NEW o \in Blob PROVE new[o] = db[m][o]
    BY <1>2, <1>5, <2>1, AddElsewhere
  <2> HIDE DEF new
  <2>2. new = db[m]
    BY <1>2, <1>3, <2>1 DEF RowsOf
  <2> QED BY <1>1, <2>2 DEF new
<1> QED BY <1>4, <1>5

\* A page's answer is the first rows after the cursor.
LEMMA FetchKnown ==
  ASSUME IInv, NEW k \in Node, NEW l \in Node, FetchIndex(k, l), NEW n \in Node, NEW m \in Node
  PROVE  Known(n, m)'
<1>1. TypeOK /\ Known(n, m) /\ UNCHANGED <<db, disk, cursor, passed, clock>>
  BY DEF IInv, FetchIndex
<1>2. page' \in [Node -> [Node -> Pages \cup {None}]] /\ page[k][l] = None
  BY <1>1, FetchIndexTypes DEF FetchIndex
<1>3. CASE n = k /\ m = l
  <2> DEFINE R == Rows(l, cursor[k][l])
  <2>1. PICK last \in R :
          page' = [page EXCEPT ![k][l] =
                     [rows |-> [b \in R |-> db[l][b]], to |-> At(l, last), ok |-> TRUE]]
    BY DEF FetchIndex
  <2>2. PICK pg : pg = page'[n][m]
    OBVIOUS
  <2>3. pg = [rows |-> [b \in R |-> db[l][b]], to |-> At(l, last), ok |-> TRUE]
    BY <1>1, <1>3, <2>1, <2>2 DEF TypeOK
  <2>4. DOMAIN pg.rows = R /\ pg.to = Place(db[m], last)
    BY <1>3, <2>3 DEF At, Place
  <2>5. R = FirstRows(db[m], cursor[n][m])
    BY <1>3 DEF Rows, After, Held, Holds, At, FirstRows, Later, Earlier, Place
  <2>6. pg \in Pages
    BY <1>1, <2>3, IndexPage
  <2> HIDE DEF R
  <2>7. Pair(db[m], disk[m], cursor[n][m], pg, passed[n][m], clock)
    BY <1>1, <1>2, <1>3, <2>1, <2>4, <2>5, <2>6, KnownTypes, FetchPair DEF Known
  <2> QED BY <1>1, <2>2, <2>7 DEF Known
<1>4. CASE n # k \/ m # l
  <2>1. page'[n][m] = page[n][m]
    BY <1>1, <1>4 DEF FetchIndex, TypeOK
  <2> QED BY <1>1, <2>1 DEF Known
<1> QED BY <1>3, <1>4

\* A row that is worked through, or not: the page goes on, or the cursor moves.
LEMMA RowDoneKnown ==
  ASSUME IInv, NEW k \in Node, NEW l \in Node, NEW b \in Blob, NEW processed \in BOOLEAN,
         NextRow(k, l, b), RowDone(k, l, b, processed), UNCHANGED clock,
         NEW n \in Node, NEW m \in Node,
         Pair(db'[m], disk[m], cursor[n][m], page[n][m], passed[n][m], clock), db' \in Tables
  PROVE  Known(n, m)'
<1>1. TypeOK /\ disk' = disk
  BY DEF IInv, RowDone
<1>2. /\ page' \in [Node -> [Node -> Pages \cup {None}]]
      /\ cursor' \in [Node -> [Node -> Pos]]
  BY <1>1, RowDoneTypes
<1>3. db'[m] \in RowsOf /\ disk[m] \in RowsOf /\ clock \in Nat
  BY <1>1, KnownTypes DEF Tables, RowsOf
<1>4. PICK rows, saved, cur, pg, pas :
        /\ rows = db'[m] /\ saved = disk[m]
        /\ cur = cursor[n][m] /\ pg = page[n][m] /\ pas = passed[n][m]
  OBVIOUS
<1>5. CASE n = k /\ m = l
  <2> DEFINE left == DOMAIN pg.rows \ {b}
             ok   == pg.ok /\ processed
  <2>1. pg \in Pages /\ cur \in Pos /\ b \in DOMAIN pg.rows
    BY <1>1, <1>4, <1>5 DEF TypeOK, NextRow
  <2>2. PICK done : done = passed'[n][m]
    OBVIOUS
  <2>3. pas \subseteq done /\ (processed => b \in done)
    BY <1>1, <1>4, <1>5, <2>2 DEF RowDone, TypeOK
  <2>4. rows \in RowsOf /\ saved \in RowsOf /\ Pair(rows, saved, cur, pg, pas, clock)
    BY <1>3, <1>4
  <2>5. CASE left = {}
    <3>1. page'[n][m] = None
      BY <1>1, <1>4, <1>5, <2>5 DEF RowDone, TypeOK
    <3>2. PICK to : to = cursor'[n][m]
      OBVIOUS
    <3>3. to = IF ok THEN pg.to ELSE cur
      BY <1>1, <1>4, <1>5, <2>5, <3>2 DEF RowDone, TypeOK, Moves
    <3>4. to \in Pos
      BY <1>2, <3>2
    <3>5. (pg.ok /\ processed => to = pg.to) /\ (~(pg.ok /\ processed) => to = cur)
      BY <3>3
    <3>6. Pair(rows, saved, to, None, done, clock)
      BY <1>3, <2>1, <2>3, <2>4, <2>5, <3>4, <3>5, PageDonePair
    <3> QED BY <1>1, <1>4, <2>2, <3>1, <3>2, <3>6 DEF Known
  <2>6. CASE left # {}
    <3> DEFINE rest == [rows |-> [o \in left |-> pg.rows[o]], to |-> pg.to, ok |-> ok]
    <3>1. page'[n][m] = rest
      BY <1>1, <1>4, <1>5, <2>6 DEF RowDone, TypeOK
    <3>2. cursor'[n][m] = cur
      BY <1>1, <1>4, <1>5, <2>6 DEF RowDone, TypeOK
    <3>3. ok \in BOOLEAN /\ DOMAIN pg.rows # {b}
      BY <2>1, <2>6, PageParts
    <3>4. rest \in Pages
      BY <2>1, <3>3, RestOfPage
    <3>5. DOMAIN rest.rows = DOMAIN pg.rows \ {b} /\ rest.to = pg.to
          /\ rest.ok = (pg.ok /\ processed)
      OBVIOUS
    <3> HIDE DEF rest, left, ok
    <3>6. Pair(rows, saved, cur, rest, done, clock)
      BY <1>3, <2>1, <2>3, <2>4, <3>4, <3>5, RowDonePair
    <3> QED BY <1>1, <1>4, <2>2, <3>1, <3>2, <3>6 DEF Known
  <2> QED BY <2>5, <2>6
<1>6. CASE n # k \/ m # l
  <2>1. page'[n][m] = page[n][m] /\ cursor'[n][m] = cursor[n][m] /\ passed'[n][m] = passed[n][m]
    BY <1>1, <1>6 DEF RowDone, TypeOK
  <2> QED BY <1>1, <2>1 DEF Known
<1> QED BY <1>5, <1>6

\* Working through a row of k's page of l's index.
LEMMA RowStepKnown ==
  ASSUME IInv, NEW k \in Node, NEW l \in Node, NEW b \in Blob, RowStep(k, l, b),
         NEW n \in Node, NEW m \in Node
  PROVE  Known(n, m)'
<1>1. TypeOK /\ Known(n, m)
  BY DEF IInv
<1>2. PICK processed \in BOOLEAN : RowDone(k, l, b, processed)
  BY DEF RowStep, RowHeld, RowFails, RowVerified, RowUnverified
<1>3. NextRow(k, l, b) /\ UNCHANGED clock
  BY DEF RowStep, RowHeld, RowFails, RowVerified, RowUnverified, RowDone
<1>4. TypeOK'
  BY <1>1, RowStepTypes
<1>5. db' \in Tables
  BY <1>4 DEF TypeOK
<1>6. CASE UNCHANGED db
  BY <1>1, <1>2, <1>3, <1>5, <1>6, RowDoneKnown DEF Known
<1>7. CASE RowVerified(k, l, b)
  <2> DEFINE kinds == Verified(l, b, page[k][l].rows[b].kinds)
  <2>1. kinds \in SUBSET {"share", "template"} /\ db' = Added(k, b, kinds, clock)
    BY <1>7, VerifiedKinds DEF RowVerified
  <2> HIDE DEF kinds
  <2>2. clock \in Time /\ clock <= clock
    BY <1>1, KnownTypes
  <2>3. Pair(db'[m], disk[m], cursor[n][m], page[n][m], passed[n][m], clock)
    BY <2>1, <2>2, AddKnown
  <2> QED BY <1>2, <1>3, <1>5, <2>3, RowDoneKnown
<1> QED BY <1>6, <1>7 DEF RowStep, RowHeld, RowFails, RowUnverified

\* A row that the publisher or a running sync adds.
LEMMA AddsKnown ==
  ASSUME IInv, NEW k \in Node, NEW b \in Blob,
         SubmitSolution(b) \/ ResolveBlob(k, b), NEW n \in Node, NEW m \in Node
  PROVE  Known(n, m)'
<1>1. TypeOK
  BY DEF IInv
<1>2. clock \in Time /\ clock <= clock
  BY <1>1, KnownTypes
<1>3. CASE SubmitSolution(b)
  BY <1>2, <1>3, BConsts, AddKnown DEF SubmitSolution, Known
<1>4. CASE ResolveBlob(k, b)
  <2>1. step[k].now \in Time /\ step[k].now <= clock
    BY <1>1, <1>4 DEF ResolveBlob, NextShare, TypeOK, Step
  <2> QED BY <1>4, <2>1, AddKnown DEF ResolveBlob, Known
<1> QED BY <1>3, <1>4

\* Time passes, and a node may restart meanwhile: the cursors of others are
\* behind the present, and its own are gone.
LEMMA TimeKnown ==
  ASSUME IInv, NEW k \in Node, Restart(k) \/ Tick, NEW n \in Node, NEW m \in Node
  PROVE  Known(n, m)'
<1>1. TypeOK /\ Known(n, m) /\ clock' = clock + 1 /\ disk' = disk
  BY DEF IInv, Restart, Tick
<1>2. /\ db[m] \in RowsOf /\ disk[m] \in RowsOf /\ clock \in Nat
      /\ cursor[n][m] \in Pos /\ page[n][m] \in Pages \cup {None}
  BY <1>1, KnownTypes
<1>3. Pair(db[m], disk[m], cursor[n][m], page[n][m], passed[n][m], clock + 1)
  BY <1>1, <1>2, LaterPair DEF Known
<1>4. Pair(disk[m], disk[m], cursor[n][m], page[n][m], passed[n][m], clock + 1)
  BY <1>1, <1>2, RestoredPair DEF Known
<1>5. CASE Tick
  BY <1>1, <1>3, <1>5 DEF Tick, Known
<1>6. CASE Restart(k)
  <2>1. db'[m] = IF m = k THEN disk[m] ELSE db[m]
    BY <1>1, <1>6 DEF Restart, TypeOK, Tables
  <2>2. PICK rows : rows = db'[m]
    OBVIOUS
  <2>3. rows \in RowsOf /\ Pair(rows, disk[m], cursor[n][m], page[n][m], passed[n][m], clock + 1)
    BY <1>2, <1>3, <1>4, <2>1, <2>2
  <2>4. CASE n = k
    <3>1. cursor'[n][m] = Start /\ page'[n][m] = None /\ passed'[n][m] = {}
      BY <1>1, <1>6, <2>4 DEF Restart, TypeOK
    <3>2. clock + 1 \in Nat
      BY <1>2
    <3>3. Pair(rows, disk[m], Start, None, {}, clock + 1)
      BY <1>2, <2>3, <3>2, RestartedPair
    <3> QED BY <1>1, <2>2, <3>1, <3>3 DEF Known
  <2>5. CASE n # k
    <3>1. /\ cursor'[n][m] = cursor[n][m] /\ page'[n][m] = page[n][m]
          /\ passed'[n][m] = passed[n][m]
      BY <1>1, <1>6, <2>5 DEF Restart, TypeOK
    <3> QED BY <1>1, <2>2, <2>3, <3>1 DEF Known
  <2> QED BY <2>4, <2>5
<1> QED BY <1>5, <1>6

\* Every step keeps the inductive invariant.
LEMMA NextKnown == IInv /\ [Next]_vars => IInv'
<1> SUFFICES ASSUME IInv, [Next]_vars PROVE IInv'
  OBVIOUS
<1>1. TypeOK'
  BY NextTypes DEF IInv
<1> SUFFICES ASSUME NEW n \in Node, NEW m \in Node PROVE Known(n, m)'
  BY <1>1 DEF IInv
<1>2. CASE UNCHANGED <<db, disk, cursor, page, passed, clock>>
  BY <1>2 DEF IInv, Known
<1>3. CASE \E b \in Blob : Poll(b) \/ MineShare(b)
  BY <1>2, <1>3 DEF Poll, MineShare
<1>4. CASE \E b \in Blob : SubmitSolution(b)
  BY <1>4, BConsts, AddsKnown
<1>5. CASE \E k \in Node, b \in Blob : LearnShare(k, b) \/ SkipBlob(k, b)
  BY <1>2, <1>5 DEF LearnShare, SkipBlob
<1>6. CASE \E k \in Node : StartBlobs(k)
  BY <1>2, <1>6 DEF StartBlobs
<1>7. CASE \E k \in Node, b \in Blob : ResolveBlob(k, b)
  BY <1>7, AddsKnown
<1>8. CASE \E k, l \in Node : FetchIndex(k, l)
  BY <1>8, FetchKnown
<1>9. CASE \E k, l \in Node, b \in Blob : RowStep(k, l, b)
  BY <1>9, RowStepKnown
<1>10. CASE \E k \in Node : Save(k)
  <2>1. PICK k \in Node : Save(k)
    BY <1>10
  <2>2. disk'[m] = IF m = k THEN db[m] ELSE disk[m]
    BY <2>1 DEF Save, IInv, TypeOK, Tables
  <2>3. Pair(db[m], disk[m], cursor[n][m], page[n][m], passed[n][m], clock)
    BY DEF IInv, Known
  <2>4. Pair(db[m], db[m], cursor[n][m], page[n][m], passed[n][m], clock)
    BY <2>3, SavedPair
  <2> QED BY <2>1, <2>2, <2>3, <2>4 DEF Save, Known
<1>11. CASE \E k \in Node : Restart(k)
  BY <1>11, TimeKnown
<1>12. CASE Tick
  BY <1>12, TimeKnown
<1>13. CASE UNCHANGED vars
  BY <1>2, <1>13 DEF vars
<1> QED BY <1>3, <1>4, <1>5, <1>6, <1>7, <1>8, <1>9, <1>10, <1>11, <1>12, <1>13 DEF Next

\* Nothing is held at the start.
LEMMA InitKnown == Init => IInv
<1> SUFFICES ASSUME Init, NEW n \in Node, NEW m \in Node PROVE Known(n, m)
  BY InitTypes DEF IInv
<1>1. \A b \in Blob : db[m][b] = None /\ disk[m][b] = None
  BY DEF Init
<1>2. cursor[n][m] = Start /\ page[n][m] = None /\ clock = 1
  BY DEF Init
<1>3. Reached(db[m], cursor[n][m], passed[n][m]) /\ Reached(disk[m], cursor[n][m], passed[n][m])
  BY <1>1 DEF Reached, FreshRow
<1>4. Read(db[m], cursor[n][m], clock)
  BY <1>2 DEF Read, Start
<1> QED BY <1>1, <1>2, <1>3, <1>4 DEF Known, Pair, Within, Covered

\* The pages of a moving index leave nothing out, for any number of nodes,
\* blobs, restarts and any page size: a row that was stamped when it was stored
\* and has its second for itself lies behind a cursor only if it was passed.
THEOREM NoneSkipped == Spec => []NoRowSkipped
<1>1. ASSUME IInv, NEW n \in Node, NEW m \in Node, NEW b \in Held(m),
             db[m][b].stored = db[m][b].seen,
             \A o \in Held(m) \ {b} : db[m][o].seen # db[m][b].seen,
             db[m][b].seen < cursor[n][m][1]
      PROVE  b \in passed[n][m]
  <2>1. b \in Blob /\ FreshRow(db[m], b)
    BY <1>1 DEF Held, Holds, FreshRow
  <2>2. ~Twin(db[m], b)
    BY <1>1 DEF Twin, Held, Holds
  <2>3. db[m] \in RowsOf /\ cursor[n][m] \in Pos
    BY <1>1, KnownTypes DEF IInv
  <2>4. ~Before(cursor[n][m], Place(db[m], b))
    BY <1>1, <2>1, <2>3, RowStamps, PosParts DEF Before, Place, FreshRow
  <2>5. Reached(db[m], cursor[n][m], passed[n][m])
    BY <1>1 DEF IInv, Known, Pair
  <2> QED BY <2>1, <2>2, <2>4, <2>5 DEF Reached
<1>2. IInv => NoRowSkipped
  BY <1>1 DEF NoRowSkipped, Passed
<1> QED BY <1>2, InitKnown, NextKnown, PTL DEF Spec
=============================================================================
