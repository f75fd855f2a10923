--------------------------- MODULE HeaderSyncProofs ---------------------------
(* Proofs about HeaderSync, for every value of its constants: types, that a    *)
(* node that only reads headers trades a current view for a longer one only,   *)
(* and that what a node serves holds its view.                                 *)
EXTENDS HeaderSync, SequenceTheorems, WellFoundedInduction, TLAPS

\* The assumptions on the constants, one by one.
LEMMA HConsts ==
  /\ Daemon \subseteq Node /\ Branch # {}
  /\ StaleTip \in Nat /\ MaxPast \in Nat /\ MaxReorgs \in Nat /\ MaxRestarts \in Nat
  /\ MaxHeight \in Nat /\ MaxHeight > 0
  BY HeaderConstants

-----------------------------------------------------------------------------
(* Headers and tables                                                        *)

\* A header's length is its height.
LEMMA Heights ==
  ASSUME NEW h \in Header
  PROVE  h \in Seq(Branch) /\ Len(h) \in Nat /\ 1 <= Len(h) /\ Len(h) <= MaxHeight
  BY HConsts DEF Header

\* The ancestors of a header are headers.
LEMMA Prefix ==
  ASSUME NEW tip \in Header, NEW k \in 1..Len(tip)
  PROVE  SubSeq(tip, 1, k) \in Header /\ Len(SubSeq(tip, 1, k)) = k
<1>1. tip \in Seq(Branch) /\ Len(tip) \in Nat /\ Len(tip) <= MaxHeight
  BY Heights
<1>2. \A i \in 1..k : tip[i] \in Branch
  BY <1>1, ElementOfSeq
<1>3. SubSeq(tip, 1, k) \in Seq(Branch) /\ Len(SubSeq(tip, 1, k)) = k
  BY <1>1, <1>2, SubSeqProperties
<1> QED BY <1>1, <1>3, HConsts DEF Header

\* The rows of a chain from a height on: a header of each height.
LEMMA RowsShape ==
  ASSUME NEW tip \in Header, NEW from \in 1..Len(tip)
  PROVE  /\ Rows(tip, from) \in Seq(Header)
         /\ Len(Rows(tip, from)) = Len(tip) - from + 1
         /\ \A i \in 1..Len(Rows(tip, from)) : Len(Rows(tip, from)[i]) = from + i - 1
         /\ Rows(tip, from) # <<>>
<1> DEFINE m == Len(tip) - from + 1
           rows == Rows(tip, from)
<1>1. Len(tip) \in Nat /\ m \in Nat /\ m > 0
  BY Heights
<1>2. \A i \in 1..m : from + i - 1 \in 1..Len(tip)
  BY <1>1
<1>3. \A i \in 1..m : SubSeq(tip, 1, from + i - 1) \in Header
                      /\ Len(SubSeq(tip, 1, from + i - 1)) = from + i - 1
  BY <1>2, Prefix
<1>4. rows \in [1..m -> Header] /\ \A i \in 1..m : Len(rows[i]) = from + i - 1
  BY <1>3 DEF Rows
<1> HIDE DEF m, rows
<1>5. rows \in Seq(Header)
  BY <1>1, <1>4, SeqDef
<1>6. Len(rows) = m
  BY <1>1, <1>4, <1>5, LenProperties
<1>7. rows # <<>>
  BY <1>1, <1>5, <1>6, EmptySeq
<1> QED BY <1>4, <1>5, <1>6, <1>7 DEF m, rows

\* put_headers keeps one header of each height, and drops none.
LEMMA OverlayShape ==
  ASSUME NEW t \in Table, NEW from \in Nat \ {0}, from <= Len(t) + 1,
         NEW rows \in Seq(Header), \A i \in 1..Len(rows) : Len(rows[i]) = from + i - 1
  PROVE  Overlay(t, rows, from) \in Table /\ Len(t) <= Len(Overlay(t, rows, from))
<1> DEFINE last == from + Len(rows) - 1
           m == IF last > Len(t) THEN last ELSE Len(t)
           new == Overlay(t, rows, from)
<1>1. /\ t \in Seq(Header) /\ Len(t) \in Nat /\ Len(rows) \in Nat
      /\ \A h \in 1..Len(t) : Len(t[h]) = h
  BY LenProperties DEF Table
<1>2. m \in Nat /\ last <= m /\ Len(t) <= m /\ (m = last \/ m = Len(t)) /\ last \in Int
  BY <1>1
<1>3. new = [h \in 1..m |-> IF h \in from..last THEN rows[h - from + 1] ELSE t[h]]
  BY DEF Overlay
<1> HIDE DEF m, new
<1>4. ASSUME NEW h \in 1..m PROVE new[h] \in Header /\ Len(new[h]) = h
  <2>1. CASE h \in from..last
    <3>1. h - from + 1 \in 1..Len(rows) /\ new[h] = rows[h - from + 1]
      BY <1>1, <1>2, <1>3, <1>4, <2>1
    <3>2. rows[h - from + 1] \in Header
      BY <3>1, ElementOfSeq
    <3>3. Len(rows[h - from + 1]) = from + (h - from + 1) - 1
      BY <3>1
    <3> QED BY <1>2, <3>1, <3>2, <3>3
  <2>2. CASE h \notin from..last
    <3>1. h \in 1..Len(t) /\ new[h] = t[h]
      BY <1>1, <1>2, <1>3, <1>4, <2>2
    <3> QED BY <1>1, <3>1, ElementOfSeq
  <2> QED BY <2>1, <2>2
<1>5. new \in [1..m -> Header]
  BY <1>3, <1>4
<1>6. new \in Seq(Header) /\ Len(new) = m
  <2>1. new \in Seq(Header)
    BY <1>2, <1>5, SeqDef
  <2> QED BY <1>2, <1>5, <2>1, LenProperties
<1> QED BY <1>2, <1>4, <1>6 DEF Table, new

-----------------------------------------------------------------------------
(* What sources serve                                                        *)

\* The last of the rows served is a header, that of the tip if the source has it.
LEMMA ServedShape ==
  ASSUME NEW s \in Node, headers[s] \in Table, NEW from \in Nat \ {0}, NEW tip \in Nat,
         Served(s, from, tip) # <<>>
  PROVE  /\ Last(Served(s, from, tip)) \in Header
         /\ tip <= Len(headers[s]) => Len(Last(Served(s, from, tip))) = tip
<1> PICK t : t = headers[s]
  OBVIOUS
<1>1. t \in Seq(Header) /\ Len(t) \in Nat /\ \A h \in 1..Len(t) : Len(t[h]) = h
  BY LenProperties DEF Table
<1> PICK last \in Nat : last = IF tip < Len(t) THEN tip ELSE Len(t)
  BY <1>1
<1>2. last <= Len(t) /\ (tip <= Len(t) => last = tip)
  BY <1>1
<1>3. Served(s, from, tip) = SubSeq(t, from, last)
  BY DEF Served
<1>4. from <= last
  <2>1. ASSUME last < from PROVE FALSE
    <3>1. SubSeq(t, from, last) = <<>>
      BY <2>1, SubSeqEmpty
    <3> QED BY <1>3, <3>1
  <2> QED BY <2>1
<1>5. \A i \in from..last : t[i] \in Header /\ Len(t[i]) = i
  BY <1>1, <1>2, ElementOfSeq
<1>9. last - from + 1 \in Nat /\ last - from + 1 >= 1 /\ from + (last - from + 1) - 1 = last
  BY <1>4
<1> PICK k \in Nat : k = last - from + 1 /\ k >= 1 /\ from + k - 1 = last
  BY <1>9
<1>6. /\ SubSeq(t, from, last) \in Seq(Header)
      /\ Len(SubSeq(t, from, last)) = IF from <= last THEN last - from + 1 ELSE 0
      /\ \A i \in 1..last - from + 1 : SubSeq(t, from, last)[i] = t[from + i - 1]
  BY <1>5, SubSeqProperties
<1>7. Len(SubSeq(t, from, last)) = k /\ SubSeq(t, from, last)[k] = t[last]
  BY <1>4, <1>6
<1>8. Last(Served(s, from, tip)) = t[last]
  BY <1>3, <1>7 DEF Last
<1> QED BY <1>2, <1>4, <1>5, <1>8

-----------------------------------------------------------------------------
(* Types                                                                     *)

\* The conjunct of TypeOK about the rows that the source loop has fetched.
SourceOK ==
  \A n \in Node : source[n] # Idle =>
    /\ source[n].from <= Len(headers[n]) + 1 /\ source[n].rows # <<>>
    /\ \A i \in 1..Len(source[n].rows) : Len(source[n].rows[i]) = source[n].from + i - 1

\* What is left of a chain without its tip.
LEMMA FrontShape ==
  ASSUME NEW s \in Seq(Branch), Len(s) \in Nat, 1 <= Len(s)
  PROVE  Front(s) \in Seq(Branch) /\ Len(Front(s)) = Len(s) - 1
<1>1. CASE Len(s) = 1
  <2>1. Front(s) = <<>>
    BY <1>1, SubSeqEmpty DEF Front
  <2> QED BY <1>1, <2>1, EmptySeq
<1>2. CASE Len(s) > 1
  <2>1. PICK k \in Nat : k = Len(s) - 1 /\ k >= 1
    BY <1>2
  <2>2. \A i \in 1..k : s[i] \in Branch
    BY <2>1, ElementOfSeq
  <2>3. SubSeq(s, 1, k) \in Seq(Branch) /\ Len(SubSeq(s, 1, k)) = k
    BY <2>1, <2>2, SubSeqProperties
  <2> QED BY <2>1, <2>3 DEF Front
<1>3. PICK m \in Nat : m = Len(s)
  OBVIOUS
<1>4. m = 1 \/ m > 1
  BY <1>3
<1> QED BY <1>1, <1>2, <1>3, <1>4, Zenon

\* The network's chain grows by one block, on its branch or on another.
LEMMA NetworkTypes ==
  ASSUME TypeOK, Mine \/ Reorg
  PROVE  main' \in Header /\ reorgs' \in 0..MaxReorgs
<1>1. main \in Seq(Branch) /\ Len(main) \in Nat /\ 1 <= Len(main)
  BY Heights DEF TypeOK
<1>2. Last(main) \in Branch
  BY <1>1, ElementOfSeq DEF Last
<1>3. CASE Mine
  <2>1. main' \in Seq(Branch) /\ Len(main') = Len(main) + 1
    BY <1>1, <1>2, <1>3, AppendProperties DEF Mine
  <2> QED BY <1>1, <1>3, <2>1, HConsts DEF Mine, Header, TypeOK
<1>4. CASE Reorg
  <2>1. PICK b \in Branch : main' = Append(Front(main), b)
    BY <1>4 DEF Reorg
  <2>2. Front(main) \in Seq(Branch) /\ Len(Front(main)) = Len(main) - 1
    BY <1>1, FrontShape
  <2>3. main' \in Seq(Branch) /\ Len(main') = Len(main)
    BY <1>1, <2>1, <2>2, AppendProperties
  <2> QED BY <1>1, <1>4, <2>3, HConsts DEF Reorg, Header, TypeOK
<1> QED BY <1>3, <1>4

\* The conjunct of TypeOK about the syncs in progress.
SyncOK ==
  \A n \in Node : sync[n] # Idle =>
    /\ sync[n].began <= restarts
    /\ sync[n].asking # Idle /\ ~sync[n].asking.whole => sync[n].existing # NoView

\* A sync that goes on as it should keeps the types.
LEMMA BecomesTypes ==
  ASSUME TypeOK, NEW n \in Node, NEW q \in Sync, Becomes(n, q), q.began <= restarts,
         q.asking # Idle /\ ~q.asking.whole => q.existing # NoView
  PROVE  TypeOK'
<1>1. /\ sync' = [sync EXCEPT ![n] = q]
      /\ UNCHANGED <<main, daemon, reorgs, headers, view, disk, source, restarts>>
  BY DEF Becomes, network
<1>2. sync' \in [Node -> Sync \cup {Idle}]
  BY <1>1 DEF TypeOK
<1>3. SyncOK'
  <2>1. ASSUME NEW k \in Node, sync'[k] # Idle
        PROVE  /\ sync'[k].began <= restarts
               /\ sync'[k].asking # Idle /\ ~sync'[k].asking.whole => sync'[k].existing # NoView
    <3>1. CASE k = n
      <4>1. sync'[k] = q
        BY <1>1, <3>1 DEF TypeOK
      <4> QED BY <4>1
    <3>2. CASE k # n
      <4>1. sync'[k] = sync[k]
        BY <1>1, <3>2 DEF TypeOK
      <4> QED BY <2>1, <4>1 DEF TypeOK
    <3> QED BY <3>1, <3>2
  <2> QED BY <1>1, <2>1 DEF SyncOK
<1> QED BY <1>1, <1>2, <1>3 DEF TypeOK, SyncOK

\* What a sync becomes when a source is done with, or asked for rows.
LEMMA HeardAsks ==
  ASSUME NEW q \in Sync, NEW s \in Node
  PROVE  /\ \A found \in SUBSET Header : Heard(q, s, found) \in Sync
         /\ \A tip \in Nat, whole \in BOOLEAN : Asks(q, s, tip, whole) \in Sync
  BY DEF Sync, Asking, Heard, Asks

\* What a step of a sync does about source s: it is passed over, or votes for the
\* stored view; it is asked for rows, or for the whole; or it had a view to add.
PassedOver(n, s) == Becomes(n, Heard(sync[n], s, {}))
VotesForExisting(n, s) ==
  sync[n].existing # NoView /\ Becomes(n, Heard(sync[n], s, {sync[n].existing}))
AskedForRows(n, s, whole) ==
  /\ Becomes(n, Asks(sync[n], s, Len(headers[s]), whole))
  /\ ~whole => sync[n].existing # NoView
  /\ \/ sync[n].existing = NoView
     \/ Stale(sync[n].existing, sync[n].clock)
     \/ Len(headers[s]) > Len(sync[n].existing)
AskedForWhole(n, s) ==
  /\ sync[n].asking # Idle /\ sync[n].asking.from = s
  /\ Becomes(n, Asks(sync[n], s, sync[n].asking.tip, TRUE))
AddsView(n, s, v) ==
  /\ sync[n].asking # Idle /\ sync[n].asking.from = s
  /\ Becomes(n, Heard(sync[n], s, {v}))
  /\ sync[n].asking.tip <= Len(headers[s]) => Len(v) = sync[n].asking.tip

\* Every step of an exchange with a source is one of these.
LEMMA ExchangeShape ==
  ASSUME TypeOK, NEW n \in Node, NEW s \in Node,
         AskTip(n, s) \/ FetchMore(n, s) \/ FetchWhole(n, s) \/ SourceSilent(n, s)
  PROVE  /\ sync[n] \in Sync /\ sync[n] # Idle
         /\ \/ PassedOver(n, s) \/ VotesForExisting(n, s) \/ AskedForWhole(n, s)
            \/ \E whole \in BOOLEAN : AskedForRows(n, s, whole)
            \/ \E v \in Header : AddsView(n, s, v)
<1>0. sync[n] # Idle /\ sync[n] \in Sync /\ headers[s] \in Table /\ Len(headers[s]) \in Nat
  <2>1. sync[n] # Idle
    BY DEF AskTip, FetchMore, FetchWhole, SourceSilent
  <2> QED BY <2>1, LenProperties DEF TypeOK, Table
<1> PICK q : q = sync[n]
  OBVIOUS
<1>1. /\ q \in Sync /\ q.existing \in View /\ q.asking \in Asking \cup {Idle} /\ q.clock \in Nat
      /\ q.existing # NoView => Len(q.existing) \in Nat
  BY <1>0, Heights DEF Sync, View
<1>2. CASE AskTip(n, s)
  <2> PICK tip \in Nat : tip = Len(headers[s])
    BY <1>0
  <2>1. CASE tip \notin 1..MaxPast
    BY <1>0, <1>2, <2>1 DEF AskTip, PassedOver
  <2>2. CASE tip \in 1..MaxPast /\ Reached(q, tip) /\ ~Stale(q.existing, q.clock)
    BY <1>0, <1>2, <2>2 DEF AskTip, Reached, VotesForExisting
  <2>3. CASE tip \in 1..MaxPast /\ ~(Reached(q, tip) /\ ~Stale(q.existing, q.clock))
    <3>1. Becomes(n, Asks(q, s, tip, q.existing = NoView \/ Reached(q, tip)))
      BY <1>2, <2>3 DEF AskTip
    <3>2. q.existing = NoView \/ Stale(q.existing, q.clock) \/ tip > Len(q.existing)
      BY <1>1, <2>3 DEF Reached
    <3>3. \E w \in BOOLEAN : w = (q.existing = NoView \/ Reached(q, tip))
      BY Zenon
    <3> PICK w \in BOOLEAN : w = (q.existing = NoView \/ Reached(q, tip))
      BY <3>3
    <3>4. ~w => q.existing # NoView
      BY Zenon
    <3>5. Becomes(n, Asks(q, s, tip, w))
      BY <3>1, Zenon
    <3> QED BY <1>0, <3>2, <3>4, <3>5 DEF AskedForRows
  <2> QED BY <2>1, <2>2, <2>3
<1>3. ASSUME q.asking # Idle, q.asking.from = s, NEW from \in Nat \ {0}, NEW parent,
             Verifies(Served(s, from, q.asking.tip), parent, q.clock),
             Becomes(n, Heard(q, s, {Last(Served(s, from, q.asking.tip))}))
      PROVE  \E v \in Header : AddsView(n, s, v)
  <2>1. q.asking.tip \in Nat
    BY <1>1, <1>3 DEF Asking
  <2>2. /\ Last(Served(s, from, q.asking.tip)) \in Header
        /\ q.asking.tip <= Len(headers[s]) => Len(Last(Served(s, from, q.asking.tip))) = q.asking.tip
    BY <1>0, <1>3, <2>1, ServedShape DEF Verifies
  <2> QED BY <1>3, <2>2 DEF AddsView
<1>4. CASE FetchMore(n, s)
  <2>1. q.asking # Idle /\ q.asking.from = s /\ ~q.asking.whole
    BY <1>4 DEF FetchMore
  <2>2. q.existing # NoView
    BY <1>0, <2>1 DEF TypeOK
  <2>3. Len(q.existing) + 1 \in Nat \ {0}
    BY <1>1, <2>2
  <2> PICK from \in Nat \ {0} : from = Len(q.existing) + 1
    BY <2>3
  <2>4. CASE Verifies(Served(s, from, q.asking.tip), q.existing, q.clock)
    <3>1. Becomes(n, Heard(q, s, {Last(Served(s, from, q.asking.tip))}))
      BY <1>4, <2>4 DEF FetchMore
    <3>2. \E v \in Header : AddsView(n, s, v)
      BY <1>3, <2>1, <2>4, <3>1
    <3> QED BY <1>0, <3>2
  <2>5. CASE ~Verifies(Served(s, from, q.asking.tip), q.existing, q.clock)
    <3>1. Becomes(n, Asks(q, s, q.asking.tip, TRUE))
      BY <1>4, <2>5 DEF FetchMore
    <3> QED BY <1>0, <2>1, <3>1 DEF AskedForWhole
  <2> QED BY <2>4, <2>5
<1>5. CASE FetchWhole(n, s)
  <2>1. q.asking # Idle /\ q.asking.from = s
    BY <1>5 DEF FetchWhole
  <2> PICK from \in Nat \ {0} : from = 1
    OBVIOUS
  <2> PICK parent : parent = <<>>
    OBVIOUS
  <2>2. CASE Verifies(Served(s, from, q.asking.tip), parent, q.clock)
    <3>1. Becomes(n, Heard(q, s, {Last(Served(s, from, q.asking.tip))}))
      BY <1>5, <2>2 DEF FetchWhole
    <3>2. \E v \in Header : AddsView(n, s, v)
      BY <1>3, <2>1, <2>2, <3>1
    <3> QED BY <1>0, <3>2
  <2>3. CASE ~Verifies(Served(s, from, q.asking.tip), parent, q.clock)
    BY <1>0, <1>5, <2>3 DEF FetchWhole, PassedOver
  <2> QED BY <2>2, <2>3
<1>6. CASE SourceSilent(n, s)
  <2>1. CASE q.asking # Idle /\ ~q.asking.whole
    BY <1>0, <1>6, <2>1 DEF SourceSilent, AskedForWhole
  <2>2. CASE ~(q.asking # Idle /\ ~q.asking.whole)
    BY <1>0, <1>6, <2>2 DEF SourceSilent, PassedOver
  <2> QED BY <2>1, <2>2
<1> QED BY <1>2, <1>4, <1>5, <1>6

\* And it writes nothing but the sync.
LEMMA ExchangeWrites ==
  ASSUME TypeOK, NEW n \in Node, NEW s \in Node,
         AskTip(n, s) \/ FetchMore(n, s) \/ FetchWhole(n, s) \/ SourceSilent(n, s)
  PROVE  /\ UNCHANGED <<network, headers, view, disk, source, restarts>>
         /\ \A k \in Node : k # n => sync'[k] = sync[k]
<1>1. ASSUME NEW q, Becomes(n, q)
      PROVE  /\ UNCHANGED <<network, headers, view, disk, source, restarts>>
             /\ \A k \in Node : k # n => sync'[k] = sync[k]
  BY <1>1 DEF Becomes, TypeOK
<1>2. \E q : Becomes(n, q)
  BY ExchangeShape DEF PassedOver, VotesForExisting, AskedForRows, AskedForWhole, AddsView
<1> QED BY <1>1, <1>2

\* Every exchange with a source keeps the types.
LEMMA ExchangeTypes ==
  ASSUME TypeOK, NEW n \in Node, NEW s \in Node,
         AskTip(n, s) \/ FetchMore(n, s) \/ FetchWhole(n, s) \/ SourceSilent(n, s)
  PROVE  TypeOK'
<1> PICK q : q = sync[n]
  OBVIOUS
<1>0. q \in Sync /\ q # Idle /\ q.began <= restarts /\ q.existing \in View /\ Len(headers[s]) \in Nat
  BY ExchangeShape, LenProperties DEF TypeOK, Sync, Table
<1>1. ASSUME NEW found \in SUBSET Header, Becomes(n, Heard(q, s, found)) PROVE TypeOK'
  <2> PICK r : r = Heard(q, s, found)
    OBVIOUS
  <2>1. r \in Sync /\ r.began = q.began /\ r.asking = Idle
    BY <1>0, HeardAsks DEF Heard
  <2> QED BY <1>0, <1>1, <2>1, BecomesTypes
<1>2. ASSUME NEW tip \in Nat, NEW whole \in BOOLEAN, ~whole => q.existing # NoView,
             Becomes(n, Asks(q, s, tip, whole))
      PROVE  TypeOK'
  <2> PICK r : r = Asks(q, s, tip, whole)
    OBVIOUS
  <2>1. r \in Sync /\ r.began = q.began /\ r.existing = q.existing
    BY <1>0, HeardAsks DEF Asks
  <2>2. r.asking.whole = whole
    BY DEF Asks
  <2>3. r.asking # Idle /\ ~r.asking.whole => r.existing # NoView
    BY <1>2, <2>1, <2>2
  <2> QED BY <1>0, <1>2, <2>1, <2>3, BecomesTypes
<1>3. CASE PassedOver(n, s)
  BY <1>1, <1>3 DEF PassedOver
<1>4. CASE VotesForExisting(n, s)
  <2>1. {q.existing} \in SUBSET Header
    BY <1>0, <1>4 DEF VotesForExisting, View
  <2> QED BY <1>1, <1>4, <2>1 DEF VotesForExisting
<1>5. ASSUME NEW whole \in BOOLEAN, AskedForRows(n, s, whole) PROVE TypeOK'
  BY <1>0, <1>2, <1>5 DEF AskedForRows
<1>6. CASE AskedForWhole(n, s)
  <2>1. q.asking.tip \in Nat
    BY <1>0, <1>6 DEF AskedForWhole, Sync, Asking
  <2> QED BY <1>2, <1>6, <2>1 DEF AskedForWhole
<1>7. ASSUME NEW v \in Header, AddsView(n, s, v) PROVE TypeOK'
  <2>1. {v} \in SUBSET Header
    OBVIOUS
  <2> QED BY <1>1, <1>7, <2>1 DEF AddsView
<1> QED BY <1>3, <1>4, <1>5, <1>6, <1>7, ExchangeShape

\* The ends of a sync keep the types.
LEMMA SyncTypes ==
  ASSUME TypeOK, NEW n \in Node, SyncStart(n) \/ SyncEnd(n)
  PROVE  TypeOK'
<1>1. CASE SyncStart(n)
  <2> DEFINE q == [clock |-> Len(main), existing |-> view[n], left |-> Node \ {n}, views |-> {},
                   asking |-> Idle, began |-> restarts]
  <2>1. q \in Sync /\ q.asking = Idle /\ q.began <= restarts
    BY Heights DEF Sync, TypeOK
  <2>2. Becomes(n, q)
    BY <1>1 DEF SyncStart, Becomes
  <2> HIDE DEF q
  <2> QED BY <2>1, <2>2, BecomesTypes
<1>5. CASE SyncEnd(n)
  <2>1. sync' \in [Node -> Sync \cup {Idle}]
    BY <1>5 DEF SyncEnd, TypeOK
  <2>4. SyncOK'
    <3>1. \A k \in Node : sync'[k] # Idle => sync'[k] = sync[k]
      BY <1>5 DEF SyncEnd, TypeOK
    <3> QED BY <1>5, <3>1 DEF SyncEnd, SyncOK, TypeOK
  <2>2. CASE sync[n].views = {}
    BY <1>5, <2>1, <2>2, <2>4 DEF SyncEnd, network, SyncOK, TypeOK
  <2>3. CASE sync[n].views # {}
    <3>1. PICK v \in Best(sync[n].views) :
            /\ headers' = [headers EXCEPT ![n] = Overlay(headers[n], Rows(v, 1), 1)]
            /\ view' = [view EXCEPT ![n] = v]
      BY <1>5, <2>3 DEF SyncEnd
    <3>2. v \in Header
      BY <1>5, <3>1 DEF SyncEnd, Best, TypeOK, Sync
    <3>3. /\ Rows(v, 1) \in Seq(Header)
          /\ \A i \in 1..Len(Rows(v, 1)) : Len(Rows(v, 1)[i]) = 1 + i - 1
      BY <3>2, Heights, RowsShape
    <3>4. headers[n] \in Table /\ Len(headers[n]) \in Nat
      BY LenProperties DEF TypeOK, Table
    <3>5. /\ Overlay(headers[n], Rows(v, 1), 1) \in Table
          /\ Len(headers[n]) <= Len(Overlay(headers[n], Rows(v, 1), 1))
      BY <3>3, <3>4, OverlayShape
    <3>6. headers' \in [Node -> Table] /\ view' \in [Node -> View]
      BY <3>1, <3>2, <3>5 DEF TypeOK, View
    <3>7. \A k \in Node : Len(headers[k]) \in Nat /\ Len(headers'[k]) \in Nat
                          /\ Len(headers[k]) <= Len(headers'[k])
      <4>1. \A k \in Node : Len(headers[k]) \in Nat /\ Len(headers'[k]) \in Nat
        BY <3>6, LenProperties DEF TypeOK, Table
      <4> QED BY <3>1, <3>5, <4>1 DEF TypeOK
    <3>8. SourceOK'
      <4>1. source' = source /\ SourceOK
        BY <1>5 DEF SyncEnd, TypeOK, SourceOK
      <4>2. \A k \in Node : source[k] # Idle => source[k].from \in Nat
        BY DEF TypeOK, Fetched
      <4>3. ASSUME NEW k \in Node, source[k] # Idle
            PROVE  source[k].from <= Len(headers'[k]) + 1
        BY <3>7, <4>1, <4>2, <4>3 DEF SourceOK
      <4> QED BY <4>1, <4>3 DEF SourceOK
    <3> QED BY <1>5, <2>1, <2>4, <3>6, <3>8 DEF SyncEnd, network, SourceOK, SyncOK, TypeOK
  <2> QED BY <2>2, <2>3
<1> QED BY <1>1, <1>5

\* The source loop keeps the types.
LEMMA SourceTypes ==
  ASSUME TypeOK, NEW n \in Daemon, SourceAsk(n) \/ SourceMerge(n)
  PROVE  TypeOK'
<1>1. n \in Node /\ daemon[n] \in Header /\ headers[n] \in Table /\ headers[n] \in Seq(Header)
      /\ Len(headers[n]) \in Nat
  BY HConsts, LenProperties DEF TypeOK, Table
<1>2. CASE SourceAsk(n)
  <2> DEFINE from == FetchFrom(n)
             got == [from |-> from, rows |-> DaemonRows(n, from)]
  <2>1. from \in 1..Len(daemon[n]) /\ from <= Len(headers[n]) + 1
    BY <1>1, <1>2, Heights DEF SourceAsk, FetchFrom
  <2>2. /\ DaemonRows(n, from) \in Seq(Header) /\ DaemonRows(n, from) # <<>>
        /\ \A i \in 1..Len(DaemonRows(n, from)) : Len(DaemonRows(n, from)[i]) = from + i - 1
    BY <1>1, <2>1, RowsShape DEF DaemonRows
  <2>3. source' = [source EXCEPT ![n] = got]
    BY <1>2 DEF SourceAsk
  <2>4. got \in Fetched /\ got.from = from /\ got.rows = DaemonRows(n, from)
    BY <1>1, <2>1, <2>2, Heights DEF Fetched
  <2> HIDE DEF from, got
  <2>5. source' \in [Node -> Fetched \cup {Idle}]
    BY <1>1, <2>3, <2>4 DEF TypeOK
  <2>6. SourceOK'
    <3>1. headers' = headers /\ SourceOK /\ source \in [Node -> Fetched \cup {Idle}]
      BY <1>2 DEF SourceAsk, TypeOK, SourceOK
    <3>2. ASSUME NEW k \in Node, source'[k] # Idle
          PROVE  /\ source'[k].from <= Len(headers[k]) + 1 /\ source'[k].rows # <<>>
                 /\ \A i \in 1..Len(source'[k].rows) :
                      Len(source'[k].rows[i]) = source'[k].from + i - 1
      <4>1. CASE k = n
        <5>1. source'[k] = got
          BY <1>1, <2>3, <3>1, <4>1
        <5> QED BY <2>1, <2>2, <2>4, <4>1, <5>1
      <4>2. CASE k # n
        <5>1. source'[k] = source[k]
          BY <2>3, <3>1, <3>2, <4>2
        <5> QED BY <3>1, <3>2, <5>1 DEF SourceOK
      <4> QED BY <4>1, <4>2
    <3> QED BY <3>1, <3>2 DEF SourceOK
  <2> QED BY <1>2, <2>5, <2>6 DEF SourceAsk, network, SourceOK, TypeOK
<1>3. CASE SourceMerge(n)
  <2>1. /\ source[n] \in Fetched /\ source[n].from <= Len(headers[n]) + 1
        /\ source[n].rows # <<>>
        /\ \A i \in 1..Len(source[n].rows) : Len(source[n].rows[i]) = source[n].from + i - 1
    BY <1>1, <1>3 DEF SourceMerge, TypeOK
  <2>2. source' \in [Node -> Fetched \cup {Idle}]
    BY <1>3 DEF SourceMerge, TypeOK
  <2>3. \A k \in Node : source'[k] # Idle => source'[k] = source[k] /\ k # n
    BY <1>1, <1>3 DEF SourceMerge, TypeOK
  <2>4. CASE UNCHANGED <<headers, view>>
    BY <1>3, <2>2, <2>3, <2>4 DEF SourceMerge, network, TypeOK
  <2>5. CASE /\ headers' = [headers EXCEPT ![n] =
                              Overlay(headers[n], source[n].rows, source[n].from)]
             /\ view' = [view EXCEPT ![n] = Last(source[n].rows)]
    <3>1. source[n].rows \in Seq(Header) /\ source[n].from \in Nat \ {0}
      BY <2>1 DEF Fetched
    <3>2. Overlay(headers[n], source[n].rows, source[n].from) \in Table
      BY <1>1, <2>1, <3>1, OverlayShape
    <3>3. Last(source[n].rows) \in Header
      <4>1. Len(source[n].rows) \in Nat /\ Len(source[n].rows) # 0
        BY <2>1, <3>1, LenProperties, EmptySeq
      <4> QED BY <3>1, <4>1, ElementOfSeq DEF Last
    <3>4. headers' \in [Node -> Table] /\ view' \in [Node -> View]
      BY <2>5, <3>2, <3>3 DEF TypeOK, View
    <3>5. \A k \in Node : k # n => headers'[k] = headers[k]
      BY <2>5 DEF TypeOK
    <3> QED BY <1>3, <2>2, <2>3, <3>4, <3>5 DEF SourceMerge, network, TypeOK
  <2> QED BY <1>3, <2>4, <2>5 DEF SourceMerge
<1> QED BY <1>2, <1>3

\* Saving and restarting keep the types.
LEMMA StoreTypes ==
  ASSUME TypeOK, NEW n \in Node, Save(n) \/ Restart(n)
  PROVE  TypeOK'
<1>1. CASE Save(n)
  <2> DEFINE kept == [headers |-> headers[n], view |-> view[n]]
  <2>1. kept \in [headers : Table, view : View] /\ disk' = [disk EXCEPT ![n] = kept]
    BY <1>1 DEF Save, TypeOK
  <2> HIDE DEF kept
  <2>2. disk' \in [Node -> [headers : Table, view : View]]
    BY <2>1 DEF TypeOK
  <2> QED BY <1>1, <2>2 DEF Save, network, TypeOK
<1>2. CASE Restart(n)
  <2>1. Empty \in [headers : Table, view : View]
    <3>1. <<>> \in Table
      BY EmptySeq DEF Table
    <3> QED BY <3>1 DEF Empty, View
  <2>2. PICK store \in {disk[n], Empty} :
          /\ disk' = [disk EXCEPT ![n] = store]
          /\ headers' = [headers EXCEPT ![n] = store.headers]
          /\ view' = [view EXCEPT ![n] = store.view]
    BY <1>2 DEF Restart
  <2>3. store \in [headers : Table, view : View]
    BY <2>1, <2>2 DEF TypeOK
  <2>4. /\ disk' \in [Node -> [headers : Table, view : View]]
        /\ headers' \in [Node -> Table] /\ view' \in [Node -> View]
    BY <2>2, <2>3 DEF TypeOK
  <2>5. sync' \in [Node -> Sync \cup {Idle}] /\ source' \in [Node -> Fetched \cup {Idle}]
    BY <1>2 DEF Restart, TypeOK
  <2>6. \A k \in Node : source'[k] # Idle => source'[k] = source[k] /\ headers'[k] = headers[k]
    BY <1>2, <2>2 DEF Restart, TypeOK
  <2>7. restarts' \in 0..MaxRestarts
    BY <1>2, HConsts DEF Restart, TypeOK
  <2>8. SourceOK'
    BY <2>6 DEF SourceOK, TypeOK
  <2>9. SyncOK'
    <3>1. ASSUME NEW k \in Node, sync'[k] # Idle
          PROVE  sync'[k] = sync[k] /\ sync'[k].began <= restarts'
      <4>1. sync'[k] = sync[k] /\ restarts' = restarts + 1
        BY <1>2, <3>1 DEF Restart, TypeOK
      <4>2. sync[k] \in Sync /\ sync[k].began <= restarts /\ restarts \in Nat
        BY <3>1, <4>1, HConsts DEF TypeOK
      <4>3. sync[k].began \in Nat
        BY <4>2, HConsts DEF Sync
      <4> QED BY <4>1, <4>2, <4>3
    <3> QED BY <3>1 DEF SyncOK, TypeOK
  <2> QED BY <1>2, <2>4, <2>5, <2>7, <2>8, <2>9 DEF Restart, network, SourceOK, SyncOK, TypeOK
<1> QED BY <1>1, <1>2

\* At the start there is one block, and nothing is known of it.
LEMMA InitTypes == Init => TypeOK
<1> SUFFICES ASSUME Init PROVE TypeOK
  OBVIOUS
<1>1. main \in Header
  <2>1. PICK b \in Branch : main = <<b>>
    BY HConsts DEF Init
  <2> QED BY <2>1, HConsts DEF Header
<1>2. <<>> \in Table
  BY EmptySeq DEF Table
<1>3. disk \in [Node -> [headers : Table, view : View]]
  BY <1>2 DEF Init, Empty, View
<1>4. SourceOK /\ SyncOK
  BY DEF Init, SourceOK, SyncOK
<1>5. /\ daemon \in [Daemon -> Header] /\ headers \in [Node -> Table] /\ view \in [Node -> View]
      /\ sync \in [Node -> Sync \cup {Idle}] /\ source \in [Node -> Fetched \cup {Idle}]
  BY <1>1, <1>2 DEF Init, View
<1>6. reorgs \in 0..MaxReorgs /\ restarts \in 0..MaxRestarts
  BY HConsts DEF Init
<1> QED BY <1>1, <1>3, <1>4, <1>5, <1>6 DEF TypeOK, SourceOK, SyncOK

\* Every step keeps the types.
LEMMA NextTypes == TypeOK /\ [Next]_vars => TypeOK'
<1> SUFFICES ASSUME TypeOK, [Next]_vars PROVE TypeOK'
  OBVIOUS
<1>1. CASE Mine \/ Reorg
  BY <1>1, NetworkTypes DEF Mine, Reorg, TypeOK
<1>2. CASE \E n \in Daemon : DaemonFollows(n)
  BY <1>2 DEF DaemonFollows, TypeOK
<1>3. CASE \E n \in Daemon : SourceAsk(n) \/ SourceMerge(n)
  BY <1>3, SourceTypes
<1>4. CASE \E n \in Node : SyncStart(n) \/ SyncEnd(n)
  BY <1>4, SyncTypes
<1>5. CASE \E n, s \in Node : AskTip(n, s) \/ FetchMore(n, s) \/ FetchWhole(n, s) \/ SourceSilent(n, s)
  BY <1>5, ExchangeTypes
<1>6. CASE \E n \in Node : Save(n) \/ Restart(n)
  BY <1>6, StoreTypes
<1>7. CASE UNCHANGED vars
  BY <1>7 DEF vars, network, TypeOK
<1> QED BY <1>1, <1>2, <1>3, <1>4, <1>5, <1>6, <1>7 DEF Next

\* Every variable keeps its type, for any nodes, branches and limits: a header
\* table has one header of each height whatever the two loops write to it, and
\* the rows that the source loop awaits still continue it when they come.
THEOREM TypeCorrect == Spec => []TypeOK
  BY InitTypes, NextTypes, PTL DEF Spec

-----------------------------------------------------------------------------
(* Heights                                                                   *)

\* What a sync that started from v has collected and is waiting for: v itself and
\* longer views, and rows that the source still has.
Gathered(q, v) ==
  /\ \A w \in q.views : w = v \/ Len(w) > Len(v)
  /\ q.asking # Idle => q.asking.tip > Len(v) /\ Len(headers[q.asking.from]) >= q.asking.tip

\* A node without a daemon syncs from its view, which nothing else writes, and
\* gathers nothing shorter while that is current and no source restarts.
CollectedBy(n) ==
  sync[n] # Idle =>
    /\ sync[n].existing = view[n]
    /\ restarts = sync[n].began /\ view[n] # NoView /\ ~Stale(view[n], sync[n].clock)
         => Gathered(sync[n], view[n])
Collected == \A n \in Node \ Daemon : CollectedBy(n)

\* A table loses rows only when its node restarts.
LEMMA TablesGrow ==
  ASSUME TypeOK, [Next]_vars, restarts' = restarts, NEW s \in Node
  PROVE  Len(headers[s]) \in Nat /\ Len(headers'[s]) \in Nat /\ Len(headers'[s]) >= Len(headers[s])
<1>0. Len(headers[s]) \in Nat /\ headers[s] \in Table
  BY LenProperties DEF TypeOK, Table
<1>1. CASE headers'[s] = headers[s]
  BY <1>0, <1>1
<1>2. ASSUME NEW from \in Nat \ {0}, from <= Len(headers[s]) + 1, NEW rows \in Seq(Header),
             \A i \in 1..Len(rows) : Len(rows[i]) = from + i - 1,
             headers'[s] = Overlay(headers[s], rows, from)
      PROVE  Len(headers'[s]) \in Nat /\ Len(headers'[s]) >= Len(headers[s])
  BY <1>0, <1>2, OverlayShape, LenProperties DEF Table
<1>3. ASSUME NEW n \in Node, SyncEnd(n)
      PROVE  Len(headers'[s]) \in Nat /\ Len(headers'[s]) >= Len(headers[s])
  <2>1. CASE n = s /\ sync[n].views # {}
    <3>1. PICK v \in Best(sync[n].views) : headers' = [headers EXCEPT ![n] = Overlay(headers[n], Rows(v, 1), 1)]
      BY <1>3, <2>1 DEF SyncEnd
    <3>2. v \in Header
      BY <1>3, <3>1 DEF SyncEnd, Best, TypeOK, Sync
    <3>3. /\ Rows(v, 1) \in Seq(Header)
          /\ \A i \in 1..Len(Rows(v, 1)) : Len(Rows(v, 1)[i]) = 1 + i - 1
      BY <3>2, Heights, RowsShape
    <3>4. headers'[s] = Overlay(headers[s], Rows(v, 1), 1)
      BY <2>1, <3>1 DEF TypeOK
    <3>5. 1 <= Len(headers[s]) + 1 /\ 1 \in Nat \ {0}
      BY <1>0
    <3> QED BY <1>2, <3>3, <3>4, <3>5
  <2>2. CASE ~(n = s /\ sync[n].views # {})
    <3>1. headers'[s] = headers[s]
      BY <1>3, <2>2 DEF SyncEnd, TypeOK
    <3> QED BY <1>1, <3>1
  <2> QED BY <2>1, <2>2
<1>4. ASSUME NEW n \in Daemon, SourceMerge(n)
      PROVE  Len(headers'[s]) \in Nat /\ Len(headers'[s]) >= Len(headers[s])
  <2>0. n \in Node
    BY HConsts
  <2>1. CASE headers'[s] = headers[s]
    BY <1>1, <2>1
  <2>2. CASE headers'[s] # headers[s]
    <3>1. headers' = [headers EXCEPT ![n] = Overlay(headers[n], source[n].rows, source[n].from)]
      BY <1>4, <2>2 DEF SourceMerge
    <3>2. n = s /\ headers'[s] = Overlay(headers[s], source[s].rows, source[s].from)
      BY <2>2, <3>1 DEF TypeOK
    <3>3. /\ source[s] \in Fetched /\ source[s].from <= Len(headers[s]) + 1
          /\ \A i \in 1..Len(source[s].rows) : Len(source[s].rows[i]) = source[s].from + i - 1
      BY <1>4, <3>2 DEF SourceMerge, TypeOK
    <3>4. source[s].rows \in Seq(Header) /\ source[s].from \in Nat \ {0}
      BY <3>3 DEF Fetched
    <3> QED BY <1>2, <3>2, <3>3, <3>4
  <2> QED BY <2>1, <2>2
<1>5. ASSUME NEW n \in Node, Restart(n) PROVE FALSE
  BY <1>5 DEF Restart, TypeOK
<1>6. ASSUME NEW n \in Node, NEW k \in Node,
             AskTip(n, k) \/ FetchMore(n, k) \/ FetchWhole(n, k) \/ SourceSilent(n, k)
      PROVE  headers' = headers
  BY <1>6, ExchangeWrites
<1>7. ASSUME \/ Mine \/ Reorg \/ \E n \in Daemon : DaemonFollows(n) \/ SourceAsk(n)
             \/ \E n \in Node : SyncStart(n) \/ Save(n)
             \/ UNCHANGED vars
      PROVE  headers' = headers
  BY <1>7 DEF Mine, Reorg, DaemonFollows, SourceAsk, SyncStart, Save, vars
<1> QED BY <1>0, <1>1, <1>3, <1>4, <1>5, <1>6, <1>7 DEF Next

\* An exchange adds the view itself or a longer one, and asks for longer ones.
LEMMA ExchangeCollects ==
  ASSUME TypeOK, NEW n \in Node, CollectedBy(n), NEW s \in Node,
         AskTip(n, s) \/ FetchMore(n, s) \/ FetchWhole(n, s) \/ SourceSilent(n, s)
  PROVE  CollectedBy(n)'
<1> PICK q : q = sync[n]
  OBVIOUS
<1> PICK v : v = view[n]
  OBVIOUS
<1>0. q \in Sync /\ q # Idle /\ q.existing = v /\ Len(headers[s]) \in Nat
  BY ExchangeShape, LenProperties DEF CollectedBy, TypeOK, Table
<1>1. ASSUME NEW r, Becomes(n, r), r.existing = q.existing, r.began = q.began, r.clock = q.clock,
             restarts = q.began /\ v # NoView /\ ~Stale(v, q.clock) /\ Gathered(q, v) => Gathered(r, v)
      PROVE  CollectedBy(n)'
  <2>1. sync'[n] = r /\ view'[n] = v /\ headers' = headers /\ restarts' = restarts
    BY <1>1 DEF Becomes, TypeOK
  <2>2. restarts = q.began /\ v # NoView /\ ~Stale(v, q.clock) => Gathered(r, v)
    BY <1>0, <1>1 DEF CollectedBy
  <2>3. Gathered(r, v)' <=> Gathered(r, v)
    BY <2>1 DEF Gathered
  <2>4. restarts' = sync'[n].began /\ view'[n] # NoView /\ ~Stale(view'[n], sync'[n].clock)
          => Gathered(r, v)
    BY <1>1, <2>1, <2>2
  <2>5. Gathered(r, v) => Gathered(sync[n], view[n])'
    BY <2>1 DEF Gathered
  <2> QED BY <1>0, <1>1, <2>1, <2>4, <2>5 DEF CollectedBy
<1>2. ASSUME NEW found, Becomes(n, Heard(q, s, found)),
             v # NoView /\ Gathered(q, v) => \A w \in found : w = v \/ Len(w) > Len(v)
      PROVE  CollectedBy(n)'
  <2> PICK r : r = Heard(q, s, found)
    OBVIOUS
  <2>1. /\ r.existing = q.existing /\ r.began = q.began /\ r.clock = q.clock
        /\ r.views = q.views \cup found /\ r.asking = Idle
    BY DEF Heard
  <2>2. v # NoView /\ Gathered(q, v) => Gathered(r, v)
    BY <1>2, <2>1 DEF Gathered
  <2> QED BY <1>1, <1>2, <2>1, <2>2
<1>3. ASSUME NEW tip, NEW whole, Becomes(n, Asks(q, s, tip, whole)),
             v # NoView /\ ~Stale(v, q.clock) /\ Gathered(q, v)
               => tip > Len(v) /\ Len(headers[s]) >= tip
      PROVE  CollectedBy(n)'
  <2> PICK r : r = Asks(q, s, tip, whole)
    OBVIOUS
  <2>1. /\ r.existing = q.existing /\ r.began = q.began /\ r.clock = q.clock
        /\ r.views = q.views /\ r.asking.tip = tip /\ r.asking.from = s
    BY DEF Asks
  <2>2. v # NoView /\ ~Stale(v, q.clock) /\ Gathered(q, v) => Gathered(r, v)
    BY <1>3, <2>1 DEF Gathered
  <2> QED BY <1>1, <1>3, <2>1, <2>2
<1>4. CASE PassedOver(n, s)
  BY <1>2, <1>4 DEF PassedOver
<1>5. CASE VotesForExisting(n, s)
  BY <1>0, <1>2, <1>5 DEF VotesForExisting
<1>6. ASSUME NEW whole \in BOOLEAN, AskedForRows(n, s, whole) PROVE CollectedBy(n)'
  BY <1>0, <1>3, <1>6 DEF AskedForRows
<1>7. CASE AskedForWhole(n, s)
  <2>1. Gathered(q, v) => q.asking.tip > Len(v) /\ Len(headers[s]) >= q.asking.tip
    BY <1>7 DEF Gathered, AskedForWhole
  <2> QED BY <1>3, <1>7, <2>1 DEF AskedForWhole
<1>8. ASSUME NEW w \in Header, AddsView(n, s, w) PROVE CollectedBy(n)'
  <2>1. q.asking.tip \in Nat
    BY <1>0, <1>8 DEF AddsView, Sync, Asking
  <2>2. Gathered(q, v) => q.asking.tip > Len(v) /\ Len(headers[s]) >= q.asking.tip
    BY <1>8 DEF Gathered, AddsView
  <2>3. Gathered(q, v) => Len(w) > Len(v)
    BY <1>0, <1>8, <2>1, <2>2 DEF AddsView
  <2> QED BY <1>2, <1>8, <2>3 DEF AddsView
<1> QED BY <1>4, <1>5, <1>6, <1>7, <1>8, ExchangeShape

\* A view that a step of n trades, and what it is traded for.
Trade(n) ==
  /\ view'[n] # view[n] /\ view[n] # NoView
  /\ sync[n] # Idle /\ restarts' = sync[n].began /\ ~Stale(view[n], sync[n].clock)
  => Len(view'[n]) > Len(view[n])

\* Every step keeps what is collected, and a sync stores one of that.
LEMMA NextCollected ==
  ASSUME TypeOK, Collected, [Next]_vars, NEW n \in Node \ Daemon
  PROVE  CollectedBy(n)' /\ Trade(n)
<1>1. n \in Node /\ CollectedBy(n)
  BY DEF Collected
<1>2. CASE sync'[n] = sync[n] /\ view'[n] = view[n] /\ restarts' = restarts
  <2>1. ASSUME sync[n] # Idle, Gathered(sync[n], view[n]) PROVE Gathered(sync[n], view[n])'
    <3> PICK q \in Sync : q = sync[n]
      BY <1>1, <2>1 DEF TypeOK
    <3> PICK v : v = view[n]
      OBVIOUS
    <3>1. ASSUME q.asking # Idle
          PROVE  q.asking.tip > Len(v) /\ Len(headers'[q.asking.from]) >= q.asking.tip
      <4>1. q.asking.from \in Node /\ q.asking.tip \in Nat
        BY <3>1 DEF Sync, Asking
      <4>2. q.asking.tip > Len(v) /\ Len(headers[q.asking.from]) >= q.asking.tip
        BY <2>1, <3>1 DEF Gathered
      <4> QED BY <1>2, <4>1, <4>2, TablesGrow
    <3>2. \A w \in q.views : w = v \/ Len(w) > Len(v)
      BY <2>1 DEF Gathered
    <3>3. sync'[n] = q /\ view'[n] = v
      BY <1>2
    <3> QED BY <3>1, <3>2, <3>3 DEF Gathered
  <2> QED BY <1>1, <1>2, <2>1 DEF CollectedBy, Trade
<1>3. CASE \E k \in Node : SyncStart(k)
  <2>1. PICK k \in Node : SyncStart(k)
    BY <1>3
  <2>2. CASE k # n
    BY <1>2, <2>1, <2>2 DEF SyncStart, TypeOK
  <2>3. CASE k = n
    <3> DEFINE q == [clock |-> Len(main), existing |-> view[n], left |-> Node \ {n}, views |-> {},
                     asking |-> Idle, began |-> restarts]
    <3>1. sync'[n] = q /\ view'[n] = view[n] /\ sync[n] = Idle
      BY <1>1, <2>1, <2>3 DEF SyncStart, TypeOK
    <3>2. q.existing = view[n] /\ q.views = {} /\ q.asking = Idle
      OBVIOUS
    <3> HIDE DEF q
    <3>3. Gathered(sync[n], view[n])'
      BY <3>1, <3>2 DEF Gathered
    <3> QED BY <3>1, <3>2, <3>3 DEF CollectedBy, Trade
  <2> QED BY <2>2, <2>3
<1>4. ASSUME NEW k \in Node, NEW s \in Node,
             AskTip(k, s) \/ FetchMore(k, s) \/ FetchWhole(k, s) \/ SourceSilent(k, s)
      PROVE  CollectedBy(n)' /\ Trade(n)
  <2>1. view' = view /\ restarts' = restarts /\ \A i \in Node : i # k => sync'[i] = sync[i]
    BY <1>4, ExchangeWrites
  <2>2. CASE k # n
    BY <1>1, <1>2, <2>1, <2>2
  <2>3. CASE k = n
    <3>1. CollectedBy(n)'
      BY <1>1, <1>4, <2>3, ExchangeCollects
    <3> QED BY <2>1, <3>1 DEF Trade
  <2> QED BY <2>2, <2>3
<1>6. CASE \E k \in Node : SyncEnd(k)
  <2>1. PICK k \in Node : SyncEnd(k)
    BY <1>6
  <2>2. CASE k # n
    BY <1>2, <2>1, <2>2 DEF SyncEnd, TypeOK
  <2>3. CASE k = n
    <3>1. sync'[n] = Idle /\ sync[n] # Idle /\ restarts' = restarts
      BY <1>1, <2>1, <2>3 DEF SyncEnd, TypeOK
    <3>2. view'[n] = view[n] \/ view'[n] \in sync[n].views
      BY <1>1, <2>1, <2>3 DEF SyncEnd, TypeOK, Best
    <3>3. Trade(n)
      BY <1>1, <3>1, <3>2 DEF CollectedBy, Gathered, Trade
    <3> QED BY <3>1, <3>3 DEF CollectedBy
  <2> QED BY <2>2, <2>3
<1>7. CASE \E k \in Node : Restart(k)
  <2>1. PICK k \in Node : Restart(k)
    BY <1>7
  <2>2. restarts' = restarts + 1 /\ restarts \in Nat
    BY <2>1, HConsts DEF Restart, TypeOK
  <2>3. ASSUME sync[n] # Idle PROVE restarts' # sync[n].began
    <3>1. sync[n] \in Sync /\ sync[n].began <= restarts
      BY <1>1, <2>3 DEF TypeOK
    <3>2. sync[n].began \in Nat
      BY <3>1, HConsts DEF Sync
    <3> QED BY <2>2, <3>1, <3>2
  <2>4. CASE k # n
    <3>1. sync'[n] = sync[n] /\ view'[n] = view[n]
      BY <2>1, <2>4 DEF Restart, TypeOK
    <3> QED BY <1>1, <2>3, <3>1 DEF CollectedBy, Trade
  <2>5. CASE k = n
    <3>1. sync'[n] = Idle
      BY <1>1, <2>1, <2>5 DEF Restart, TypeOK
    <3> QED BY <2>3, <3>1 DEF CollectedBy, Trade
  <2> QED BY <2>4, <2>5
<1>8. CASE \E k \in Daemon : SourceAsk(k) \/ SourceMerge(k)
  BY <1>1, <1>2, <1>8, HConsts DEF SourceAsk, SourceMerge, TypeOK
<1>9. CASE \/ Mine \/ Reorg \/ \E k \in Daemon : DaemonFollows(k)
           \/ \E k \in Node : Save(k)
           \/ UNCHANGED vars
  BY <1>2, <1>9 DEF Mine, Reorg, DaemonFollows, Save, vars
<1> QED BY <1>3, <1>4, <1>6, <1>7, <1>8, <1>9 DEF Next

\* A node that only reads headers trades a current view for a longer one only,
\* for any number of sources, on whatever branches, unless one restarts while
\* the sync runs.
THEOREM TradedUp == Spec => TradedForLonger
<1>1. Init => Collected
  BY DEF Init, Collected, CollectedBy
<1>2. TypeOK /\ Collected /\ [Next]_vars => Collected'
  BY NextCollected DEF Collected
<1>3. TypeOK /\ Collected /\ [Next]_vars => \A n \in Node \ Daemon : Trade(n)
  BY NextCollected
<1> QED BY <1>1, <1>2, <1>3, TypeCorrect, PTL DEF Spec, TradedForLonger, Trade

-----------------------------------------------------------------------------
(* The served chain                                                          *)

\* Every set of natural numbers with an element has a least one.
LEMMA NatMin ==
  ASSUME NEW S \in SUBSET Nat, S # {}
  PROVE  \E n \in S : \A m \in S : n <= m
<1> DEFINE R == OpToRel(<, Nat)
<1>1. IsWellFoundedOn(R, Nat)
  BY NatLessThanWellFounded
<1> HIDE DEF R
<1>2. PICK x \in S : \A y \in S : ~(<<y, x>> \in R)
  BY <1>1, WFMin
<1>3. ASSUME NEW y \in S PROVE x <= y
  <2>1. x \in Nat /\ y \in Nat
    OBVIOUS
  <2>2. ~(y < x)
    BY <1>2, <2>1 DEF R, OpToRel
  <2> QED BY <2>1, <2>2
<1> QED BY <1>3

\* The parent of an ancestor is the ancestor below it.
LEMMA ParentOfPrefix ==
  ASSUME NEW h \in Header, NEW j \in Nat, 1 <= j, j + 1 <= Len(h)
  PROVE  Front(SubSeq(h, 1, j + 1)) = SubSeq(h, 1, j)
<1>1. h \in Seq(Branch) /\ Len(h) \in Nat
  BY Heights
<1>2. Len(SubSeq(h, 1, j + 1)) = j + 1
  BY <1>1, Prefix
<1>3. /\ 1 \in 1..Len(h) /\ j + 1 \in 1..Len(h)
      /\ 1 \in 1..(j + 1) - 1 + 1 /\ j \in 1..(j + 1) - 1 + 1
  BY <1>1
<1>4. SubSeq(SubSeq(h, 1, j + 1), 1, j) = SubSeq(h, 1 + 1 - 1, 1 + j - 1)
  BY <1>1, <1>3, SubSeqOfSubSeq
<1>5. (j + 1) - 1 = j /\ 1 + 1 - 1 = 1 /\ 1 + j - 1 = j
  OBVIOUS
<1> QED BY <1>2, <1>4, <1>5 DEF Front

\* Rows that follow one another from the checkpoint are the ancestors of the
\* last: a highest row that is not would have a child that is, and that names
\* its parent.
LEMMA LinkedIsChain ==
  ASSUME NEW rows \in Seq(Header), rows # <<>>, Links(rows, <<>>),
         \A i \in 1..Len(rows) : Len(rows[i]) = i
  PROVE  \A i \in 1..Len(rows) : rows[i] = SubSeq(rows[Len(rows)], 1, i)
<1> DEFINE m == Len(rows)
           tip == rows[m]
           Off == {k \in Nat : k < m /\ rows[m - k] # SubSeq(tip, 1, m - k)}
<1>1. m \in Nat /\ m >= 1 /\ tip \in Header /\ Len(tip) = m /\ DOMAIN rows = 1..m
  BY LenProperties, EmptySeq, ElementOfSeq
<1>2. ASSUME Off # {} PROVE FALSE
  <2>1. PICK k \in Off : \A x \in Off : k <= x
    <3>1. Off \in SUBSET Nat
      OBVIOUS
    <3> HIDE DEF Off
    <3> QED BY <1>2, <3>1, NatMin
  <2> HIDE DEF m, tip
  <2>2. k \in Nat /\ k < m /\ rows[m - k] # SubSeq(tip, 1, m - k)
    BY <2>1
  <2>3. k # 0
    <3>1. tip = SubSeq(tip, 1, m)
      BY <1>1, Heights, SubSeqFull
    <3>2. ASSUME k = 0 PROVE FALSE
      <4>1. m - k = m /\ rows[m] = tip
        BY <1>1, <3>2 DEF tip
      <4> QED BY <2>2, <3>1, <4>1
    <3> QED BY <3>2
  <2> DEFINE j == m - k
  <2>4. j \in Nat /\ 1 <= j /\ j + 1 <= m /\ k - 1 \in Nat /\ k - 1 < m /\ m - (k - 1) = j + 1
        /\ ~(k <= k - 1)
    BY <1>1, <2>2, <2>3
  <2>5. rows[j + 1] = SubSeq(tip, 1, j + 1)
    <3>1. k - 1 \notin Off
      BY <2>1, <2>4
    <3> QED BY <2>4, <3>1
  <2>6. Front(rows[j + 1]) = rows[j]
    <3>1. j + 1 \in DOMAIN rows /\ j + 1 # 1 /\ (j + 1) - 1 = j
      BY <1>1, <2>4
    <3> QED BY <3>1 DEF Links
  <2>7. Front(rows[j + 1]) = SubSeq(tip, 1, j)
    BY <1>1, <2>4, <2>5, ParentOfPrefix
  <2> QED BY <2>2, <2>6, <2>7
<1>3. ASSUME NEW i \in 1..m PROVE rows[i] = SubSeq(tip, 1, i)
  <2>1. m - i \in Nat /\ m - i < m /\ m - (m - i) = i
    BY <1>1
  <2>2. m - i \notin Off
    BY <1>2
  <2> QED BY <2>1, <2>2
<1> QED BY <1>3

\* A table holds a chain: its rows are the ancestors of the tip.
Holds(t, v) == Len(v) <= Len(t) /\ \A i \in 1..Len(v) : t[i] = SubSeq(v, 1, i)

\* What put_headers leaves at each height.
LEMMA OverlayRows ==
  ASSUME NEW t \in Table, NEW from \in Nat \ {0}, from <= Len(t) + 1,
         NEW rows \in Seq(Header), \A i \in 1..Len(rows) : Len(rows[i]) = from + i - 1
  PROVE  /\ from + Len(rows) - 1 <= Len(Overlay(t, rows, from))
         /\ \A h \in 1..(from + Len(rows) - 1) :
              Overlay(t, rows, from)[h] = IF h < from THEN t[h] ELSE rows[h - from + 1]
<1> DEFINE last == from + Len(rows) - 1
           m == IF last > Len(t) THEN last ELSE Len(t)
           new == Overlay(t, rows, from)
<1>1. Len(t) \in Nat /\ Len(rows) \in Nat /\ new \in Table
  BY LenProperties, OverlayShape DEF Table
<1>2. m \in Nat /\ last <= m /\ last \in Int
  BY <1>1
<1>3. new = [h \in 1..m |-> IF h \in from..last THEN rows[h - from + 1] ELSE t[h]]
  BY DEF Overlay
<1>4. new \in Seq(Header) /\ Len(new) \in Nat /\ DOMAIN new = 1..Len(new)
  BY <1>1, LenProperties DEF Table
<1> HIDE DEF m, new
<1>5. DOMAIN new = 1..m
  BY <1>3
<1>6. Len(new) = m
  <2> PICK a \in Nat, b \in Nat : a = Len(new) /\ b = m
    BY <1>2, <1>4
  <2>1. 1..a = 1..b
    BY <1>4, <1>5
  <2>2. ~(a < b)
    <3>1. ASSUME a < b PROVE b \in 1..b /\ b \notin 1..a
      BY <3>1
    <3> QED BY <2>1, <3>1
  <2>3. ~(b < a)
    <3>1. ASSUME b < a PROVE a \in 1..a /\ a \notin 1..b
      BY <3>1
    <3> QED BY <2>1, <3>1
  <2> QED BY <2>2, <2>3
<1>7. ASSUME NEW h \in 1..last
      PROVE  new[h] = IF h < from THEN t[h] ELSE rows[h - from + 1]
  <2>1. h \in 1..m /\ h \in Nat
    BY <1>2
  <2>2. CASE h < from
    <3>1. h \notin from..last
      BY <2>1, <2>2
    <3> QED BY <1>3, <2>1, <2>2, <3>1
  <2>3. CASE ~(h < from)
    <3>1. h \in from..last
      BY <1>2, <2>1, <2>3
    <3> QED BY <1>3, <2>1, <2>3, <3>1
  <2> QED BY <2>2, <2>3
<1> QED BY <1>2, <1>6, <1>7 DEF new

\* The header step stores the rows of the view it adopts.
LEMMA AdoptedIsHeld ==
  ASSUME NEW t \in Table, NEW v \in Header
  PROVE  Holds(Overlay(t, Rows(v, 1), 1), v)
<1> DEFINE rows == Rows(v, 1)
<1>1. Len(v) \in Nat /\ 1 \in 1..Len(v) /\ 1 \in Nat \ {0} /\ Len(t) \in Nat /\ 1 <= Len(t) + 1
  BY Heights, LenProperties DEF Table
<1>2. /\ rows \in Seq(Header) /\ Len(rows) = Len(v)
      /\ \A i \in 1..Len(rows) : Len(rows[i]) = 1 + i - 1
  BY <1>1, RowsShape
<1>3. \A i \in 1..Len(v) : rows[i] = SubSeq(v, 1, i)
  BY <1>1 DEF Rows
<1> HIDE DEF rows
<1>4. /\ 1 + Len(rows) - 1 <= Len(Overlay(t, rows, 1))
      /\ \A h \in 1..(1 + Len(rows) - 1) :
           Overlay(t, rows, 1)[h] = IF h < 1 THEN t[h] ELSE rows[h - 1 + 1]
  BY <1>1, <1>2, OverlayRows
<1>5. 1 + Len(rows) - 1 = Len(v) /\ \A h \in 1..Len(v) : ~(h < 1) /\ h - 1 + 1 = h
  BY <1>1, <1>2
<1> QED BY <1>3, <1>4, <1>5 DEF Holds, rows

\* The source loop merges rows that link to the stored rows below them.
LEMMA MergedIsHeld ==
  ASSUME NEW t \in Table, NEW from \in Nat \ {0}, from <= Len(t) + 1,
         NEW rows \in Seq(Header), rows # <<>>,
         \A i \in 1..Len(rows) : Len(rows[i]) = from + i - 1,
         Links(SubSeq(t, 1, from - 1) \o rows, <<>>)
  PROVE  Holds(Overlay(t, rows, from), Last(rows))
<1> DEFINE below == SubSeq(t, 1, from - 1)
           all == below \o rows
           n == Len(rows)
           last == from + n - 1
<1>1. /\ t \in Seq(Header) /\ Len(t) \in Nat /\ n \in Nat /\ n >= 1
      /\ \A h \in 1..Len(t) : Len(t[h]) = h
  BY LenProperties, EmptySeq DEF Table
<1>2. below \in Seq(Header) /\ Len(below) = from - 1
      /\ \A i \in 1..from - 1 : below[i] = t[i]
  <2>1. 1 \in Int /\ from - 1 \in Int /\ \A i \in 1..from - 1 : t[i] \in Header
    BY <1>1, ElementOfSeq
  <2>2. /\ SubSeq(t, 1, from - 1) \in Seq(Header)
        /\ Len(SubSeq(t, 1, from - 1)) = IF 1 <= from - 1 THEN (from - 1) - 1 + 1 ELSE 0
        /\ \A i \in 1..(from - 1) - 1 + 1 : SubSeq(t, 1, from - 1)[i] = t[1 + i - 1]
    BY <2>1, SubSeqProperties
  <2>3. (IF 1 <= from - 1 THEN (from - 1) - 1 + 1 ELSE 0) = from - 1
        /\ (from - 1) - 1 + 1 = from - 1 /\ \A i \in 1..from - 1 : 1 + i - 1 = i
    OBVIOUS
  <2> QED BY <2>2, <2>3
<1> HIDE DEF below
<1>3. all \in Seq(Header) /\ Len(all) = last
      /\ \A i \in 1..last : all[i] = IF i < from THEN t[i] ELSE rows[i - from + 1]
  <2>1. /\ all \in Seq(Header) /\ Len(all) = Len(below) + Len(rows)
        /\ \A i \in 1..Len(below) + Len(rows) :
             all[i] = IF i <= Len(below) THEN below[i] ELSE rows[i - Len(below)]
    BY <1>2, ConcatProperties
  <2>2. Len(below) + Len(rows) = last
    BY <1>1, <1>2
  <2>3. ASSUME NEW i \in 1..last
        PROVE  all[i] = IF i < from THEN t[i] ELSE rows[i - from + 1]
    <3>1. CASE i < from
      <4>1. i <= Len(below) /\ i \in 1..from - 1
        BY <1>2, <3>1
      <4>2. all[i] = below[i]
        BY <2>1, <2>2, <4>1
      <4> QED BY <1>2, <3>1, <4>1, <4>2
    <3>2. CASE ~(i < from)
      <4>1. ~(i <= Len(below)) /\ i - Len(below) = i - from + 1
        BY <1>1, <1>2, <3>2
      <4> QED BY <2>1, <2>2, <3>2, <4>1
    <3> QED BY <3>1, <3>2
  <2> QED BY <2>1, <2>2, <2>3
<1> HIDE DEF all
<1>4. last \in Nat /\ last >= 1 /\ last >= from
  BY <1>1
<1>5. \A i \in 1..Len(all) : Len(all[i]) = i
  <2>1. ASSUME NEW i \in 1..last PROVE Len(all[i]) = i
    <3>1. CASE i < from
      <4>1. i \in 1..Len(t)
        BY <1>1, <3>1
      <4> QED BY <1>1, <1>3, <3>1, <4>1
    <3>2. CASE ~(i < from)
      <4>1. i - from + 1 \in 1..n /\ from + (i - from + 1) - 1 = i
        BY <1>1, <3>2
      <4>2. Len(rows[i - from + 1]) = i
        BY <4>1
      <4> QED BY <1>3, <3>2, <4>2
    <3> QED BY <3>1, <3>2
  <2> QED BY <1>3, <2>1
<1>6. all # <<>>
  BY <1>3, <1>4, EmptySeq
<1>7. \A i \in 1..last : all[i] = SubSeq(all[last], 1, i)
  <2>1. Links(all, <<>>)
    BY DEF all, below
  <2>2. all \in Seq(Header) /\ Len(all) = last
    BY <1>3
  <2>3. \A i \in 1..Len(all) : all[i] = SubSeq(all[Len(all)], 1, i)
    BY <1>5, <1>6, <2>1, <2>2, LinkedIsChain
  <2> QED BY <2>2, <2>3
<1>8. all[last] = Last(rows) /\ Len(Last(rows)) = last
  <2>1. ~(last < from) /\ last - from + 1 = n /\ last \in 1..last
    BY <1>1, <1>4
  <2>2. all[last] = rows[n]
    BY <1>3, <2>1
  <2>3. Len(all[last]) = last
    BY <1>3, <1>5, <2>1
  <2> QED BY <2>2, <2>3 DEF Last
<1>9. /\ last <= Len(Overlay(t, rows, from))
      /\ \A h \in 1..last : Overlay(t, rows, from)[h] = IF h < from THEN t[h] ELSE rows[h - from + 1]
  BY OverlayRows
<1>10. \A h \in 1..last : Overlay(t, rows, from)[h] = all[h]
  BY <1>3, <1>9
<1> QED BY <1>7, <1>8, <1>9, <1>10 DEF Holds

\* The table of every node holds its view, and so does what it saved.
HeldInv ==
  \A n \in Node : /\ view[n] # NoView => Holds(headers[n], view[n])
                  /\ disk[n].view # NoView => Holds(disk[n].headers, disk[n].view)

LEMMA NextHeld ==
  ASSUME TypeOK, HeldInv, [Next]_vars
  PROVE  HeldInv'
<1>1. CASE UNCHANGED <<headers, view, disk>>
  BY <1>1 DEF HeldInv
<1>2. ASSUME NEW n \in Node, NEW t, NEW v \in Header, Holds(t, v),
             headers' = [headers EXCEPT ![n] = t], view' = [view EXCEPT ![n] = v],
             disk' = disk
      PROVE  HeldInv'
  <2>1. ASSUME NEW k \in Node, view'[k] # NoView PROVE Holds(headers'[k], view'[k])
    <3>1. CASE k = n
      <4>1. headers'[n] = t /\ view'[n] = v
        BY <1>2 DEF TypeOK
      <4> QED BY <1>2, <3>1, <4>1
    <3>2. CASE k # n
      <4>1. headers'[k] = headers[k] /\ view'[k] = view[k]
        BY <1>2, <3>2 DEF TypeOK
      <4> QED BY <2>1, <4>1 DEF HeldInv
    <3> QED BY <3>1, <3>2
  <2> QED BY <1>2, <2>1 DEF HeldInv
<1>3. CASE \E n \in Node : SyncEnd(n)
  <2>1. PICK n \in Node : SyncEnd(n)
    BY <1>3
  <2>2. CASE sync[n].views = {}
    BY <1>1, <2>1, <2>2 DEF SyncEnd
  <2>3. CASE sync[n].views # {}
    <3>1. PICK v \in Best(sync[n].views) :
            /\ headers' = [headers EXCEPT ![n] = Overlay(headers[n], Rows(v, 1), 1)]
            /\ view' = [view EXCEPT ![n] = v]
      BY <2>1, <2>3 DEF SyncEnd
    <3>2. v \in Header /\ headers[n] \in Table
      BY <2>1, <3>1 DEF SyncEnd, Best, TypeOK, Sync
    <3>3. Holds(Overlay(headers[n], Rows(v, 1), 1), v) /\ disk' = disk
      BY <2>1, <3>2, AdoptedIsHeld DEF SyncEnd
    <3> QED BY <1>2, <3>1, <3>2, <3>3
  <2> QED BY <2>2, <2>3
<1>4. CASE \E n \in Daemon : SourceMerge(n)
  <2>1. PICK n \in Daemon : SourceMerge(n)
    BY <1>4
  <2>2. n \in Node /\ headers[n] \in Table
    BY HConsts DEF TypeOK
  <2>3. /\ source[n] \in Fetched /\ source[n].from <= Len(headers[n]) + 1
        /\ source[n].rows # <<>>
        /\ \A i \in 1..Len(source[n].rows) : Len(source[n].rows[i]) = source[n].from + i - 1
    BY <2>1, <2>2 DEF SourceMerge, TypeOK
  <2>4. source[n].rows \in Seq(Header) /\ source[n].from \in Nat \ {0}
    BY <2>3 DEF Fetched
  <2>5. Last(source[n].rows) \in Header
    <3>1. Len(source[n].rows) \in Nat /\ Len(source[n].rows) # 0
      BY <2>3, <2>4, LenProperties, EmptySeq
    <3> QED BY <2>4, <3>1, ElementOfSeq DEF Last
  <2>6. CASE UNCHANGED <<headers, view>>
    BY <1>1, <2>1, <2>6 DEF SourceMerge
  <2>7. CASE ~UNCHANGED <<headers, view>>
    <3>1. /\ Links(SubSeq(headers[n], 1, source[n].from - 1) \o source[n].rows, <<>>)
          /\ headers' = [headers EXCEPT ![n] = Overlay(headers[n], source[n].rows, source[n].from)]
          /\ view' = [view EXCEPT ![n] = Last(source[n].rows)]
          /\ disk' = disk
      BY <2>1, <2>7 DEF SourceMerge, Verifies
    <3>2. Holds(Overlay(headers[n], source[n].rows, source[n].from), Last(source[n].rows))
      BY <2>2, <2>3, <2>4, <3>1, MergedIsHeld
    <3> QED BY <1>2, <2>2, <2>5, <3>1, <3>2
  <2> QED BY <2>6, <2>7
<1>5. CASE \E n \in Node : Save(n)
  <2>1. PICK n \in Node : Save(n)
    BY <1>5
  <2>2. /\ headers' = headers /\ view' = view
        /\ \A k \in Node : disk'[k] = IF k = n THEN [headers |-> headers[n], view |-> view[n]] ELSE disk[k]
    BY <2>1 DEF Save, TypeOK
  <2> QED BY <2>2 DEF HeldInv
<1>6. CASE \E n \in Node : Restart(n)
  <2>0. PICK n \in Node : Restart(n)
    BY <1>6
  <2>1. PICK store \in {disk[n], Empty} :
          /\ disk' = [disk EXCEPT ![n] = store]
          /\ headers' = [headers EXCEPT ![n] = store.headers]
          /\ view' = [view EXCEPT ![n] = store.view]
    BY <2>0 DEF Restart
  <2>2. store.view # NoView => Holds(store.headers, store.view)
    BY <2>1 DEF HeldInv, Empty
  <2>3. \A k \in Node : /\ disk'[k] = IF k = n THEN store ELSE disk[k]
                        /\ headers'[k] = IF k = n THEN store.headers ELSE headers[k]
                        /\ view'[k] = IF k = n THEN store.view ELSE view[k]
    BY <2>1 DEF TypeOK
  <2> QED BY <2>2, <2>3 DEF HeldInv
<1>7. CASE \/ Mine \/ Reorg
           \/ \E n \in Daemon : DaemonFollows(n) \/ SourceAsk(n)
           \/ \E n \in Node : SyncStart(n)
           \/ UNCHANGED vars
  BY <1>1, <1>7 DEF Mine, Reorg, DaemonFollows, SourceAsk, SyncStart, vars
<1>8. ASSUME NEW n \in Node, NEW s \in Node,
             AskTip(n, s) \/ FetchMore(n, s) \/ FetchWhole(n, s) \/ SourceSilent(n, s)
      PROVE  HeldInv'
  BY <1>1, <1>8, ExchangeWrites
<1> QED BY <1>3, <1>4, <1>5, <1>6, <1>7, <1>8 DEF Next

\* A table that holds a view serves it, row for row.
LEMMA HeldIsServed ==
  ASSUME TypeOK, HeldInv
  PROVE  ViewIsServed
<1> SUFFICES ASSUME NEW n \in Node, view[n] # NoView
             PROVE  /\ Len(view[n]) <= Len(headers[n])
                    /\ SubSeq(headers[n], 1, Len(view[n])) = Rows(view[n], 1)
  BY DEF ViewIsServed
<1> PICK t, v : t = headers[n] /\ v = view[n]
  OBVIOUS
<1>1. t \in Seq(Header) /\ Len(t) \in Nat /\ v \in Header /\ Len(v) \in Nat /\ 1 <= Len(v)
  BY LenProperties, Heights DEF TypeOK, Table, View
<1>2. Len(v) <= Len(t) /\ \A i \in 1..Len(v) : t[i] = SubSeq(v, 1, i)
  BY DEF HeldInv, Holds
<1> PICK k \in Nat : k = Len(v)
  BY <1>1
<1>3. \A i \in 1..k : t[i] \in Header
  BY <1>1, <1>2, ElementOfSeq
<1>4. /\ SubSeq(t, 1, k) \in Seq(Header) /\ Len(SubSeq(t, 1, k)) = k
      /\ \A i \in 1..k : SubSeq(t, 1, k)[i] = t[i]
  <2>1. /\ SubSeq(t, 1, k) \in Seq(Header)
        /\ Len(SubSeq(t, 1, k)) = IF 1 <= k THEN k - 1 + 1 ELSE 0
        /\ \A i \in 1..k - 1 + 1 : SubSeq(t, 1, k)[i] = t[1 + i - 1]
    BY <1>3, SubSeqProperties
  <2>2. k - 1 + 1 = k /\ 1 <= k /\ \A i \in 1..k : 1 + i - 1 = i
    BY <1>1
  <2> QED BY <2>1, <2>2
<1>5. /\ Rows(v, 1) \in Seq(Header) /\ Len(Rows(v, 1)) = k
      /\ \A i \in 1..k : Rows(v, 1)[i] = SubSeq(v, 1, i)
  <2>1. 1 \in 1..Len(v) /\ Len(v) - 1 + 1 = k /\ \A i \in 1..k : 1 + i - 1 = i
    BY <1>1
  <2>2. Rows(v, 1) \in Seq(Header) /\ Len(Rows(v, 1)) = Len(v) - 1 + 1
    BY <1>1, <2>1, RowsShape
  <2> QED BY <2>1, <2>2 DEF Rows
<1>6. SubSeq(t, 1, k) = Rows(v, 1)
  <2>1. \A i \in 1..k : SubSeq(t, 1, k)[i] = Rows(v, 1)[i]
    BY <1>2, <1>4, <1>5
  <2> QED BY <1>4, <1>5, <2>1, SeqEqual
<1> QED BY <1>2, <1>6

\* Two loops write one table, each awaiting the network between reading and
\* writing, yet what a node serves always contains the chain it has verified.
THEOREM ViewHolds == Spec => []ViewIsServed
<1>1. Init => HeldInv
  BY DEF Init, Empty, HeldInv
<1>2. TypeOK /\ HeldInv /\ [Next]_vars => HeldInv'
  BY NextHeld
<1>3. TypeOK /\ HeldInv => ViewIsServed
  BY HeldIsServed
<1> QED BY <1>1, <1>2, <1>3, TypeCorrect, PTL DEF Spec
=============================================================================
