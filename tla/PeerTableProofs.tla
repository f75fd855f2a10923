--------------------------- MODULE PeerTableProofs ---------------------------
(***************************************************************************)
(* Proofs about PeerTable, for every value of its constants.               *)
(***************************************************************************)
EXTENDS PeerTable, FiniteSetTheorems, TLAPS

\* Reading the constants' assumptions one fact at a time.
LEMMA Consts ==
  /\ IsFiniteSet(Key) /\ IsFiniteSet(Bucket)
  /\ NetOf \in [Key -> Net] /\ BucketOf \in [Source -> Bucket]
  /\ Local \notin Source /\ Local \notin Bucket
  /\ Reserved \subseteq Key /\ Odd \subseteq Key
  /\ Vouchers \in BOOLEAN /\ NativeVouchers \in BOOLEAN
  /\ AnchorRead \in BOOLEAN /\ DbMayFail \in BOOLEAN
  /\ BaseCap \in Nat /\ BaseCap > 0 /\ VerifyMin \in Nat /\ VerifyMin > 0
  /\ AliveNum \in Nat /\ AliveDen \in Nat /\ NetCap \in Nat /\ NetCap > 0
  /\ DeadMaxAge \in Nat /\ Cooldown \in Nat /\ PruneAge \in Nat /\ MaxAge \in Nat
  /\ MaxClaim \in Nat /\ MaxCap \in Nat /\ MaxRestarts \in Nat
  /\ BaseCap <= MaxCap
  /\ DeadMaxAge < MaxAge /\ Cooldown < MaxAge /\ PruneAge < MaxAge
  BY ConstantsAssumption

\* The trust key of a source is a trust key, in either mode.
LEMMA TrustKeyType == \A s \in Source : TrustKeyOf(s) \in TrustKey
  BY Consts DEF TrustKeyOf, TrustKey

\* Judging keeps a trust record well typed.
LEMMA CreditType ==
  \A t \in TrustRec : CreditAlive(t) \in TrustRec /\ CreditDead(t) \in TrustRec
<1> SUFFICES ASSUME NEW t \in TrustRec
             PROVE CreditAlive(t) \in TrustRec /\ CreditDead(t) \in TrustRec
  OBVIOUS
<1> DEFINE a == [t EXCEPT !.alive = @ + 1]
           d == [t EXCEPT !.dead = @ + 1]
<1>1. a \in TrustRec /\ d \in TrustRec
  BY DEF TrustRec
<1>2. \A u \in TrustRec, c \in Nat : Reset(u, c) \in TrustRec
  BY DEF TrustRec, Reset
<1>3. \A u \in TrustRec : Smaller(u.cap + BaseCap, MaxCap) \in Nat
  BY Consts DEF TrustRec, Smaller
<1>4. MaybeExpand(a) \in TrustRec
  BY <1>1, <1>2, <1>3 DEF MaybeExpand
<1>5. MaybeContract(d) \in TrustRec
  BY <1>1, <1>2, Consts DEF MaybeContract
<1> QED BY <1>4, <1>5 DEF CreditAlive, CreditDead

\* Charging a verdict keeps the trust table well typed.
LEMMA ChargeType ==
  ASSUME trust \in [TrustKey -> TrustRec], NEW p \in PeerRec, NEW v
  PROVE  Charge(p, v) \in [TrustKey -> TrustRec]
<1>1. CASE p.src = Local
  BY <1>1 DEF Charge
<1>2. CASE p.src # Local
  <2>1. TrustKeyOf(p.src) \in TrustKey
    BY <1>2, TrustKeyType DEF PeerRec
  <2> QED BY <1>2, <2>1, CreditType DEF Charge
<1> QED BY <1>1, <1>2

\* The entries add_peer builds are entries.
LEMMA FreshType ==
  ASSUME NEW in \in Row, NEW s \in Source \cup {Local},
         NEW nat \in BOOLEAN, NEW pub \in BOOLEAN
  PROVE  Fresh(in, s, nat, pub) \in PeerRec
  BY Consts DEF Fresh, Row, PeerRec, VoucherOf, Voucher

\* A merged entry is an entry.
LEMMA MergedType ==
  ASSUME NEW p \in PeerRec, NEW in \in Row, NEW s \in Source \cup {Local},
         NEW nat \in BOOLEAN, NEW pub \in BOOLEAN
  PROVE  Merged(p, in, s, nat, pub) \in PeerRec
<1> DEFINE b == {VoucherOf(s)}
           vch == IF Vouchers /\ s # Local THEN p.vch \cup b ELSE p.vch
<1>1. b \in SUBSET Voucher
  BY Consts DEF VoucherOf, Voucher
<1>2. IsFiniteSet(Voucher)
  BY Consts, FS_Singleton, FS_Union DEF Voucher
<1>3. vch \in SUBSET Voucher
  BY <1>1 DEF PeerRec
<1>4. Cardinality(vch) \in Nat
  BY <1>2, <1>3, FS_Subset, FS_CardinalityType
<1>5. Smaller(p.age, in.age) \in Age
  BY DEF PeerRec, Row, Smaller
<1>6. (IF Vouchers THEN Larger(1, Cardinality(vch))
       ELSE Larger(p.sources, in.sources)) \in Nat
  BY <1>4 DEF PeerRec, Row, Larger
<1> QED BY <1>1, <1>3, <1>5, <1>6 DEF Merged, Counted, PeerRec

\* So are the entries a verdict leaves.
LEMMA UpdatedType ==
  \A p \in PeerRec : Confirmed(p) \in PeerRec /\ Demoted(p) \in PeerRec
<1>1. ASSUME NEW p \in PeerRec PROVE Confirmed(p) \in PeerRec
  <2>1. 0 \in Age
    BY Consts DEF Age
  <2> QED BY <2>1 DEF PeerRec, Confirmed
<1>2. ASSUME NEW p \in PeerRec PROVE Demoted(p) \in PeerRec
  <2>1. Larger(0, p.sources - 1) \in Nat
    BY DEF PeerRec, Larger
  <2> QED BY <2>1 DEF PeerRec, Demoted
<1> QED BY <1>1, <1>2

-----------------------------------------------------------------------------
(* Type correctness                                                        *)

\* Storing an entry and writing it through keep both tables well typed.
LEMMA SaveType ==
  ASSUME TypeOK, NEW k \in Key, NEW p \in PeerRec, NEW ok, Save(ok, k, p),
         peers' = [peers EXCEPT ![k] = p]
  PROVE  /\ peers' \in [Key -> PeerRec \cup {Absent}]
         /\ disk' \in [Key -> Row \cup {Absent}]
<1>1. RowOf(p) \in Row
  BY DEF RowOf, Row, PeerRec
<1> QED BY <1>1 DEF TypeOK, Save

\* add_peer keeps every variable in its type ...
LEMMA AddPeerType ==
  ASSUME TypeOK, NEW k \in Key, NEW in \in Row, NEW s \in Source \cup {Local},
         NEW nat \in BOOLEAN, NEW pub \in BOOLEAN, NEW ok \in BOOLEAN,
         AddPeer(k, in, s, nat, pub, ok), proven' \subseteq Key
  PROVE  TypeOK'
<1>1. reported' \in [Key -> SUBSET Voucher]
  <2>1. VoucherOf(s) \in Voucher
    BY Consts DEF VoucherOf, Voucher
  <2> QED BY <2>1 DEF AddPeer, TypeOK
<1>2. CASE AddNew(k, in, s, nat, pub, ok)
  <2> DEFINE p == Fresh(in, s, nat, pub)
  <2>1. p \in PeerRec
    BY FreshType
  <2>2. peers' = [peers EXCEPT ![k] = p] /\ Save(ok, k, p)
    BY <1>2 DEF AddNew, HasRoom
  <2>3. /\ peers' \in [Key -> PeerRec \cup {Absent}]
        /\ disk' \in [Key -> Row \cup {Absent}]
    BY <2>1, <2>2, SaveType
  <2>4. trust' \in [TrustKey -> TrustRec]
    <3>1. CASE s = Local
      BY <1>2, <3>1 DEF AddNew, HasRoom, TypeOK
    <3>2. CASE s # Local
      BY <1>2, <3>2, TrustKeyType DEF AddNew, HasRoom, TypeOK, TrustRec
    <3> QED BY <3>1, <3>2
  <2> QED BY <1>1, <2>3, <2>4 DEF TypeOK, AddPeer
<1>3. CASE AddExisting(k, in, s, nat, pub, ok)
  <2> DEFINE p == Merged(peers[k], in, s, nat, pub)
  <2>1. peers[k] \in PeerRec
    BY <1>3 DEF AddExisting, Stored, TypeOK
  <2>2. p \in PeerRec
    BY <2>1, MergedType
  <2>3. peers' = [peers EXCEPT ![k] = p] /\ Save(ok, k, p) /\ trust' = trust
    BY <1>3 DEF AddExisting
  <2>4. /\ peers' \in [Key -> PeerRec \cup {Absent}]
        /\ disk' \in [Key -> Row \cup {Absent}]
    BY <2>2, <2>3, SaveType
  <2> QED BY <1>1, <2>3, <2>4 DEF TypeOK, AddPeer
<1> QED BY <1>2, <1>3 DEF AddPeer

\* ... and so does mark_verified ...
LEMMA MarkVerifiedType ==
  ASSUME TypeOK, NEW k \in Key, NEW ok \in BOOLEAN, MarkVerified(k, ok)
  PROVE  TypeOK'
<1> DEFINE p == Confirmed(peers[k])
<1>1. CASE ~Stored(k)
  BY <1>1 DEF MarkVerified, TypeOK
<1>2. CASE Stored(k)
  <2>1. peers[k] \in PeerRec
    BY <1>2 DEF Stored, TypeOK
  <2>2. p \in PeerRec
    BY <2>1, UpdatedType
  <2>3. /\ peers' = [peers EXCEPT ![k] = p] /\ Save(ok, k, p)
        /\ trust' = IF ok THEN Charge(p, "alive") ELSE trust
    BY <1>2 DEF MarkVerified
  <2>4. /\ peers' \in [Key -> PeerRec \cup {Absent}]
        /\ disk' \in [Key -> Row \cup {Absent}]
    BY <2>2, <2>3, SaveType
  <2>5. trust' \in [TrustKey -> TrustRec]
    BY <2>2, <2>3, ChargeType DEF TypeOK
  <2>6. /\ probe' = [probe EXCEPT ![k] = "none"] /\ proven' = proven \cup {k}
        /\ UNCHANGED <<cool, restarts, reported>>
    BY DEF MarkVerified
  <2> HIDE DEF p
  <2> QED BY <2>4, <2>5, <2>6 DEF TypeOK
<1> QED BY <1>1, <1>2

\* ... mark_dead ...
LEMMA MarkDeadType ==
  ASSUME TypeOK, NEW k \in Key, NEW ok \in BOOLEAN, MarkDead(k, ok)
  PROVE  TypeOK'
<1>1. CASE ~Stored(k)
  BY <1>1 DEF MarkDead, TypeOK, store
<1>2. CASE Stored(k)
  <2>1. peers[k] \in PeerRec
    BY <1>2 DEF Stored, TypeOK
  <2>2. trust' \in [TrustKey -> TrustRec]
    BY <1>2, <2>1, ChargeType DEF MarkDead, TypeOK
  <2>3. CASE Demote(k, ok)
    <3> DEFINE p == Demoted(peers[k])
    <3>1. p \in PeerRec
      BY <2>1, UpdatedType
    <3>2. peers' = [peers EXCEPT ![k] = p] /\ Save(ok, k, p) /\ cool' = cool
      BY <2>3 DEF Demote
    <3>3. /\ peers' \in [Key -> PeerRec \cup {Absent}]
          /\ disk' \in [Key -> Row \cup {Absent}]
      BY <3>1, <3>2, SaveType
    <3>4. /\ probe' = [probe EXCEPT ![k] = "none"]
          /\ UNCHANGED <<restarts, reported, proven>>
      BY DEF MarkDead
    <3> HIDE DEF p
    <3> QED BY <2>2, <3>2, <3>3, <3>4 DEF TypeOK
  <2>4. CASE Drop(k, ok)
    <3>1. /\ peers' \in [Key -> PeerRec \cup {Absent}]
          /\ disk' \in [Key -> Row \cup {Absent}]
          /\ cool' \in [Key -> Age \cup {Absent}]
      BY <2>4, Consts DEF Drop, TypeOK, Age
    <3> QED BY <2>2, <3>1 DEF MarkDead, TypeOK
  <2> QED BY <1>2, <2>3, <2>4 DEF MarkDead
<1> QED BY <1>1, <1>2

\* ... prune_stale ...
LEMMA PruneType ==
  ASSUME TypeOK, NEW ok \in BOOLEAN, Prune(ok)
  PROVE  TypeOK'
<1>1. peers' \in [Key -> PeerRec \cup {Absent}]
  BY DEF Prune, TypeOK
<1>2. cool' \in [Key -> Age \cup {Absent}]
  BY DEF Prune, TypeOK
<1>3. disk' \in [Key -> Row \cup {Absent}]
  <2>1. PICK gone : disk' = [k \in Key |-> IF k \in gone THEN Absent ELSE disk[k]]
    BY DEF Prune
  <2> QED BY <2>1 DEF TypeOK
<1> QED BY <1>1, <1>2, <1>3 DEF Prune, TypeOK

\* ... loading the database ...
LEMMA RestartType ==
  ASSUME TypeOK, Restart
  PROVE  TypeOK'
<1>1. peers' \in [Key -> PeerRec \cup {Absent}]
  <2>1. \A k \in Key : disk[k] # Absent => disk[k] \in Row
    BY DEF TypeOK
  <2> QED BY <2>1 DEF Restart, PeerRec, Row
<1>2. trust' \in [TrustKey -> TrustRec]
  BY Consts DEF Restart, NewTrust, TrustRec
<1>3. cool' \in [Key -> Age \cup {Absent}] /\ restarts' \in 0..MaxRestarts
  BY Consts DEF Restart, TypeOK
<1> QED BY <1>1, <1>2, <1>3 DEF Restart, TypeOK

\* ... and the passing of time.
LEMMA TickType ==
  ASSUME TypeOK, Tick
  PROVE  TypeOK'
<1>1. \A a \in Age : Older(a) \in Age
  BY Consts DEF Older, Age
<1>2. peers' \in [Key -> PeerRec \cup {Absent}]
  <2>1. \A k \in Key : Stored(k) => [peers[k] EXCEPT !.age = Older(@)] \in PeerRec
    BY <1>1 DEF Stored, TypeOK, PeerRec
  <2> QED BY <2>1 DEF Tick
<1>3. disk' \in [Key -> Row \cup {Absent}]
  <2>1. \A k \in Key : disk[k] # Absent => [disk[k] EXCEPT !.age = Older(@)] \in Row
    BY <1>1 DEF TypeOK, Row
  <2> QED BY <2>1 DEF Tick
<1>4. cool' \in [Key -> Age \cup {Absent}]
  BY <1>1 DEF Tick, TypeOK
<1> QED BY <1>2, <1>3, <1>4 DEF Tick, TypeOK

\* Every variable keeps its type: the invariant the other proofs start from.
THEOREM TypeCorrect == Spec => []TypeOK
<1>1. Init => TypeOK
  BY Consts DEF Init, TypeOK, NewTrust, TrustRec
<1>2. TypeOK /\ [Next]_vars => TypeOK'
  <2> SUFFICES ASSUME TypeOK, [Next]_vars
               PROVE  TypeOK'
    OBVIOUS
  <2>0. DbOutcome \subseteq BOOLEAN
    BY DEF DbOutcome
  <2>1. ASSUME NEW k \in Key, NEW ok \in DbOutcome, Extract(k, ok)
        PROVE  TypeOK'
    <3> DEFINE in == [age |-> 0, sources |-> 1, verified |-> TRUE]
    <3>1. in \in Row
      BY Consts DEF Row, Age
    <3>2. AddPeer(k, in, Local, FALSE, FALSE, ok) /\ proven' \subseteq Key
      BY <2>1 DEF Extract, TypeOK
    <3> HIDE DEF in
    <3> QED BY <2>0, <3>1, <3>2, AddPeerType
  <2>2. ASSUME NEW k \in Key, NEW s \in Source, NEW age \in Age,
               NEW c \in 0..MaxClaim, NEW nat \in BOOLEAN, NEW pub \in BOOLEAN,
               NEW ok \in DbOutcome, Report(k, s, age, c, nat, pub, ok)
        PROVE  TypeOK'
    <3> DEFINE in == [age |-> age, sources |-> c, verified |-> FALSE]
    <3>1. in \in Row
      BY Consts DEF Row
    <3>2. AddPeer(k, in, s, nat, pub, ok) /\ proven' \subseteq Key
      BY <2>2 DEF Report, TypeOK
    <3> HIDE DEF in
    <3> QED BY <2>0, <3>1, <3>2, AddPeerType
  <2>3. ASSUME NEW n \in Net, StartRound(n)
        PROVE  TypeOK'
    BY <2>3 DEF StartRound, TypeOK, store
  <2>4. ASSUME NEW k \in Key, NEW o \in {"alive", "dead"}, Probe(k, o)
        PROVE  TypeOK'
    BY <2>4 DEF Probe, TypeOK, store
  <2>5. ASSUME NEW k \in Key, NEW ok \in DbOutcome, MarkVerified(k, ok)
        PROVE  TypeOK'
    BY <2>0, <2>5, MarkVerifiedType
  <2>6. ASSUME NEW k \in Key, NEW ok \in DbOutcome, MarkDead(k, ok)
        PROVE  TypeOK'
    BY <2>0, <2>6, MarkDeadType
  <2>7. ASSUME NEW ok \in DbOutcome, Prune(ok)
        PROVE  TypeOK'
    BY <2>0, <2>7, PruneType
  <2>8. CASE Restart
    BY <2>8, RestartType
  <2>9. CASE Tick
    BY <2>9, TickType
  <2>10. CASE UNCHANGED vars
    BY <2>10 DEF vars, TypeOK
  <2> QED
    BY <2>1, <2>2, <2>3, <2>4, <2>5, <2>6, <2>7, <2>8, <2>9, <2>10
       DEF Next, AnyReport
<1> QED BY <1>1, <1>2, PTL DEF Spec

-----------------------------------------------------------------------------
(* The cooldown                                                            *)

\* A step that neither adds peers nor makes a cooldown younger keeps every
\* stored peer out of its cooldown.
LEMMA CoolingFrame ==
  ASSUME NotWhileCooling,
         \A k \in Key : Stored(k)' => Stored(k),
         \A k \in Key : CoolingDown(k)' /\ Stored(k)' => CoolingDown(k)
  PROVE  NotWhileCooling'
  BY DEF NotWhileCooling

\* For every value of the constants, also when database writes fail: no peer
\* found dead is back before its cooldown is over.
THEOREM CooldownHolds == Spec => []NotWhileCooling
<1>1. Init => NotWhileCooling
  BY DEF Init, NotWhileCooling, Stored
<1>2. TypeOK /\ NotWhileCooling /\ [Next]_vars => NotWhileCooling'
  <2> SUFFICES ASSUME TypeOK, NotWhileCooling, [Next]_vars
               PROVE  NotWhileCooling'
    OBVIOUS
  <2>1. ASSUME NEW k \in Key, NEW in, NEW s, NEW nat, NEW pub, NEW ok,
               AddPeer(k, in, s, nat, pub, ok)
        PROVE  NotWhileCooling'
    <3>1. ~CoolingDown(k) /\ cool' = cool
      BY <2>1 DEF AddPeer
    <3>2. \A j \in Key \ {k} : peers'[j] = peers[j]
      BY <2>1 DEF AddPeer, AddNew, HasRoom, AddExisting, TypeOK
    <3> QED BY <3>1, <3>2 DEF NotWhileCooling, Stored, CoolingDown
  <2>2. ASSUME NEW k \in Key, NEW ok, Extract(k, ok)
        PROVE  NotWhileCooling'
    BY <2>1, <2>2 DEF Extract
  <2>3. ASSUME NEW k \in Key, NEW s, NEW age, NEW c, NEW nat, NEW pub, NEW ok,
               Report(k, s, age, c, nat, pub, ok)
        PROVE  NotWhileCooling'
    BY <2>1, <2>3 DEF Report
  <2>4. ASSUME NEW n \in Net, StartRound(n)
        PROVE  NotWhileCooling'
    BY <2>4, CoolingFrame DEF StartRound, store, Stored, CoolingDown
  <2>5. ASSUME NEW k \in Key, NEW o, Probe(k, o)
        PROVE  NotWhileCooling'
    BY <2>5, CoolingFrame DEF Probe, store, Stored, CoolingDown
  <2>6. ASSUME NEW k \in Key, NEW ok, MarkVerified(k, ok)
        PROVE  NotWhileCooling'
    <3>1. cool' = cool
      BY <2>6 DEF MarkVerified
    <3>2. \A j \in Key : Stored(j)' => Stored(j)
      BY <2>6 DEF MarkVerified, Stored, TypeOK
    <3> QED BY <3>1, <3>2, CoolingFrame DEF CoolingDown
  <2>7. ASSUME NEW k \in Key, NEW ok, MarkDead(k, ok)
        PROVE  NotWhileCooling'
    <3>1. CASE ~Stored(k)
      BY <2>7, <3>1, CoolingFrame DEF MarkDead, store, Stored, CoolingDown
    <3>2. CASE Stored(k) /\ Demote(k, ok)
      <4>1. cool' = cool
        BY <3>2 DEF Demote
      <4>2. \A j \in Key : Stored(j)' => Stored(j)
        BY <3>2 DEF Demote, Stored, TypeOK
      <4> QED BY <4>1, <4>2, CoolingFrame DEF CoolingDown
    <3>3. CASE Drop(k, ok)
      <4>1. ~Stored(k)'
        BY <3>3 DEF Drop, Stored, TypeOK
      <4>2. \A j \in Key \ {k} : peers'[j] = peers[j] /\ cool'[j] = cool[j]
        BY <3>3 DEF Drop, TypeOK
      <4> QED BY <4>1, <4>2 DEF NotWhileCooling, Stored, CoolingDown
    <3> QED BY <2>7, <3>1, <3>2, <3>3 DEF MarkDead
  <2>8. ASSUME NEW ok, Prune(ok)
        PROVE  NotWhileCooling'
    <3>1. \A k \in Key : Stored(k)' => Stored(k)
      BY <2>8 DEF Prune, Stored
    <3>2. \A k \in Key : cool'[k] = Absent \/ cool'[k] = cool[k]
      BY <2>8 DEF Prune
    <3> QED BY <3>1, <3>2, CoolingFrame DEF CoolingDown
  <2>9. CASE Restart
    BY <2>9 DEF Restart, NotWhileCooling, CoolingDown
  <2>10. CASE Tick
    <3>1. \A k \in Key : Stored(k)' => Stored(k)
      BY <2>10 DEF Tick, Stored
    <3>2. \A k \in Key : CoolingDown(k)' => CoolingDown(k)
      BY <2>10, Consts, AbsentAssumption
         DEF Tick, CoolingDown, TypeOK, Older, Age
    <3> QED BY <3>1, <3>2, CoolingFrame
  <2>11. CASE UNCHANGED vars
    BY <2>11, CoolingFrame DEF vars, Stored, CoolingDown
  <2> QED
    BY <2>2, <2>3, <2>4, <2>5, <2>6, <2>7, <2>8, <2>9, <2>10, <2>11
       DEF Next, AnyReport
<1> QED BY <1>1, <1>2, TypeCorrect, PTL DEF Spec

-----------------------------------------------------------------------------
(* What is served was proven here                                          *)

\* A step that saves p under k keeps the invariant when p's flag is proven.
LEMMA ProvenSave ==
  ASSUME TypeOK, ServedWasProven, NEW k \in Key, NEW p, NEW ok, Save(ok, k, p),
         peers' = [peers EXCEPT ![k] = p], proven \subseteq proven',
         p.verified => k \in proven'
  PROVE  ServedWasProven'
<1>1. \A j \in Key \ {k} : peers'[j] = peers[j] /\ disk'[j] = disk[j]
  BY DEF Save, TypeOK
<1>2. peers'[k] = p
  BY DEF TypeOK
<1>3. disk'[k] = disk[k] \/ disk'[k] = RowOf(p)
  BY DEF Save, TypeOK
<1>4. RowOf(p).verified = p.verified
  BY DEF RowOf
<1> QED BY <1>1, <1>2, <1>3, <1>4 DEF ServedWasProven, Served, Stored

\* A step that leaves the table and its copy alone keeps the invariant.
LEMMA ProvenQuiet ==
  ASSUME ServedWasProven, peers' = peers, disk' = disk, proven' = proven
  PROVE  ServedWasProven'
  BY DEF ServedWasProven, Served, Stored

\* For every value of the constants, also when database writes fail: what is
\* served was listed by the local daemon or reached by this node's own probe.
THEOREM ServedIsProven == Spec => []ServedWasProven
<1>1. Init => ServedWasProven
  BY DEF Init, ServedWasProven, Served, Stored
<1>2. TypeOK /\ ServedWasProven /\ [Next]_vars => ServedWasProven'
  <2> SUFFICES ASSUME TypeOK, ServedWasProven, [Next]_vars
               PROVE  ServedWasProven'
    OBVIOUS
  <2>1. ASSUME NEW k \in Key, NEW in, NEW s, NEW nat, NEW pub, NEW ok,
               AddPeer(k, in, s, nat, pub, ok), proven \subseteq proven',
               in.verified => k \in proven'
        PROVE  ServedWasProven'
    <3>1. CASE AddNew(k, in, s, nat, pub, ok)
      <4> DEFINE p == Fresh(in, s, nat, pub)
      <4>1. Save(ok, k, p) /\ peers' = [peers EXCEPT ![k] = p]
        BY <3>1 DEF AddNew, HasRoom
      <4>2. p.verified = in.verified
        BY DEF Fresh
      <4> HIDE DEF p
      <4> QED BY <2>1, <4>1, <4>2, ProvenSave
    <3>2. CASE AddExisting(k, in, s, nat, pub, ok)
      <4> DEFINE p == Merged(peers[k], in, s, nat, pub)
      <4>1. Save(ok, k, p) /\ peers' = [peers EXCEPT ![k] = p]
        BY <3>2 DEF AddExisting
      <4>2. p.verified = peers[k].verified
        BY DEF Merged, Counted
      <4>3. Stored(k)
        BY <3>2 DEF AddExisting
      <4>4. p.verified => k \in proven'
        BY <2>1, <4>2, <4>3 DEF ServedWasProven, Served
      <4> HIDE DEF p
      <4> QED BY <2>1, <4>1, <4>4, ProvenSave
    <3> QED BY <2>1, <3>1, <3>2 DEF AddPeer
  <2>2. ASSUME NEW k \in Key, NEW ok, Extract(k, ok)
        PROVE  ServedWasProven'
    BY <2>1, <2>2 DEF Extract
  <2>3. ASSUME NEW k \in Key, NEW s, NEW age, NEW c, NEW nat, NEW pub, NEW ok,
               Report(k, s, age, c, nat, pub, ok)
        PROVE  ServedWasProven'
    BY <2>1, <2>3 DEF Report
  <2>4. ASSUME NEW n \in Net, StartRound(n)
        PROVE  ServedWasProven'
    BY <2>4, ProvenQuiet DEF StartRound, store
  <2>5. ASSUME NEW k \in Key, NEW o, Probe(k, o)
        PROVE  ServedWasProven'
    BY <2>5, ProvenQuiet DEF Probe, store
  <2>6. ASSUME NEW k \in Key, NEW ok, MarkVerified(k, ok)
        PROVE  ServedWasProven'
    <3>1. proven' = proven \cup {k}
      BY <2>6 DEF MarkVerified
    <3>2. CASE ~Stored(k)
      <4>1. peers' = peers /\ disk' = disk
        BY <2>6, <3>2 DEF MarkVerified
      <4> QED BY <3>1, <4>1 DEF ServedWasProven, Served, Stored
    <3>3. CASE Stored(k)
      <4> DEFINE p == Confirmed(peers[k])
      <4>1. Save(ok, k, p) /\ peers' = [peers EXCEPT ![k] = p]
        BY <2>6, <3>3 DEF MarkVerified
      <4> HIDE DEF p
      <4> QED BY <3>1, <4>1, ProvenSave
    <3> QED BY <3>2, <3>3
  <2>7. ASSUME NEW k \in Key, NEW ok, MarkDead(k, ok)
        PROVE  ServedWasProven'
    <3>1. proven' = proven
      BY <2>7 DEF MarkDead
    <3>2. CASE ~Stored(k)
      BY <2>7, <3>1, <3>2, ProvenQuiet DEF MarkDead, store
    <3>3. CASE Stored(k) /\ Demote(k, ok)
      <4> DEFINE p == Demoted(peers[k])
      <4>1. Save(ok, k, p) /\ peers' = [peers EXCEPT ![k] = p]
        BY <3>3 DEF Demote
      <4>2. ~p.verified
        <5>1. peers[k] \in PeerRec
          BY <3>3 DEF Stored, TypeOK
        <5> QED BY <5>1 DEF PeerRec, Demoted
      <4> HIDE DEF p
      <4> QED BY <3>1, <4>1, <4>2, ProvenSave
    <3>4. CASE Drop(k, ok)
      <4>1. ~Stored(k)' /\ (disk'[k] = Absent \/ disk'[k] = disk[k])
        BY <3>4 DEF Drop, Stored, TypeOK
      <4>2. \A j \in Key \ {k} : peers'[j] = peers[j] /\ disk'[j] = disk[j]
        BY <3>4 DEF Drop, TypeOK
      <4> QED BY <3>1, <4>1, <4>2 DEF ServedWasProven, Served, Stored
    <3> QED BY <2>7, <3>2, <3>3, <3>4 DEF MarkDead
  <2>8. ASSUME NEW ok, Prune(ok)
        PROVE  ServedWasProven'
    <3>1. \A k \in Key : peers'[k] = Absent \/ peers'[k] = peers[k]
      BY <2>8 DEF Prune
    <3>2. \A k \in Key : disk'[k] = Absent \/ disk'[k] = disk[k]
      <4>1. PICK gone : disk' = [k \in Key |-> IF k \in gone THEN Absent ELSE disk[k]]
        BY <2>8 DEF Prune
      <4> QED BY <4>1
    <3>3. proven' = proven
      BY <2>8 DEF Prune
    <3> QED BY <3>1, <3>2, <3>3 DEF ServedWasProven, Served, Stored
  <2>9. CASE Restart
    <3>1. \A k \in Key : Served(k)' => disk[k] # Absent /\ disk[k].verified
      BY <2>9 DEF Restart, Served, Stored
    <3>2. disk' = disk /\ proven' = proven
      BY <2>9 DEF Restart
    <3> QED BY <3>1, <3>2 DEF ServedWasProven
  <2>10. CASE Tick
    <3>1. \A k \in Key : Served(k)' => Served(k)
      <4> SUFFICES ASSUME NEW k \in Key, Served(k)'
                   PROVE  Served(k)
        OBVIOUS
      <4>1. Stored(k) /\ peers'[k] = [peers[k] EXCEPT !.age = Older(@)]
        BY <2>10 DEF Tick, Served, Stored
      <4>2. peers[k] \in PeerRec
        BY <4>1 DEF Stored, TypeOK
      <4>3. peers'[k].verified = peers[k].verified
        BY <4>1, <4>2 DEF PeerRec
      <4> QED BY <4>1, <4>3 DEF Served
    <3>2. \A k \in Key : disk'[k] # Absent /\ disk'[k].verified
                           => disk[k] # Absent /\ disk[k].verified
      <4> SUFFICES ASSUME NEW k \in Key, disk'[k] # Absent, disk'[k].verified
                   PROVE  disk[k] # Absent /\ disk[k].verified
        OBVIOUS
      <4>1. disk[k] # Absent /\ disk'[k] = [disk[k] EXCEPT !.age = Older(@)]
        BY <2>10 DEF Tick
      <4>2. disk[k] \in Row
        BY <4>1 DEF TypeOK
      <4>3. disk'[k].verified = disk[k].verified
        BY <4>1, <4>2 DEF Row
      <4> QED BY <4>1, <4>3
    <3>3. proven' = proven
      BY <2>10 DEF Tick
    <3> QED BY <3>1, <3>2, <3>3 DEF ServedWasProven
  <2>11. CASE UNCHANGED vars
    BY <2>11, ProvenQuiet DEF vars
  <2> QED
    BY <2>2, <2>3, <2>4, <2>5, <2>6, <2>7, <2>8, <2>9, <2>10, <2>11
       DEF Next, AnyReport
<1> QED BY <1>1, <1>2, TypeCorrect, PTL DEF Spec

-----------------------------------------------------------------------------
(* The bounds the table keeps when database writes succeed: what one trust *)
(* key, and one network, can hold of it.                                   *)

\* A set of keys is finite, and one key more makes it at most one larger.
LEMMA KeySets ==
  \A S, T \in SUBSET Key :
    /\ Cardinality(S) \in Nat
    /\ T \subseteq S => Cardinality(T) <= Cardinality(S)
    /\ \A k \in Key : T \subseteq S \cup {k} => Cardinality(T) <= Cardinality(S) + 1
<1> SUFFICES ASSUME NEW S \in SUBSET Key, NEW T \in SUBSET Key
             PROVE  /\ Cardinality(S) \in Nat
                    /\ T \subseteq S => Cardinality(T) <= Cardinality(S)
                    /\ \A k \in Key : T \subseteq S \cup {k}
                                        => Cardinality(T) <= Cardinality(S) + 1
  OBVIOUS
<1>1. IsFiniteSet(S) /\ IsFiniteSet(T)
  BY Consts, FS_Subset
<1>2. Cardinality(S) \in Nat /\ Cardinality(T) \in Nat
  BY <1>1, FS_CardinalityType
<1>3. T \subseteq S => Cardinality(T) <= Cardinality(S)
  BY <1>1, FS_Subset
<1>4. ASSUME NEW k \in Key, T \subseteq S \cup {k}
      PROVE  Cardinality(T) <= Cardinality(S) + 1
  <2> PICK U : U = S \cup {k}
    OBVIOUS
  <2>0. /\ IsFiniteSet(S \cup {k})
        /\ Cardinality(S \cup {k}) = IF k \in S THEN Cardinality(S) ELSE Cardinality(S) + 1
    BY <1>1, FS_AddElement
  <2>1. IsFiniteSet(U) /\ Cardinality(U) <= Cardinality(S) + 1
    BY <1>2, <2>0
  <2>2. T \subseteq U
    BY <1>4
  <2>3. Cardinality(U) \in Nat
    BY <2>1, FS_CardinalityType
  <2>4. Cardinality(T) <= Cardinality(U)
    BY <2>1, <2>2, FS_Subset
  <2> QED BY <1>2, <2>1, <2>3, <2>4
<1> QED BY <1>2, <1>3, <1>4

\* A verdict changes no `accepted` count.
LEMMA ChargeAccepted ==
  ASSUME trust \in [TrustKey -> TrustRec], NEW p, NEW v, NEW t \in TrustKey
  PROVE  Charge(p, v)[t].accepted = trust[t].accepted
<1>1. \A u \in TrustRec : \A c : Reset(u, c).accepted = u.accepted
  BY DEF Reset, TrustRec
<1>2. \A u \in TrustRec : CreditAlive(u).accepted = u.accepted
  <2> SUFFICES ASSUME NEW u \in TrustRec PROVE CreditAlive(u).accepted = u.accepted
    OBVIOUS
  <2> DEFINE a == [u EXCEPT !.alive = @ + 1]
  <2>1. a \in TrustRec /\ a.accepted = u.accepted
    BY DEF TrustRec
  <2> HIDE DEF a
  <2>2. MaybeExpand(a).accepted = u.accepted
    BY <1>1, <2>1 DEF MaybeExpand
  <2> QED BY <2>2 DEF CreditAlive, a
<1>3. \A u \in TrustRec : CreditDead(u).accepted = u.accepted
  <2> SUFFICES ASSUME NEW u \in TrustRec PROVE CreditDead(u).accepted = u.accepted
    OBVIOUS
  <2> DEFINE d == [u EXCEPT !.dead = @ + 1]
  <2>1. d \in TrustRec /\ d.accepted = u.accepted
    BY DEF TrustRec
  <2> HIDE DEF d
  <2>2. MaybeContract(d).accepted = u.accepted
    BY <1>1, <2>1 DEF MaybeContract
  <2> QED BY <2>2 DEF CreditDead, d
<1>4. trust[t] \in TrustRec
  OBVIOUS
<1>5. CASE p.src # Local /\ t = TrustKeyOf(p.src)
  BY <1>2, <1>3, <1>4, <1>5 DEF Charge
<1>6. CASE ~(p.src # Local /\ t = TrustKeyOf(p.src))
  BY <1>6 DEF Charge
<1> QED BY <1>5, <1>6

-----------------------------------------------------------------------------
(* Every step but add_peer's insertion and a restart keeps each entry's    *)
(* source and every `accepted` count.                                      *)

KeepsSources ==
  \A k \in Key : Stored(k)' => Stored(k) /\ peers'[k].src = peers[k].src
KeepsAccepted ==
  \A t \in TrustKey : trust'[t].accepted = trust[t].accepted
Inserts ==
  \E k \in Key, in \in Row, s \in Source \cup {Local},
     nat, pub \in BOOLEAN, ok \in DbOutcome : AddNew(k, in, s, nat, pub, ok)

\* Saving p over a stored entry with the same source keeps the sources.
LEMMA SameSource ==
  ASSUME TypeOK, NEW k \in Key, NEW p, Stored(k), p.src = peers[k].src,
         peers' = [peers EXCEPT ![k] = p]
  PROVE  KeepsSources
<1>1. \A j \in Key \ {k} : peers'[j] = peers[j]
  BY DEF TypeOK
<1>2. peers'[k] = p
  BY DEF TypeOK
<1> QED BY <1>1, <1>2 DEF KeepsSources, Stored

\* add_peer leaves the table as it is, changes an entry in place, or inserts
\* one entry, charged to its source, below that source's cap.
LEMMA AddPeerShape ==
  ASSUME TypeOK, NEW k \in Key, NEW in \in Row, NEW s \in Source \cup {Local},
         NEW nat \in BOOLEAN, NEW pub \in BOOLEAN, NEW ok \in DbOutcome,
         AddPeer(k, in, s, nat, pub, ok)
  PROVE  Inserts \/ (KeepsSources /\ KeepsAccepted)
<1>1. CASE AddNew(k, in, s, nat, pub, ok)
  BY <1>1 DEF Inserts
<1>2. CASE AddExisting(k, in, s, nat, pub, ok)
  <2> DEFINE p == Merged(peers[k], in, s, nat, pub)
  <2>1. Stored(k) /\ peers' = [peers EXCEPT ![k] = p] /\ trust' = trust
    BY <1>2 DEF AddExisting
  <2>2. p.src = peers[k].src
    BY DEF Merged, Counted
  <2> HIDE DEF p
  <2>3. KeepsSources
    BY <2>1, <2>2, SameSource
  <2> QED BY <2>1, <2>3 DEF KeepsAccepted
<1> QED BY <1>1, <1>2 DEF AddPeer

\* A verdict inserts no entry and charges none.
LEMMA VerdictShape ==
  ASSUME TypeOK, NEW k \in Key, NEW ok, MarkVerified(k, ok) \/ MarkDead(k, ok)
  PROVE  KeepsSources /\ KeepsAccepted
<1>1. CASE ~Stored(k)
  <2>1. peers' = peers /\ trust' = trust
    BY <1>1 DEF MarkVerified, MarkDead, store
  <2> QED BY <2>1 DEF KeepsSources, KeepsAccepted, Stored
<1>2. CASE Stored(k) /\ MarkVerified(k, ok)
  <2> DEFINE p == Confirmed(peers[k])
  <2>1. peers' = [peers EXCEPT ![k] = p]
        /\ trust' = IF ok THEN Charge(p, "alive") ELSE trust
    BY <1>2 DEF MarkVerified
  <2>2. p.src = peers[k].src
    <3>1. peers[k] \in PeerRec
      BY <1>2 DEF Stored, TypeOK
    <3> QED BY <3>1 DEF PeerRec, Confirmed
  <2> HIDE DEF p
  <2>3. KeepsSources
    BY <1>2, <2>1, <2>2, SameSource
  <2>4. KeepsAccepted
    BY <2>1, ChargeAccepted DEF KeepsAccepted, TypeOK
  <2> QED BY <2>3, <2>4
<1>3. CASE Stored(k) /\ MarkDead(k, ok)
  <2>1. trust' = Charge(peers[k], "dead")
    BY <1>3 DEF MarkDead
  <2>2. KeepsAccepted
    BY <2>1, ChargeAccepted DEF KeepsAccepted, TypeOK
  <2>3. CASE Demote(k, ok)
    <3> DEFINE p == Demoted(peers[k])
    <3>1. peers' = [peers EXCEPT ![k] = p]
      BY <2>3 DEF Demote
    <3>2. p.src = peers[k].src
      <4>1. peers[k] \in PeerRec
        BY <1>3 DEF Stored, TypeOK
      <4> QED BY <4>1 DEF PeerRec, Demoted
    <3> HIDE DEF p
    <3> QED BY <1>3, <2>2, <3>1, <3>2, SameSource
  <2>4. CASE Drop(k, ok)
    <3>1. ~Stored(k)' /\ \A j \in Key \ {k} : peers'[j] = peers[j]
      BY <2>4 DEF Drop, Stored, TypeOK
    <3> QED BY <2>2, <3>1 DEF KeepsSources, Stored
  <2> QED BY <1>3, <2>3, <2>4 DEF MarkDead
<1> QED BY <1>1, <1>2, <1>3

\* What any step does to the keys stored for a source and to its count.
LEMMA StepShape ==
  ASSUME TypeOK, [Next]_vars
  PROVE  Inserts \/ Restart \/ (KeepsSources /\ KeepsAccepted)
<1>1. ASSUME NEW k \in Key, NEW ok \in DbOutcome, Extract(k, ok)
      PROVE  Inserts \/ (KeepsSources /\ KeepsAccepted)
  <2> DEFINE in == [age |-> 0, sources |-> 1, verified |-> TRUE]
  <2>1. in \in Row
    BY Consts DEF Row, Age
  <2>2. AddPeer(k, in, Local, FALSE, FALSE, ok)
    BY <1>1 DEF Extract
  <2> HIDE DEF in
  <2> QED BY <2>1, <2>2, AddPeerShape
<1>2. ASSUME NEW k \in Key, NEW s \in Source, NEW age \in Age,
             NEW c \in 0..MaxClaim, NEW nat \in BOOLEAN, NEW pub \in BOOLEAN,
             NEW ok \in DbOutcome, Report(k, s, age, c, nat, pub, ok)
      PROVE  Inserts \/ (KeepsSources /\ KeepsAccepted)
  <2> DEFINE in == [age |-> age, sources |-> c, verified |-> FALSE]
  <2>1. in \in Row
    BY Consts DEF Row
  <2>2. AddPeer(k, in, s, nat, pub, ok)
    BY <1>2 DEF Report
  <2> HIDE DEF in
  <2> QED BY <2>1, <2>2, AddPeerShape
<1>3. ASSUME peers' = peers, trust' = trust
      PROVE  KeepsSources /\ KeepsAccepted
  BY <1>3 DEF KeepsSources, KeepsAccepted, Stored
<1>4. ASSUME NEW n \in Net, StartRound(n)
      PROVE  KeepsSources /\ KeepsAccepted
  BY <1>3, <1>4 DEF StartRound, store
<1>5. ASSUME NEW k \in Key, NEW o, Probe(k, o)
      PROVE  KeepsSources /\ KeepsAccepted
  BY <1>3, <1>5 DEF Probe, store
<1>6. ASSUME NEW ok, Prune(ok)
      PROVE  KeepsSources /\ KeepsAccepted
  <2>1. trust' = trust /\ \A k \in Key : peers'[k] = Absent \/ peers'[k] = peers[k]
    BY <1>6 DEF Prune
  <2> QED BY <2>1 DEF KeepsSources, KeepsAccepted, Stored
<1>7. CASE Tick
  <2>1. trust' = trust
    BY <1>7 DEF Tick
  <2>2. \A k \in Key : Stored(k)' => Stored(k) /\ peers'[k].src = peers[k].src
    <3> SUFFICES ASSUME NEW k \in Key, Stored(k)'
                 PROVE  Stored(k) /\ peers'[k].src = peers[k].src
      OBVIOUS
    <3>1. Stored(k) /\ peers'[k] = [peers[k] EXCEPT !.age = Older(@)]
      BY <1>7 DEF Tick, Stored
    <3>2. peers[k] \in PeerRec
      BY <3>1 DEF Stored, TypeOK
    <3> QED BY <3>1, <3>2 DEF PeerRec
  <2> QED BY <2>1, <2>2 DEF KeepsSources, KeepsAccepted
<1>8. CASE UNCHANGED vars
  BY <1>3, <1>8 DEF vars
<1> QED
  BY <1>1, <1>2, <1>4, <1>5, <1>6, <1>7, <1>8, VerdictShape DEF Next, AnyReport
-----------------------------------------------------------------------------
(* What one trust key can hold                                             *)

\* An insertion adds its key to its own reporter's share, which is below the
\* cap, and counts it; the other shares stay as they are.
LEMMA InsertShape ==
  ASSUME TypeOK, ~DbMayFail, Inserts, NEW t \in TrustKey
  PROVE  \/ /\ From(t)' \subseteq From(t)
            /\ trust'[t].accepted = trust[t].accepted
         \/ /\ \E k \in Key : From(t)' \subseteq From(t) \cup {k}
            /\ trust'[t].accepted = trust[t].accepted + 1
            /\ trust[t].accepted < trust[t].cap
<1> PICK k \in Key, in \in Row, s \in Source \cup {Local},
         nat \in BOOLEAN, pub \in BOOLEAN, ok \in DbOutcome :
         AddNew(k, in, s, nat, pub, ok)
  BY DEF Inserts
<1> DEFINE p == Fresh(in, s, nat, pub)
<1>1. peers' = [peers EXCEPT ![k] = p]
  BY DEF AddNew, HasRoom
<1>2. p.src = s
  BY DEF Fresh
<1>3. ok
  BY DEF DbOutcome
<1> HIDE DEF p
<1>4. peers'[k] = p /\ \A j \in Key \ {k} : peers'[j] = peers[j]
  BY <1>1 DEF TypeOK
<1>5. From(t)' \subseteq From(t) \cup {k}
  BY <1>4 DEF From, Stored
<1>6. CASE s # Local /\ t = TrustKeyOf(s)
  <2>1. trust' = [trust EXCEPT ![t].accepted = @ + 1]
    BY <1>3, <1>6 DEF AddNew, HasRoom
  <2>2. trust'[t].accepted = trust[t].accepted + 1
    BY <2>1 DEF TypeOK, TrustRec
  <2>3. trust[t].accepted < trust[t].cap
    BY <1>6 DEF AddNew, HasRoom
  <2> QED BY <1>5, <2>2, <2>3
<1>7. CASE ~(s # Local /\ t = TrustKeyOf(s))
  <2>1. k \notin From(t)'
    BY <1>2, <1>4, <1>7 DEF From
  <2>2. trust'[t].accepted = trust[t].accepted
    <3>1. CASE s = Local
      BY <3>1 DEF AddNew, HasRoom
    <3>2. CASE s # Local /\ t # TrustKeyOf(s)
      <4>1. trust' = [trust EXCEPT ![TrustKeyOf(s)].accepted = @ + 1]
        BY <1>3, <3>2 DEF AddNew, HasRoom
      <4> QED BY <3>2, <4>1 DEF TypeOK
    <3> QED BY <1>7, <3>1, <3>2
  <2> QED BY <1>5, <2>1, <2>2
<1> QED BY <1>6, <1>7

\* A step that keeps the sources adds to no share, and a restart empties all.
LEMMA SharesShrink ==
  ASSUME KeepsSources \/ Restart, NEW t \in TrustKey
  PROVE  From(t)' \subseteq From(t)
<1>1. CASE KeepsSources
  BY <1>1 DEF KeepsSources, From
<1>2. CASE Restart
  BY <1>2 DEF Restart, From, Stored
<1> QED BY <1>1, <1>2

\* As long as database writes succeed, no trust key holds more entries than
\* it was charged for: add_peer's count is a bound on the real share.
THEOREM FloodBounded == ASSUME ~DbMayFail PROVE Spec => []FloodBound
<1>1. Init => FloodBound
  <2>1. ASSUME Init, NEW t \in TrustKey
        PROVE  Cardinality(From(t)) <= trust[t].accepted
    <3>1. From(t) = {} /\ trust[t].accepted = 0
      BY <2>1 DEF Init, From, Stored, NewTrust
    <3> QED BY <3>1, FS_EmptySet
  <2> QED BY <2>1 DEF FloodBound
<1>2. TypeOK /\ FloodBound /\ [Next]_vars => FloodBound'
  <2> SUFFICES ASSUME TypeOK, FloodBound, [Next]_vars, NEW t \in TrustKey
               PROVE  Cardinality(From(t)') <= trust'[t].accepted
    BY DEF FloodBound
  <2>1. From(t) \in SUBSET Key /\ From(t)' \in SUBSET Key
    BY DEF From
  <2>2. Cardinality(From(t)) <= trust[t].accepted /\ trust[t].accepted \in Nat
    BY DEF FloodBound, TypeOK, TrustRec
  <2>3. Cardinality(From(t)) \in Nat /\ Cardinality(From(t)') \in Nat
    BY <2>1, KeySets
  <2>4. CASE Inserts
    <3>1. CASE From(t)' \subseteq From(t) /\ trust'[t].accepted = trust[t].accepted
      BY <2>1, <2>2, <2>3, <3>1, KeySets
    <3>2. CASE /\ \E k \in Key : From(t)' \subseteq From(t) \cup {k}
               /\ trust'[t].accepted = trust[t].accepted + 1
      <4>1. Cardinality(From(t)') <= Cardinality(From(t)) + 1
        BY <2>1, <3>2, KeySets
      <4> QED BY <2>2, <2>3, <3>2, <4>1
    <3> QED BY <2>4, <3>1, <3>2, InsertShape
  <2>5. CASE Restart
    <3>1. From(t)' = {} /\ trust'[t].accepted = 0
      BY <2>5 DEF Restart, From, Stored, NewTrust
    <3> QED BY <3>1, FS_EmptySet
  <2>6. CASE KeepsSources /\ KeepsAccepted
    <3>1. Cardinality(From(t)') <= Cardinality(From(t))
      BY <2>1, <2>6, SharesShrink, KeySets
    <3>2. trust'[t].accepted = trust[t].accepted
      BY <2>6 DEF KeepsAccepted
    <3> QED BY <2>2, <2>3, <3>1, <3>2
  <2> QED BY <2>4, <2>5, <2>6, StepShape
<1> QED BY <1>1, <1>2, TypeCorrect, PTL DEF Spec

\* As long as database writes succeed, a trust key's share grows only within
\* the cap it has at that moment.
THEOREM GrowthIsWithinCap == ASSUME ~DbMayFail PROVE Spec => GrowthWithinCap
<1>1. TypeOK /\ FloodBound /\ [Next]_vars =>
        \A t \in TrustKey :
          Cardinality(From(t)') > Cardinality(From(t))
            => Cardinality(From(t)') <= trust[t].cap
  <2> SUFFICES ASSUME TypeOK, FloodBound, [Next]_vars, NEW t \in TrustKey,
                      Cardinality(From(t)') > Cardinality(From(t))
               PROVE  Cardinality(From(t)') <= trust[t].cap
    OBVIOUS
  <2>1. From(t) \in SUBSET Key /\ From(t)' \in SUBSET Key
    BY DEF From
  <2>2. /\ Cardinality(From(t)) <= trust[t].accepted
        /\ trust[t].accepted \in Nat /\ trust[t].cap \in Nat
    BY DEF FloodBound, TypeOK, TrustRec
  <2>3. Cardinality(From(t)) \in Nat /\ Cardinality(From(t)') \in Nat
    BY <2>1, KeySets
  <2>4. ~(From(t)' \subseteq From(t))
    BY <2>1, <2>3, KeySets
  <2>5. Inserts
    BY <2>4, StepShape, SharesShrink
  <2>6. /\ \E k \in Key : From(t)' \subseteq From(t) \cup {k}
        /\ trust[t].accepted < trust[t].cap
    BY <2>4, <2>5, InsertShape
  <2>7. Cardinality(From(t)') <= Cardinality(From(t)) + 1
    BY <2>1, <2>6, KeySets
  <2> QED BY <2>2, <2>3, <2>6, <2>7
<1> QED BY <1>1, TypeCorrect, FloodBounded, PTL DEF Spec, GrowthWithinCap
-----------------------------------------------------------------------------
(* The database, and what a restart loads                                  *)

\* Saving p under k in memory and on disk keeps the two alike.
LEMMA MirrorSave ==
  ASSUME TypeOK, DiskMirrors, NEW k \in Key, NEW p \in PeerRec,
         peers' = [peers EXCEPT ![k] = p], Save(TRUE, k, p)
  PROVE  DiskMirrors'
<1>1. /\ peers'[k] = p /\ disk'[k] = RowOf(p)
      /\ \A j \in Key \ {k} : peers'[j] = peers[j] /\ disk'[j] = disk[j]
  BY DEF Save, TypeOK
<1>2. p # Absent
  BY AbsentAssumption
<1> QED BY <1>1, <1>2 DEF DiskMirrors, Stored

\* add_peer writes to the database exactly what it stores.
LEMMA MirrorAddPeer ==
  ASSUME TypeOK, DiskMirrors, NEW k \in Key, NEW in \in Row,
         NEW s \in Source \cup {Local}, NEW nat \in BOOLEAN, NEW pub \in BOOLEAN,
         AddPeer(k, in, s, nat, pub, TRUE)
  PROVE  DiskMirrors'
<1>1. CASE AddNew(k, in, s, nat, pub, TRUE)
  <2> DEFINE p == Fresh(in, s, nat, pub)
  <2>1. p \in PeerRec
    BY FreshType
  <2>2. peers' = [peers EXCEPT ![k] = p] /\ Save(TRUE, k, p)
    BY <1>1 DEF AddNew, HasRoom
  <2> HIDE DEF p
  <2> QED BY <2>1, <2>2, MirrorSave
<1>2. CASE AddExisting(k, in, s, nat, pub, TRUE)
  <2> DEFINE p == Merged(peers[k], in, s, nat, pub)
  <2>1. peers[k] \in PeerRec
    BY <1>2 DEF AddExisting, Stored, TypeOK
  <2>2. p \in PeerRec
    BY <2>1, MergedType
  <2>3. peers' = [peers EXCEPT ![k] = p] /\ Save(TRUE, k, p)
    BY <1>2 DEF AddExisting
  <2> HIDE DEF p
  <2> QED BY <2>2, <2>3, MirrorSave
<1> QED BY <1>1, <1>2 DEF AddPeer

\* So do mark_verified and mark_dead.
LEMMA MirrorVerdict ==
  ASSUME TypeOK, DiskMirrors, NEW k \in Key,
         MarkVerified(k, TRUE) \/ MarkDead(k, TRUE)
  PROVE  DiskMirrors'
<1>1. CASE ~Stored(k)
  <2>1. peers' = peers /\ disk' = disk
    BY <1>1 DEF MarkVerified, MarkDead, store
  <2> QED BY <2>1 DEF DiskMirrors, Stored
<1>2. CASE Stored(k) /\ MarkVerified(k, TRUE)
  <2> DEFINE p == Confirmed(peers[k])
  <2>1. p \in PeerRec
    BY <1>2, UpdatedType DEF Stored, TypeOK
  <2>2. peers' = [peers EXCEPT ![k] = p] /\ Save(TRUE, k, p)
    BY <1>2 DEF MarkVerified
  <2> HIDE DEF p
  <2> QED BY <2>1, <2>2, MirrorSave
<1>3. CASE Stored(k) /\ Demote(k, TRUE)
  <2> DEFINE p == Demoted(peers[k])
  <2>1. p \in PeerRec
    BY <1>3, UpdatedType DEF Stored, TypeOK
  <2>2. peers' = [peers EXCEPT ![k] = p] /\ Save(TRUE, k, p)
    BY <1>3 DEF Demote
  <2> HIDE DEF p
  <2> QED BY <2>1, <2>2, MirrorSave
<1>4. CASE Drop(k, TRUE)
  <2>1. /\ peers'[k] = Absent /\ disk'[k] = Absent
        /\ \A j \in Key \ {k} : peers'[j] = peers[j] /\ disk'[j] = disk[j]
    BY <1>4 DEF Drop, TypeOK
  <2> QED BY <2>1 DEF DiskMirrors, Stored
<1> QED BY <1>1, <1>2, <1>3, <1>4 DEF MarkDead

\* Ageing an entry and ageing its row give the same row again.
LEMMA MirrorTick ==
  ASSUME TypeOK, DiskMirrors, Tick
  PROVE  DiskMirrors'
<1> SUFFICES ASSUME NEW k \in Key
             PROVE  disk'[k] = IF Stored(k)' THEN RowOf(peers'[k]) ELSE Absent
  BY DEF DiskMirrors
<1>1. CASE Stored(k)
  <2> DEFINE p == peers[k]  a == Older(p.age)
  <2>1. p \in PeerRec /\ disk[k] = RowOf(p)
    BY <1>1 DEF DiskMirrors, Stored, TypeOK
  <2>2. disk[k] \in Row /\ disk[k] # Absent
    BY <2>1, AbsentAssumption DEF RowOf, Row, PeerRec
  <2>3. peers'[k] = [p EXCEPT !.age = a]
    BY <1>1 DEF Tick
  <2>4. disk'[k] = [disk[k] EXCEPT !.age = a]
    BY <2>1, <2>2 DEF Tick, RowOf
  <2> HIDE DEF a
  <2>5. RowOf(peers'[k]) = [age |-> a, sources |-> p.sources, verified |-> p.verified]
    BY <2>1, <2>3 DEF RowOf, PeerRec
  <2>6. disk'[k] = [age |-> a, sources |-> p.sources, verified |-> p.verified]
    BY <2>1, <2>4 DEF RowOf, PeerRec
  <2>7. p # Absent /\ \E b \in Age : a = b
    <3>1. Older(p.age) \in Age
      BY <2>1, Consts DEF Older, Age, PeerRec
    <3> QED BY <2>1, <3>1, AbsentAssumption DEF a
  <2>8. peers'[k] \in PeerRec
    BY <2>1, <2>3, <2>7 DEF PeerRec
  <2>9. Stored(k)'
    BY <2>8, AbsentAssumption DEF Stored
  <2> QED BY <2>5, <2>6, <2>9
<1>2. CASE ~Stored(k)
  <2>1. disk[k] = Absent
    BY <1>2 DEF DiskMirrors
  <2> QED BY <1>2, <2>1 DEF Tick, Stored
<1> QED BY <1>1, <1>2

\* As long as database writes succeed and every key is an IPv4 endpoint, the
\* database holds exactly the persisted part of the table.
THEOREM DiskIsMirror ==
  ASSUME ~DbMayFail, Odd = {} PROVE Spec => []DiskMirrors
<1>1. Init => DiskMirrors
  BY DEF Init, DiskMirrors, Stored
<1>2. TypeOK /\ DiskMirrors /\ [Next]_vars => DiskMirrors'
  <2> SUFFICES ASSUME TypeOK, DiskMirrors, [Next]_vars
               PROVE  DiskMirrors'
    OBVIOUS
  <2>0. DbOutcome = {TRUE}
    BY DEF DbOutcome
  <2>1. ASSUME NEW k \in Key, Extract(k, TRUE)
        PROVE  DiskMirrors'
    <3> DEFINE in == [age |-> 0, sources |-> 1, verified |-> TRUE]
    <3>1. in \in Row
      BY Consts DEF Row, Age
    <3>2. AddPeer(k, in, Local, FALSE, FALSE, TRUE)
      BY <2>1 DEF Extract
    <3> HIDE DEF in
    <3> QED BY <3>1, <3>2, MirrorAddPeer
  <2>2. ASSUME NEW k \in Key, NEW s \in Source, NEW age \in Age,
               NEW c \in 0..MaxClaim, NEW nat \in BOOLEAN, NEW pub \in BOOLEAN,
               Report(k, s, age, c, nat, pub, TRUE)
        PROVE  DiskMirrors'
    <3> DEFINE in == [age |-> age, sources |-> c, verified |-> FALSE]
    <3>1. in \in Row
      BY Consts DEF Row
    <3>2. AddPeer(k, in, s, nat, pub, TRUE)
      BY <2>2 DEF Report
    <3> HIDE DEF in
    <3> QED BY <3>1, <3>2, MirrorAddPeer
  <2>3. ASSUME peers' = peers, disk' = disk
        PROVE  DiskMirrors'
    BY <2>3 DEF DiskMirrors, Stored
  <2>4. ASSUME NEW n \in Net, StartRound(n)
        PROVE  DiskMirrors'
    BY <2>3, <2>4 DEF StartRound, store
  <2>5. ASSUME NEW k \in Key, NEW o, Probe(k, o)
        PROVE  DiskMirrors'
    BY <2>3, <2>5 DEF Probe, store
  <2>6. ASSUME Prune(TRUE)
        PROVE  DiskMirrors'
    <3>1. peers' = [k \in Key |-> IF k \in StalePeers THEN Absent ELSE peers[k]]
      BY <2>6 DEF Prune
    <3>2. disk' = [k \in Key |-> IF k \in StalePeers THEN Absent ELSE disk[k]]
      BY <2>6 DEF Prune
    <3> QED BY <3>1, <3>2 DEF DiskMirrors, Stored
  <2>7. CASE Restart
    <3> SUFFICES ASSUME NEW k \in Key
                 PROVE  disk'[k] = IF Stored(k)' THEN RowOf(peers'[k]) ELSE Absent
      BY DEF DiskMirrors
    <3>1. CASE disk[k] = Absent
      BY <2>7, <3>1 DEF Restart, Stored
    <3>2. CASE disk[k] # Absent
      <4>1. disk[k] \in Row
        BY <3>2 DEF TypeOK
      <4>2. peers'[k] \in PeerRec /\ RowOf(peers'[k]) = disk[k]
        BY <2>7, <3>2, <4>1 DEF Restart, RowOf, Row, PeerRec
      <4> QED BY <2>7, <4>2, AbsentAssumption DEF Restart, Stored
    <3> QED BY <3>1, <3>2
  <2>8. CASE UNCHANGED vars
    BY <2>3, <2>8 DEF vars
  <2> QED
    BY <2>0, <2>1, <2>2, <2>4, <2>5, <2>6, <2>7, <2>8, MirrorVerdict, MirrorTick
       DEF Next, AnyReport
<1> QED BY <1>1, <1>2, TypeCorrect, PTL DEF Spec

\* Under the same conditions no network exceeds its cap; the database having
\* no rows the table lacks is what a restart needs.
THEOREM NetworkIsBounded ==
  ASSUME ~DbMayFail, Odd = {} PROVE Spec => []NetworkBound
<1>1. Init => NetworkBound
  <2>1. ASSUME Init, NEW n \in Net
        PROVE  Cardinality(InNet(n)) <= NetCap
    <3>1. InNet(n) = {}
      BY <2>1 DEF Init, InNet, Stored
    <3> QED BY <3>1, FS_EmptySet, Consts
  <2> QED BY <2>1 DEF NetworkBound
<1>2. TypeOK /\ DiskMirrors /\ NetworkBound /\ [Next]_vars => NetworkBound'
  <2> SUFFICES ASSUME TypeOK, DiskMirrors, NetworkBound, [Next]_vars, NEW n \in Net
               PROVE  Cardinality(InNet(n)') <= NetCap
    BY DEF NetworkBound
  <2>1. InNet(n) \in SUBSET Key /\ InNet(n)' \in SUBSET Key
    BY DEF InNet
  <2>2. Cardinality(InNet(n)) <= NetCap
    BY DEF NetworkBound
  <2>3. Cardinality(InNet(n)) \in Nat /\ Cardinality(InNet(n)') \in Nat
    BY <2>1, KeySets
  <2>4. ASSUME InNet(n)' \subseteq InNet(n)
        PROVE  Cardinality(InNet(n)') <= NetCap
    <3>1. Cardinality(InNet(n)') <= Cardinality(InNet(n))
      BY <2>1, <2>4, KeySets
    <3> QED BY <2>2, <2>3, <3>1, Consts
  <2>5. CASE KeepsSources
    BY <2>4, <2>5 DEF KeepsSources, InNet
  <2>6. CASE Restart
    BY <2>4, <2>6, Consts DEF Restart, InNet, Stored, DiskMirrors
  <2>7. CASE Inserts
    <3> PICK k \in Key, in \in Row, s \in Source \cup {Local},
             nat \in BOOLEAN, pub \in BOOLEAN, ok \in DbOutcome :
             AddNew(k, in, s, nat, pub, ok)
      BY <2>7 DEF Inserts
    <3>1. \A j \in Key \ {k} : peers'[j] = peers[j]
      BY DEF AddNew, HasRoom, TypeOK
    <3>2. CASE NetOf[k] = n
      <4>1. Cardinality(InNet(n)) < NetCap
        BY <3>2 DEF AddNew, HasRoom
      <4>2. InNet(n)' \subseteq InNet(n) \cup {k}
        BY <3>1 DEF InNet, Stored
      <4>3. Cardinality(InNet(n)') <= Cardinality(InNet(n)) + 1
        BY <2>1, <4>2, KeySets
      <4> QED BY <2>3, <4>1, <4>3, Consts
    <3>3. CASE NetOf[k] # n
      BY <2>4, <3>1, <3>3 DEF InNet, Stored
    <3> QED BY <3>2, <3>3
  <2> QED BY <2>5, <2>6, <2>7, StepShape
<1> QED BY <1>1, <1>2, TypeCorrect, DiskIsMirror, PTL DEF Spec

-----------------------------------------------------------------------------
(* Source counts stand for buckets this node saw                           *)

\* What an entry claims is backed by the vouchers seen for its key.
Backed(p, seen) ==
  /\ p.sources <= Cardinality(seen)
  /\ p.vch \subseteq seen
  /\ p.nat \cup p.pub \subseteq p.vch

\* A row must be backed too: a restart turns it into an entry.
Credible ==
  \A k \in Key :
    /\ Stored(k) => Backed(peers[k], reported[k])
    /\ disk[k] # Absent => disk[k].sources <= Cardinality(reported[k])

\* Sets of vouchers are finite; more of them count no less.
LEMMA VoucherSets ==
  \A A, B \in SUBSET Voucher :
    /\ Cardinality(A) \in Nat
    /\ A \subseteq B => Cardinality(A) <= Cardinality(B)
    /\ A # {} => Cardinality(A) >= 1
<1>1. IsFiniteSet(Voucher)
  BY Consts, FS_Singleton, FS_Union DEF Voucher
<1> SUFFICES ASSUME NEW A \in SUBSET Voucher, NEW B \in SUBSET Voucher
             PROVE  /\ Cardinality(A) \in Nat
                    /\ A \subseteq B => Cardinality(A) <= Cardinality(B)
                    /\ A # {} => Cardinality(A) >= 1
  OBVIOUS
<1>2. IsFiniteSet(A) /\ IsFiniteSet(B)
  BY <1>1, FS_Subset
<1>3. Cardinality(A) \in Nat
  BY <1>2, FS_CardinalityType
<1>4. A # {} => Cardinality(A) # 0
  BY <1>2, FS_EmptySet
<1> QED BY <1>2, <1>3, <1>4, FS_Subset

\* A new entry counts one source, whose voucher is now among those seen.
LEMMA FreshBacked ==
  ASSUME Vouchers, NEW in \in Row, NEW s \in Source \cup {Local},
         NEW nat \in BOOLEAN, NEW pub \in BOOLEAN,
         NEW seen \in SUBSET Voucher, VoucherOf(s) \in seen
  PROVE  Backed(Fresh(in, s, nat, pub), seen)
<1> PICK p : p = Fresh(in, s, nat, pub)
  OBVIOUS
<1>1. /\ p.sources = 1 /\ p.vch = {VoucherOf(s)}
      /\ p.nat \subseteq {VoucherOf(s)} /\ p.pub \subseteq {VoucherOf(s)}
  BY DEF Fresh
<1>2. Cardinality(seen) >= 1
  BY VoucherSets
<1> QED BY <1>1, <1>2 DEF Backed

\* A merge counts the vouchers of the entry, and adds only the one just seen.
LEMMA MergedBacked ==
  ASSUME Vouchers, NEW p \in PeerRec, NEW in \in Row, NEW s \in Source \cup {Local},
         NEW nat \in BOOLEAN, NEW pub \in BOOLEAN,
         NEW seen \in SUBSET Voucher, VoucherOf(s) \in seen, Backed(p, seen)
  PROVE  Backed(Merged(p, in, s, nat, pub), seen)
<1> PICK q : q = Merged(p, in, s, nat, pub)
  OBVIOUS
<1> PICK b : b = {VoucherOf(s)}
  OBVIOUS
<1> PICK vch : vch = IF s # Local THEN p.vch \cup b ELSE p.vch
  OBVIOUS
<1>1. /\ q.vch = vch /\ q.sources = Larger(1, Cardinality(vch))
      /\ q.nat = IF s # Local /\ nat THEN p.nat \cup b ELSE p.nat
      /\ q.pub = IF ~(s # Local /\ AnchorRead) THEN p.pub
                 ELSE IF pub THEN p.pub \cup b ELSE p.pub \ b
  BY DEF Merged, Counted
<1>2. p.vch \subseteq seen /\ p.nat \subseteq p.vch /\ p.pub \subseteq p.vch
  BY DEF Backed
<1>3. vch \subseteq seen /\ vch \in SUBSET Voucher
  BY <1>2
<1>4. Cardinality(vch) \in Nat /\ Cardinality(vch) <= Cardinality(seen)
  BY <1>3, VoucherSets
<1>5. Cardinality(seen) \in Nat /\ Cardinality(seen) >= 1
  BY VoucherSets
<1>6. q.sources <= Cardinality(seen)
  BY <1>1, <1>4, <1>5 DEF Larger
<1>7. q.nat \subseteq vch
  BY <1>1, <1>2
<1>8. q.pub \subseteq vch
  BY <1>1, <1>2
<1> QED BY <1>1, <1>3, <1>6, <1>7, <1>8 DEF Backed

\* A verdict adds no source.
LEMMA VerdictBacked ==
  ASSUME NEW p \in PeerRec, NEW seen \in SUBSET Voucher, Backed(p, seen)
  PROVE  Backed(Confirmed(p), seen) /\ Backed(Demoted(p), seen)
<1>1. Cardinality(seen) \in Nat
  BY VoucherSets
<1>2. p.sources \in Nat
  BY DEF PeerRec
<1>3. /\ Confirmed(p).sources = p.sources /\ Confirmed(p).vch = p.vch
      /\ Confirmed(p).nat = p.nat /\ Confirmed(p).pub = p.pub
  BY DEF Confirmed, PeerRec
<1>4. /\ Demoted(p).sources = Larger(0, p.sources - 1) /\ Demoted(p).vch = p.vch
      /\ Demoted(p).nat = p.nat /\ Demoted(p).pub = p.pub
  BY DEF Demoted, PeerRec
<1>5. Larger(0, p.sources - 1) <= Cardinality(seen)
  BY <1>1, <1>2 DEF Backed, Larger
<1> QED BY <1>3, <1>4, <1>5 DEF Backed

\* Saving a backed entry, while what was seen only grows.
LEMMA CredibleSave ==
  ASSUME TypeOK, Credible, NEW k \in Key, NEW p, NEW ok, Save(ok, k, p),
         peers' = [peers EXCEPT ![k] = p], Backed(p, reported'[k]),
         reported' \in [Key -> SUBSET Voucher],
         \A j \in Key : reported[j] \subseteq reported'[j]
  PROVE  Credible'
<1>1. \A j \in Key \ {k} : peers'[j] = peers[j] /\ disk'[j] = disk[j]
  BY DEF Save, TypeOK
<1>2. peers'[k] = p
  BY DEF TypeOK
<1>3. disk'[k] = disk[k] \/ disk'[k] = RowOf(p)
  BY DEF Save, TypeOK
<1>4. RowOf(p).sources = p.sources
  BY DEF RowOf
<1>5. \A j \in Key : /\ Cardinality(reported[j]) \in Nat /\ Cardinality(reported'[j]) \in Nat
                     /\ Cardinality(reported[j]) <= Cardinality(reported'[j])
  BY VoucherSets DEF TypeOK
<1>6. ASSUME NEW j \in Key, disk[j] # Absent
      PROVE  disk[j].sources <= Cardinality(reported'[j])
  <2>1. disk[j] \in Row
    BY <1>6 DEF TypeOK
  <2>2. disk[j].sources \in Nat /\ disk[j].sources <= Cardinality(reported[j])
    BY <1>6, <2>1 DEF Row, Credible
  <2> QED BY <1>5, <2>2
<1>7. ASSUME NEW j \in Key, Stored(j) PROVE Backed(peers[j], reported'[j])
  <2>1. peers[j] \in PeerRec
    BY <1>7 DEF Stored, TypeOK
  <2>2. peers[j].sources \in Nat /\ Backed(peers[j], reported[j])
    BY <1>7, <2>1 DEF PeerRec, Credible
  <2> QED BY <1>5, <2>2 DEF Backed
<1>8. ASSUME NEW j \in Key
      PROVE  /\ peers'[j] # Absent => Backed(peers'[j], reported'[j])
             /\ disk'[j] # Absent => disk'[j].sources <= Cardinality(reported'[j])
  <2>1. CASE j = k
    BY <1>2, <1>3, <1>4, <1>6, <2>1 DEF Backed
  <2>2. CASE j # k
    BY <1>1, <1>6, <1>7, <2>2 DEF Stored
  <2> QED BY <2>1, <2>2
<1> QED BY <1>8 DEF Credible, Stored

\* Dropping entries and rows, at most.
LEMMA CredibleShrink ==
  ASSUME Credible, reported' = reported,
         \A k \in Key : peers'[k] = peers[k] \/ peers'[k] = Absent,
         \A k \in Key : disk'[k] = disk[k] \/ disk'[k] = Absent
  PROVE  Credible'
  BY DEF Credible, Stored

\* add_peer sees the reporter before it counts it.
LEMMA CredibleAdd ==
  ASSUME Vouchers, TypeOK, Credible, NEW k \in Key, NEW in \in Row,
         NEW s \in Source \cup {Local}, NEW nat \in BOOLEAN, NEW pub \in BOOLEAN, NEW ok,
         AddPeer(k, in, s, nat, pub, ok)
  PROVE  Credible'
<1>1. VoucherOf(s) \in Voucher
  BY Consts DEF VoucherOf, Voucher
<1>2. PICK seen : seen = reported[k] \cup {VoucherOf(s)}
  OBVIOUS
<1>3. reported' = [reported EXCEPT ![k] = seen]
  BY <1>2 DEF AddPeer
<1>4. reported \in [Key -> SUBSET Voucher]
  BY DEF TypeOK
<1>5. seen \in SUBSET Voucher
  BY <1>1, <1>2, <1>4
<1>6. /\ reported' \in [Key -> SUBSET Voucher] /\ reported'[k] = seen
      /\ \A j \in Key : reported[j] \subseteq reported'[j]
  BY <1>2, <1>3, <1>4, <1>5
<1>7. CASE AddNew(k, in, s, nat, pub, ok)
  <2>1. PICK p : p = Fresh(in, s, nat, pub)
    OBVIOUS
  <2>2. Save(ok, k, p) /\ peers' = [peers EXCEPT ![k] = p]
    BY <1>7, <2>1 DEF AddNew, HasRoom
  <2>3. Backed(p, seen)
    BY <1>2, <1>5, <2>1, FreshBacked
  <2> QED BY <1>6, <2>2, <2>3, CredibleSave
<1>8. CASE AddExisting(k, in, s, nat, pub, ok)
  <2>1. PICK p : p = Merged(peers[k], in, s, nat, pub)
    OBVIOUS
  <2>2. Save(ok, k, p) /\ peers' = [peers EXCEPT ![k] = p] /\ Stored(k)
    BY <1>8, <2>1 DEF AddExisting
  <2>3. peers[k] \in PeerRec /\ Backed(peers[k], reported[k])
    BY <2>2 DEF Stored, TypeOK, Credible
  <2>4. Backed(peers[k], seen)
    <3>1. /\ Cardinality(reported[k]) \in Nat /\ Cardinality(seen) \in Nat
          /\ Cardinality(reported[k]) <= Cardinality(seen)
      BY <1>2, <1>4, <1>5, VoucherSets
    <3>2. peers[k].sources \in Nat
      BY <2>3 DEF PeerRec
    <3> QED BY <1>2, <2>3, <3>1, <3>2 DEF Backed
  <2>5. Backed(p, seen)
    BY <1>2, <1>5, <2>1, <2>3, <2>4, MergedBacked
  <2> QED BY <1>6, <2>2, <2>5, CredibleSave
<1> QED BY <1>7, <1>8 DEF AddPeer

\* A verdict of the verify loop.
LEMMA CredibleVerdict ==
  ASSUME TypeOK, Credible, NEW k \in Key, NEW ok,
         MarkVerified(k, ok) \/ MarkDead(k, ok)
  PROVE  Credible'
<1>1. reported' = reported
  BY DEF MarkVerified, MarkDead
<1>2. CASE ~Stored(k)
  <2>1. peers' = peers /\ disk' = disk
    BY <1>2 DEF MarkVerified, MarkDead, store
  <2> QED BY <1>1, <2>1, CredibleShrink
<1>3. CASE Stored(k)
  <2>1. /\ peers[k] \in PeerRec /\ Backed(peers[k], reported[k])
        /\ reported \in [Key -> SUBSET Voucher]
    BY <1>3 DEF Stored, TypeOK, Credible
  <2>2. Backed(Confirmed(peers[k]), reported[k]) /\ Backed(Demoted(peers[k]), reported[k])
    BY <2>1, VerdictBacked
  <2>3. ASSUME NEW p, Save(ok, k, p), peers' = [peers EXCEPT ![k] = p], Backed(p, reported[k])
        PROVE  Credible'
    BY <1>1, <2>1, <2>3, CredibleSave
  <2>4. CASE MarkVerified(k, ok)
    <3>1. Save(ok, k, Confirmed(peers[k])) /\ peers' = [peers EXCEPT ![k] = Confirmed(peers[k])]
      BY <1>3, <2>4 DEF MarkVerified
    <3> QED BY <2>2, <2>3, <3>1
  <2>5. CASE MarkDead(k, ok) /\ Demote(k, ok)
    <3>1. Save(ok, k, Demoted(peers[k])) /\ peers' = [peers EXCEPT ![k] = Demoted(peers[k])]
      BY <2>5 DEF Demote
    <3> QED BY <2>2, <2>3, <3>1
  <2>6. CASE Drop(k, ok)
    <3>1. \A j \in Key : /\ peers'[j] = peers[j] \/ peers'[j] = Absent
                         /\ disk'[j] = disk[j] \/ disk'[j] = Absent
      BY <2>6 DEF Drop, TypeOK
    <3> QED BY <1>1, <3>1, CredibleShrink
  <2> QED BY <1>3, <2>4, <2>5, <2>6 DEF MarkDead
<1> QED BY <1>2, <1>3

\* What a restart loads has the rows' counts and no vouchers.
LEMMA CredibleRestart ==
  ASSUME TypeOK, Credible, Restart
  PROVE  Credible'
<1>1. disk' = disk /\ reported' = reported
  BY DEF Restart
<1>2. ASSUME NEW k \in Key, peers'[k] # Absent PROVE Backed(peers'[k], reported[k])
  <2>1. disk[k] # Absent /\ peers'[k].sources = disk[k].sources /\ peers'[k].vch = {}
        /\ peers'[k].nat = {} /\ peers'[k].pub = {}
    BY <1>2 DEF Restart
  <2> QED BY <2>1 DEF Credible, Backed
<1> QED BY <1>1, <1>2 DEF Credible, Stored

LEMMA CredibleTick ==
  ASSUME TypeOK, Credible, Tick
  PROVE  Credible'
<1>1. reported' = reported
  BY DEF Tick
<1>2. ASSUME NEW k \in Key, peers'[k] # Absent PROVE Backed(peers'[k], reported[k])
  <2>1. Stored(k) /\ peers'[k] = [peers[k] EXCEPT !.age = Older(@)]
    BY <1>2 DEF Tick
  <2>2. peers[k] \in PeerRec
    BY <2>1 DEF Stored, TypeOK
  <2>3. /\ peers'[k].sources = peers[k].sources /\ peers'[k].vch = peers[k].vch
        /\ peers'[k].nat = peers[k].nat /\ peers'[k].pub = peers[k].pub
    BY <2>1, <2>2 DEF PeerRec
  <2> QED BY <2>1, <2>3 DEF Credible, Backed
<1>3. ASSUME NEW k \in Key, disk'[k] # Absent
      PROVE  disk'[k].sources <= Cardinality(reported[k])
  <2>1. disk[k] # Absent /\ disk'[k] = [disk[k] EXCEPT !.age = Older(@)]
    BY <1>3 DEF Tick
  <2>2. disk[k] \in Row
    BY <2>1 DEF TypeOK
  <2>3. disk'[k].sources = disk[k].sources
    BY <2>1, <2>2 DEF Row
  <2> QED BY <2>1, <2>3 DEF Credible
<1> QED BY <1>1, <1>2, <1>3 DEF Credible, Stored

\* Under --vouchers a source count is never more than the distinct buckets this
\* node saw report the peer, through merges, verdicts, prunings, restarts and
\* database writes that fail; the vouchers that rank first are among them.
THEOREM CountsAreObserved == Spec => []CredibilityObserved
<1> DEFINE C == Vouchers => Credible
<1>1. Init => C
  BY DEF Init, Credible, Stored
<1>2. TypeOK /\ C /\ [Next]_vars => C'
  <2> SUFFICES ASSUME Vouchers, TypeOK, Credible, [Next]_vars
               PROVE  Credible'
    BY Consts
  <2>1. ASSUME NEW k \in Key, NEW ok \in DbOutcome, Extract(k, ok)
        PROVE  Credible'
    <3>1. [age |-> 0, sources |-> 1, verified |-> TRUE] \in Row
      BY Consts DEF Row, Age
    <3> QED BY <2>1, <3>1, CredibleAdd DEF Extract
  <2>2. ASSUME NEW k \in Key, NEW s \in Source, NEW age \in Age, NEW c \in 0..MaxClaim,
               NEW nat \in BOOLEAN, NEW pub \in BOOLEAN, NEW ok \in DbOutcome,
               Report(k, s, age, c, nat, pub, ok)
        PROVE  Credible'
    <3>1. [age |-> age, sources |-> c, verified |-> FALSE] \in Row
      BY Consts DEF Row
    <3> QED BY <2>2, <3>1, CredibleAdd DEF Report
  <2>3. ASSUME NEW n \in Net, StartRound(n)
        PROVE  Credible'
    BY <2>3, CredibleShrink DEF StartRound, store
  <2>4. ASSUME NEW k \in Key, NEW o, Probe(k, o)
        PROVE  Credible'
    BY <2>4, CredibleShrink DEF Probe, store
  <2>5. ASSUME NEW ok, Prune(ok)
        PROVE  Credible'
    <3>1. \A k \in Key : peers'[k] = peers[k] \/ peers'[k] = Absent
      BY <2>5 DEF Prune
    <3>2. \A k \in Key : disk'[k] = disk[k] \/ disk'[k] = Absent
      <4>1. PICK gone : disk' = [k \in Key |-> IF k \in gone THEN Absent ELSE disk[k]]
        BY <2>5 DEF Prune
      <4> QED BY <4>1
    <3> QED BY <2>5, <3>1, <3>2, CredibleShrink DEF Prune
  <2>6. CASE UNCHANGED vars
    BY <2>6, CredibleShrink DEF vars
  <2> QED
    BY <2>1, <2>2, <2>3, <2>4, <2>5, <2>6, CredibleVerdict, CredibleRestart, CredibleTick
       DEF Next, AnyReport
<1>3. C => CredibilityObserved
  BY DEF Credible, Backed, CredibilityObserved
<1> HIDE DEF C
<1> QED BY <1>1, <1>2, <1>3, TypeCorrect, PTL DEF Spec
=============================================================================
