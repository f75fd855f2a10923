------------------------------ MODULE PeerTable ------------------------------
(***************************************************************************)
(* The peer side of one node's PeerStore: the table of daemon endpoints,   *)
(* its copy in SQLite, the dead-peer cooldown, the per-source acceptance   *)
(* caps, and the verify loop that probes the table and applies its         *)
(* verdicts later.  Every store method runs under one asyncio lock, so a   *)
(* method is one action; a probe awaits the network, so it is not.         *)
(*                                                                         *)
(* Time is kept as ages that saturate at MaxAge, above every threshold.    *)
(***************************************************************************)
EXTENDS Integers, FiniteSets

CONSTANTS
  Key,             \* peer keys, "network:addr:port"
  Net,             \* networks
  NetOf,           \* [Key -> Net]
  Source,          \* addresses of the transpeers that report peers
  Bucket,          \* diversity buckets (address prefixes)
  BucketOf,        \* [Source -> Bucket]
  Absent,          \* no entry
  Local,           \* source_addr = "": reported by the local daemon
  Reserved,        \* keys in reserved address space, never probed
  Odd,             \* keys whose address holds a ':' (an IPv6 daemon peer)
  Vouchers, NativeVouchers, AnchorRead,   \* command-line flags
  BaseCap,         \* BASE_PEERS_PER_SOURCE
  VerifyMin,       \* verdicts before a source is judged (10)
  AliveNum, AliveDen,                     \* VERIFY_THRESHOLD as a fraction
  NetCap,          \* MAX_PEERS_PER_NETWORK
  DeadMaxAge, Cooldown, PruneAge,         \* DEAD_PEER_MAX_AGE, ...
  MaxAge,          \* where ages saturate
  MaxClaim,        \* bound: largest `sources` claimed on the wire
  MaxCap,          \* bound: where a growing cap saturates
  MaxRestarts,     \* bound: restarts in a behaviour
  DbMayFail        \* may a database write raise?

Voucher == Bucket \cup {Local}          \* the code's "local" is Local here
TrustKey == Source \cup Bucket
Age == 0..MaxAge

PeerRec == [age : Age, sources : Nat, verified : BOOLEAN,
            src : Source \cup {Local}, vch : SUBSET Voucher,
            nat : SUBSET Voucher, pub : SUBSET Voucher]
Row == [age : Age, sources : Nat, verified : BOOLEAN]
TrustRec == [cap : Nat, accepted : Nat, alive : Nat, dead : Nat]

ASSUME ConstantsAssumption ==
  /\ IsFiniteSet(Key) /\ IsFiniteSet(Bucket)
  /\ NetOf \in [Key -> Net]
  /\ BucketOf \in [Source -> Bucket]
  /\ Local \notin Source \cup Bucket
  /\ Reserved \subseteq Key /\ Odd \subseteq Key
  /\ {Vouchers, NativeVouchers, AnchorRead, DbMayFail} \subseteq BOOLEAN
  /\ {BaseCap, VerifyMin, AliveNum, AliveDen, NetCap} \subseteq Nat \ {0}
  /\ {DeadMaxAge, Cooldown, PruneAge, MaxAge} \subseteq Nat
  /\ {MaxClaim, MaxCap, MaxRestarts} \subseteq Nat
  /\ BaseCap <= MaxCap
  /\ DeadMaxAge < MaxAge /\ Cooldown < MaxAge /\ PruneAge < MaxAge

ASSUME AbsentAssumption ==
  /\ Absent \notin PeerRec
  /\ Absent \notin Row
  /\ Absent \notin Nat

VARIABLES
  peers,     \* _peers
  disk,      \* the rows of the peers table
  trust,     \* _source_trust (a missing key is the default record)
  cool,      \* _dead_peers: time since the peer was declared dead
  probe,     \* what the verify round in progress knows of each key
  restarts,  \* restarts so far
  reported,  \* history: vouchers this node has seen for each key
  proven     \* history: keys probed alive, or listed by the local daemon

store == <<peers, disk, trust, cool>>
vars == <<peers, disk, trust, cool, probe, restarts, reported, proven>>

-----------------------------------------------------------------------------
Stored(k) == peers[k] # Absent
InNet(n) == {k \in Key : Stored(k) /\ NetOf[k] = n}
CoolingDown(k) == cool[k] # Absent /\ cool[k] < Cooldown
TrustKeyOf(s) == IF Vouchers THEN BucketOf[s] ELSE s
From(t) == {k \in Key : /\ Stored(k)
                        /\ peers[k].src # Local
                        /\ TrustKeyOf(peers[k].src) = t}

Larger(a, b) == IF a > b THEN a ELSE b
Smaller(a, b) == IF a < b THEN a ELSE b
Older(a) == IF a < MaxAge THEN a + 1 ELSE a
RowOf(p) == [age |-> p.age, sources |-> p.sources, verified |-> p.verified]

\* add_peer's cap: it binds new entries of remote sources only.
HasRoomInclusive(s) ==
  s # Local => trust[TrustKeyOf(s)].accepted <= trust[TrustKeyOf(s)].cap
HasRoom(s) ==
  s # Local => trust[TrustKeyOf(s)].accepted < trust[TrustKeyOf(s)].cap

NewTrust == [cap |-> BaseCap, accepted |-> 0, alive |-> 0, dead |-> 0]
Judged(t) == t.alive + t.dead >= VerifyMin
Reliable(t) == t.alive * AliveDen >= AliveNum * (t.alive + t.dead)
ResetAll(t, cap) == [t EXCEPT !.cap = cap, !.accepted = 0, !.alive = 0, !.dead = 0]
Reset(t, cap) == [t EXCEPT !.cap = cap, !.alive = 0, !.dead = 0]
MaybeExpand(t) ==
  IF Judged(t) /\ Reliable(t) THEN Reset(t, Smaller(t.cap + BaseCap, MaxCap)) ELSE t
MaybeContract(t) ==
  IF Judged(t) /\ ~Reliable(t) THEN Reset(t, BaseCap) ELSE t

\* A verdict on a peer is charged to the source that supplied its entry.
CreditAlive(t) == MaybeExpand([t EXCEPT !.alive = @ + 1])
CreditDead(t) == MaybeContract([t EXCEPT !.dead = @ + 1])
Charge(p, verdict) ==
  IF p.src = Local THEN trust
  ELSE [trust EXCEPT ![TrustKeyOf(p.src)] =
          IF verdict = "alive" THEN CreditAlive(@) ELSE CreditDead(@)]

\* A write either reaches the disk or raises after memory was changed.
DbOutcome == IF DbMayFail THEN BOOLEAN ELSE {TRUE}
Save(ok, k, p) ==
  disk' = IF ok THEN [disk EXCEPT ![k] = RowOf(p)] ELSE disk

Init ==
  /\ peers = [k \in Key |-> Absent]
  /\ disk = [k \in Key |-> Absent]
  /\ trust = [t \in TrustKey |-> NewTrust]
  /\ cool = [k \in Key |-> Absent]
  /\ probe = [k \in Key |-> "none"]
  /\ restarts = 0
  /\ reported = [k \in Key |-> {}]
  /\ proven = {}

-----------------------------------------------------------------------------
(* add_peer: `in` is the reported entry, nat and pub the store's view of   *)
(* the reporter (_source_is_native, _source_is_published).                 *)

VoucherOf(s) == IF s = Local THEN Local ELSE BucketOf[s]

Fresh(in, s, nat, pub) ==
  LET b == {VoucherOf(s)} IN
  [age |-> in.age, verified |-> in.verified, src |-> s,
   sources |-> IF Vouchers THEN 1 ELSE in.sources,
   vch |-> IF Vouchers THEN b ELSE {},
   nat |-> IF Vouchers /\ (s = Local \/ nat) THEN b ELSE {},
   pub |-> IF Vouchers /\ s # Local /\ pub THEN b ELSE {}]

CountedReports(p, in, vch) ==
  IF Vouchers THEN p.sources + 1 ELSE Larger(p.sources, in.sources)
Counted(p, in, vch) ==
  IF Vouchers THEN Larger(1, Cardinality(vch)) ELSE Larger(p.sources, in.sources)

Merged(p, in, s, nat, pub) ==
  LET b == {VoucherOf(s)}
      vch == IF Vouchers /\ s # Local THEN p.vch \cup b ELSE p.vch
  IN [age |-> Smaller(p.age, in.age), verified |-> p.verified, src |-> p.src,
      sources |-> Counted(p, in, vch), vch |-> vch,
      nat |-> IF Vouchers /\ s # Local /\ nat THEN p.nat \cup b ELSE p.nat,
      pub |-> IF ~(Vouchers /\ s # Local /\ AnchorRead) THEN p.pub
              ELSE IF pub THEN p.pub \cup b ELSE p.pub \ b]

AddNew(k, in, s, nat, pub, ok) ==
  LET p == Fresh(in, s, nat, pub) IN
  /\ ~Stored(k)
  /\ HasRoom(s)
  /\ Cardinality(InNet(NetOf[k])) < NetCap
  /\ peers' = [peers EXCEPT ![k] = p]
  /\ Save(ok, k, p)
  /\ trust' = IF s # Local /\ ok
              THEN [trust EXCEPT ![TrustKeyOf(s)].accepted = @ + 1]
              ELSE trust

AddExisting(k, in, s, nat, pub, ok) ==
  LET p == Merged(peers[k], in, s, nat, pub) IN
  /\ Stored(k)
  /\ peers' = [peers EXCEPT ![k] = p]
  /\ Save(ok, k, p)
  /\ UNCHANGED trust

AddPeerHot(k, in, s, nat, pub, ok) ==
  /\ AddNew(k, in, s, nat, pub, ok) \/ AddExisting(k, in, s, nat, pub, ok)
  /\ UNCHANGED <<cool, probe, restarts, reported>>

AddPeer(k, in, s, nat, pub, ok) ==
  /\ ~CoolingDown(k)
  /\ \/ AddNew(k, in, s, nat, pub, ok)
     \/ AddExisting(k, in, s, nat, pub, ok)
  /\ reported' = IF Vouchers
                 THEN [reported EXCEPT ![k] = @ \cup {VoucherOf(s)}]
                 ELSE reported
  /\ UNCHANGED <<cool, probe, restarts>>

\* The extract loop stores what the local daemon lists.
Extract(k, ok) ==
  /\ AddPeer(k, [age |-> 0, sources |-> 1, verified |-> TRUE],
             Local, FALSE, FALSE, ok)
  /\ proven' = proven \cup {k}

ReportTrusted(k, s, age, sources, nat, pub, ok) ==
  /\ AddPeer(k, [age |-> age, sources |-> sources, verified |-> TRUE],
             s, nat, pub, ok)
  /\ UNCHANGED proven

\* The query loop stores what a transpeer reports; the wire carries no
\* verified flag, and only literal IPv4 addresses pass.
Report(k, s, age, sources, nat, pub, ok) ==
  /\ k \notin Odd
  /\ nat => NativeVouchers
  /\ pub => AnchorRead
  /\ AddPeer(k, [age |-> age, sources |-> sources, verified |-> FALSE],
             s, nat, pub, ok)
  /\ UNCHANGED proven

-----------------------------------------------------------------------------
(* The verify loop: a snapshot of one network's keys, concurrent probes,   *)
(* and a verdict applied by key whenever its probe returns.                *)

StartRound(n) ==
  /\ \A k \in Key : probe[k] = "none"
  /\ InNet(n) # {}
  /\ probe' = [k \in Key |-> IF k \in InNet(n) THEN "queued" ELSE "none"]
  /\ UNCHANGED <<store, restarts, reported, proven>>

Probe(k, outcome) ==
  /\ probe[k] = "queued"
  /\ k \in Reserved => outcome = "dead"
  /\ probe' = [probe EXCEPT ![k] = outcome]
  /\ UNCHANGED <<store, restarts, reported, proven>>

ConfirmedAgeOnly(p) == [p EXCEPT !.age = 0]
Confirmed(p) == [p EXCEPT !.verified = TRUE, !.age = 0]
DemotedStillServed(p) == [p EXCEPT !.sources = Larger(0, @ - 1)]
Demoted(p) == [p EXCEPT !.verified = FALSE, !.sources = Larger(0, @ - 1)]

MarkVerified(k, ok) ==
  LET p == Confirmed(peers[k]) IN
  /\ probe[k] = "alive"
  /\ probe' = [probe EXCEPT ![k] = "none"]
  /\ IF ~Stored(k) THEN UNCHANGED <<peers, disk, trust>>
     ELSE /\ peers' = [peers EXCEPT ![k] = p]
          /\ Save(ok, k, p)
          /\ trust' = IF ok THEN Charge(p, "alive") ELSE trust
  /\ proven' = proven \cup {k}
  /\ UNCHANGED <<cool, restarts, reported>>

\* A peer verified before loses a source and its flag; any other is dropped.
Demote(k, ok) ==
  LET p == Demoted(peers[k]) IN
  /\ peers' = [peers EXCEPT ![k] = p]
  /\ Save(ok, k, p)
  /\ UNCHANGED cool

DropInMemory(k, ok) ==
  /\ peers' = [peers EXCEPT ![k] = Absent]
  /\ cool' = [cool EXCEPT ![k] = 0]
  /\ UNCHANGED disk

Drop(k, ok) ==
  /\ peers' = [peers EXCEPT ![k] = Absent]
  /\ cool' = [cool EXCEPT ![k] = 0]
  /\ disk' = IF ok THEN [disk EXCEPT ![k] = Absent] ELSE disk

MarkDead(k, ok) ==
  /\ probe[k] = "dead"
  /\ probe' = [probe EXCEPT ![k] = "none"]
  /\ IF ~Stored(k) THEN UNCHANGED store
     ELSE /\ trust' = Charge(peers[k], "dead")
          /\ IF peers[k].verified THEN Demote(k, ok) ELSE Drop(k, ok)
  /\ UNCHANGED <<restarts, reported, proven>>

-----------------------------------------------------------------------------
StalePeers ==
  {k \in Key : /\ Stored(k)
               /\ \/ peers[k].age > PruneAge /\ peers[k].sources <= 0
                  \/ ~peers[k].verified /\ peers[k].age > DeadMaxAge}

\* prune_stale: memory first, then one transaction.  Splitting an Odd key on
\* ':' raises part-way, when only some of the deletes have been issued.
Prune(ok) ==
  /\ peers' = [k \in Key |-> IF k \in StalePeers THEN Absent ELSE peers[k]]
  /\ cool' = [k \in Key |-> IF cool[k] # Absent /\ cool[k] > Cooldown
                            THEN Absent ELSE cool[k]]
  /\ \E gone \in IF ~ok THEN {{}}
                 ELSE IF StalePeers \cap Odd = {} THEN {StalePeers}
                 ELSE SUBSET (StalePeers \ Odd) :
       disk' = [k \in Key |-> IF k \in gone THEN Absent ELSE disk[k]]
  /\ UNCHANGED <<trust, probe, restarts, reported, proven>>

\* _load: only the rows come back.
Restart ==
  /\ restarts < MaxRestarts
  /\ restarts' = restarts + 1
  /\ peers' = [k \in Key |->
       IF disk[k] = Absent THEN Absent
       ELSE [age |-> disk[k].age, sources |-> disk[k].sources,
             verified |-> disk[k].verified, src |-> Local,
             vch |-> {}, nat |-> {}, pub |-> {}]]
  /\ trust' = [t \in TrustKey |-> NewTrust]
  /\ cool' = [k \in Key |-> Absent]
  /\ probe' = [k \in Key |-> "none"]
  /\ UNCHANGED <<disk, reported, proven>>

Tick ==
  /\ peers' = [k \in Key |-> IF Stored(k)
                 THEN [peers[k] EXCEPT !.age = Older(@)] ELSE Absent]
  /\ disk' = [k \in Key |-> IF disk[k] # Absent
                 THEN [disk[k] EXCEPT !.age = Older(@)] ELSE Absent]
  /\ cool' = [k \in Key |-> IF cool[k] # Absent THEN Older(cool[k]) ELSE Absent]
  /\ UNCHANGED <<trust, probe, restarts, reported, proven>>

AnyReport ==
  \E k \in Key, s \in Source, age \in Age, c \in 0..MaxClaim,
     nat, pub \in BOOLEAN, ok \in DbOutcome : Report(k, s, age, c, nat, pub, ok)

Next ==
  \/ \E k \in Key, ok \in DbOutcome : Extract(k, ok)
  \/ AnyReport
  \/ \E n \in Net : StartRound(n)
  \/ \E k \in Key, outcome \in {"alive", "dead"} : Probe(k, outcome)
  \/ \E k \in Key, ok \in DbOutcome : MarkVerified(k, ok)
  \/ \E k \in Key, ok \in DbOutcome : MarkDead(k, ok)
  \/ \E ok \in DbOutcome : Prune(ok)
  \/ Restart
  \/ Tick

Spec == Init /\ [][Next]_vars

\* The verify loop never stops: it starts rounds, its probes time out, its
\* verdicts are applied.  Rounds visit the networks in turn.
FairSpec ==
  /\ Spec
  /\ \A n \in Net : SF_vars(StartRound(n))
  /\ \A k \in Key : WF_vars(Probe(k, "alive") \/ Probe(k, "dead"))
  /\ \A k \in Key : WF_vars(MarkVerified(k, TRUE) \/ MarkDead(k, TRUE))

-----------------------------------------------------------------------------
(* Properties                                                              *)

Served(k) == Stored(k) /\ peers[k].verified

\* Every variable has its type.
TypeOK ==
  /\ peers \in [Key -> PeerRec \cup {Absent}]
  /\ disk \in [Key -> Row \cup {Absent}]
  /\ trust \in [TrustKey -> TrustRec]
  /\ cool \in [Key -> Age \cup {Absent}]
  /\ probe \in [Key -> {"none", "queued", "alive", "dead"}]
  /\ restarts \in 0..MaxRestarts
  /\ reported \in [Key -> SUBSET Voucher]
  /\ proven \subseteq Key

\* What the table holds from one trust key never exceeds what that key has
\* been charged for, whatever verdicts, merges, prunings and restarts did in
\* between (add_peer counts an entry after it has stored and saved it).
FloodBound == \A t \in TrustKey : Cardinality(From(t)) <= trust[t].accepted

\* Whenever the share of one trust key in the table grows, it stays within
\* the cap its verified peers have earned at that moment.
GrowthWithinCap ==
  [][\A t \in TrustKey :
       Cardinality(From(t)') > Cardinality(From(t))
         => Cardinality(From(t)') <= trust[t].cap]_vars

\* A network never holds more than MAX_PEERS_PER_NETWORK peers, also after
\* a restart has loaded the rows of the database without checking the cap.
NetworkBound == \A n \in Net : Cardinality(InNet(n)) <= NetCap

\* The database holds the persisted part of the table and nothing else: no
\* deleted peer can come back, and no stored one is lost, by a restart.
DiskMirrors ==
  \A k \in Key : disk[k] = IF Stored(k) THEN RowOf(peers[k]) ELSE Absent

\* A peer declared dead is not back in the table before its cooldown is over,
\* whoever reports it.
NotWhileCooling == \A k \in Key : Stored(k) => ~CoolingDown(k)

\* /peers/{network} serves only what the local daemon listed or this node's
\* own probe reached, never a remote's word alone; the flag survives merges,
\* late verdicts and restarts.
ServedWasProven ==
  \A k \in Key : /\ Served(k) => k \in proven
                 /\ disk[k] # Absent /\ disk[k].verified => k \in proven

\* Under --vouchers a peer's source count is at most the number of distinct
\* buckets this node itself saw report it, and the vouchers that rank first
\* (native, published) are among its vouchers.
CredibilityObserved ==
  \A k \in Key : Vouchers /\ Stored(k) =>
    /\ peers[k].sources <= Cardinality(reported[k])
    /\ peers[k].vch \subseteq reported[k]
    /\ peers[k].nat \cup peers[k].pub \subseteq peers[k].vch

\* A peer that no probe reaches any more and that the local daemon does not
\* list is in the end no longer served, however often others report it.
DeadEventuallyUnserved ==
  \A k \in Key :
    <>[][probe'[k] # "alive" /\ \A ok \in DbOutcome : ~Extract(k, ok)]_vars
      => <>[]~Served(k)

\* A stored peer whose probes succeed is served, or is dropped first.
LiveEventuallyServed ==
  \A k \in Key :
    <>[][probe'[k] # "dead"]_vars
      => [](Stored(k) => <>(Served(k) \/ ~Stored(k)))
=============================================================================
