-------------------------- MODULE VenueSharesProofs --------------------------
(* Proofs about VenueShares, for every venue and every limit: types, that the *)
(* observer's requests get the answers meant for them, that the reader fills  *)
(* in the fork of its tip only, and that no sync ends below an earlier one.   *)
EXTENDS VenueShares, FiniteSetTheorems, WellFoundedInduction, TLAPS

\* The assumptions on the constants, one by one.
LEMMA VConsts ==
  /\ Share \subseteq Nat /\ 0 \notin Share
  /\ \A s \in Share : Parent[s] \in Share \cup {0}
  /\ MaxWalk \in Nat /\ LeafBudget \in Nat /\ MaxBatches \in Nat
  /\ None \notin Cycle /\ None \notin Share
  BY ShareAssumption, LimitAssumption, NoneAssumption

\* A queue of one request.
LEMMA One ==
  ASSUME NEW x, NEW y
  PROVE  /\ <<x>> # <<>> /\ Head(<<x>>) = x /\ Tail(<<x>>) = <<>>
         /\ Append(<<>>, y) = <<y>> /\ Append(Tail(<<x>>), y) = <<y>>
  OBVIOUS

\* One request is a queue of requests, as is none.
LEMMA OneIsSeq ==
  ASSUME NEW x \in {0} \cup Share
  PROVE  <<x>> \in Seq({0} \cup Share) /\ <<>> \in Seq({0} \cup Share)
  OBVIOUS

\* What P2Pool has yet to answer is what the client waits for.
SameQueue == wire = pending

\* The inductive invariant.
VInv == TypeOK /\ SameQueue

\* The parts of TypeOK that each side leaves to the other.
VenueOK ==
  /\ tagged \cup remote \cup store \subseteq venue /\ venue \subseteq Share
  /\ \A s \in venue : Parent[s] # 0 => Parent[s] \in venue
ObserverOK ==
  /\ link \in {"down", "up"} /\ obs \in Cycle \cup {None}
  /\ obs = None => pending = <<>>
  /\ obs # None => pending = <<obs.id>> /\ obs.id \in venue \cup {0}
  /\ wire \in Seq({0} \cup Share)
ReaderOK ==
  rd \in [phase : Phase, left : SUBSET tagged, tip : store \cup {None},
          budget : 0..LeafBudget, batches : 0..MaxBatches, chain : {rd.chain}]

\* A request of a cycle is asked and waits.
LEMMA Asked ==
  ASSUME VenueOK', link' \in {"down", "up"}, NEW id \in venue' \cup {0}, NEW walked \in 0..MaxWalk,
         obs' = [id |-> id, walked |-> walked], pending' = <<id>>, wire' = <<id>>
  PROVE  ObserverOK' /\ SameQueue'
<1>1. id \in {0} \cup Share
  BY DEF VenueOK
<1>2. obs' \in Cycle /\ obs'.id = id
  BY <1>1 DEF Cycle
<1> QED BY <1>1, <1>2, OneIsSeq, VConsts DEF ObserverOK, SameQueue

\* Nothing is asked, nothing waits.
LEMMA NotAsked ==
  ASSUME link' \in {"down", "up"}, obs' = None, pending' = <<>>, wire' = <<>>
  PROVE  ObserverOK' /\ SameQueue'
  BY OneIsSeq DEF ObserverOK, SameQueue

\* An answer ends the cycle, or is followed by the request for the parent.
LEMMA FollowOK ==
  ASSUME VInv, NEW s \in venue, obs # None, Follow(s, obs.walked), VenueOK', UNCHANGED <<venue, link>>
  PROVE  ObserverOK' /\ SameQueue'
<1>1. pending = <<obs.id>> /\ wire = <<obs.id>> /\ obs.walked \in 0..MaxWalk /\ link \in {"down", "up"}
  BY DEF VInv, TypeOK, SameQueue, Cycle
<1>2. CASE EndCycle
  <2>1. obs' = None /\ pending' = <<>> /\ wire' = <<>>
    BY <1>1, <1>2, One DEF EndCycle
  <2> QED BY <1>1, <2>1, NotAsked
<1>3. CASE obs.walked < MaxWalk /\ Unknown(Parent[s]) /\ Ask(Parent[s], obs.walked + 1)
  <2>1. Parent[s] \in venue
    BY <1>3 DEF Unknown, VInv, TypeOK
  <2>2. obs.walked + 1 \in 0..MaxWalk
    BY <1>1, <1>3, VConsts
  <2>3. /\ obs' = [id |-> Parent[s], walked |-> obs.walked + 1]
        /\ pending' = <<Parent[s]>> /\ wire' = <<Parent[s]>>
    BY <1>1, <1>3, One DEF Ask
  <2> QED BY <1>1, <2>1, <2>2, <2>3, Asked
<1> QED BY <1>2, <1>3 DEF Follow

\* Every step of the observer keeps what it asked for and what waits together.
LEMMA ObserverStep ==
  ASSUME VInv,
         \/ Connect \/ AskTip \/ ReceiveNothing \/ TimeOut
         \/ \E s \in Share : Receive(s) \/ Broadcast(s)
  PROVE  VInv'
<1>1. VenueOK' /\ ReaderOK'
  <2>1. /\ UNCHANGED <<outside, rd>>
        /\ store' = store \/ \E s \in venue : store' = store \cup {s}
    <3>1. CASE Connect \/ AskTip \/ ReceiveNothing \/ TimeOut
      BY <3>1 DEF Connect, AskTip, ReceiveNothing, TimeOut
    <3>2. CASE \E s \in Share : Broadcast(s)
      BY <3>2 DEF Broadcast
    <3>3. CASE \E s \in Share : Receive(s)
      <4>1. PICK s \in Share : Receive(s)
        BY <3>3
      <4>2. wire = <<obs.id>> /\ obs.id \in venue \cup {0}
        BY <4>1 DEF Receive, VInv, TypeOK, SameQueue
      <4>3. s \in venue
        BY <4>1, <4>2, One DEF Receive, Answers
      <4> QED BY <4>1, <4>3 DEF Receive
    <3> QED BY <3>1, <3>2, <3>3
  <2>2. VenueOK'
    BY <2>1 DEF VenueOK, VInv, TypeOK, outside
  <2>3. store \subseteq store'
    BY <2>1
  <2> QED BY <2>1, <2>2, <2>3 DEF ReaderOK, VInv, TypeOK, outside
<1>2. ObserverOK' /\ SameQueue'
  <2>1. CASE Connect
    BY <2>1, NotAsked DEF Connect
  <2>2. CASE AskTip
    <3>1. pending = <<>> /\ wire = <<>> /\ 0 \in 0..MaxWalk
      BY <2>2, VConsts DEF AskTip, VInv, TypeOK, SameQueue
    <3>2. pending' = <<0>> /\ wire' = <<0>> /\ obs' = [id |-> 0, walked |-> 0] /\ link' = "up"
      BY <2>2, <3>1, One DEF AskTip
    <3> QED BY <1>1, <3>1, <3>2, Asked
  <2>3. CASE ReceiveNothing
    <3>1. obs # None /\ link' = "up"
      BY <2>3 DEF ReceiveNothing, VInv, TypeOK
    <3>2. pending = <<obs.id>> /\ wire = <<obs.id>>
      BY <3>1 DEF VInv, TypeOK, SameQueue
    <3>3. obs' = None /\ pending' = <<>> /\ wire' = <<>>
      BY <2>3, <3>2, One DEF ReceiveNothing, EndCycle
    <3> QED BY <3>1, <3>3, NotAsked
  <2>4. CASE TimeOut
    <3>1. pending = <<obs.id>>
      BY <2>4 DEF TimeOut, VInv, TypeOK
    <3>2. obs' = None /\ pending' = <<>> /\ wire' = <<>> /\ link' = "down"
      BY <2>4, <3>1, One DEF TimeOut
    <3> QED BY <3>2, NotAsked
  <2>5. CASE \E s \in Share : Broadcast(s)
    BY <2>5 DEF Broadcast, observer, outside, ObserverOK, SameQueue, VInv, TypeOK
  <2>6. CASE \E s \in Share : Receive(s)
    <3>1. PICK s \in Share : Receive(s)
      BY <2>6
    <3>2. obs # None
      BY <3>1 DEF Receive, VInv, TypeOK
    <3>3. wire = <<obs.id>> /\ obs.id \in venue \cup {0}
      BY <3>2 DEF VInv, TypeOK, SameQueue
    <3>4. s \in venue /\ UNCHANGED <<venue, link>> /\ Follow(s, obs.walked)
      BY <3>1, <3>3, One DEF Receive, Answers, outside
    <3> QED BY <1>1, <3>2, <3>4, FollowOK
  <2> QED BY <2>1, <2>2, <2>3, <2>4, <2>5, <2>6
<1> QED BY <1>1, <1>2 DEF VInv, TypeOK, VenueOK, ObserverOK, ReaderOK

\* The world outside finds shares and serves them.
LEMMA OutsideStep ==
  ASSUME VInv, NEW s \in Share, Mine(s) \/ Serve(s)
  PROVE  VInv'
<1>1. VenueOK'
  <2>1. CASE Mine(s)
    BY <2>1, VConsts DEF Mine, VenueOK, VInv, TypeOK
  <2>2. CASE Serve(s)
    BY <2>2 DEF Serve, VenueOK, VInv, TypeOK
  <2> QED BY <2>1, <2>2
<1>2. venue \subseteq venue' /\ tagged \subseteq tagged' /\ UNCHANGED <<store, observer, rd>>
  BY DEF Mine, Serve
<1>3. ReaderOK'
  BY <1>2 DEF ReaderOK, VInv, TypeOK
<1>4. ObserverOK' /\ SameQueue'
  BY <1>2 DEF ObserverOK, SameQueue, observer, VInv, TypeOK
<1> QED BY <1>1, <1>3, <1>4 DEF VInv, TypeOK, VenueOK, ObserverOK, ReaderOK

-----------------------------------------------------------------------------
\* The records a sync may be in, with the chain it has walked.
Syncs(left, tips, chain) ==
  [phase : Phase, left : left, tip : tips,
   budget : 0..LeafBudget, batches : 0..MaxBatches, chain : {chain}]

\* Between two syncs.
LEMMA IdleIsSync ==
  ASSUME NEW L, NEW T
  PROVE  Idle \in Syncs(SUBSET L, T \cup {None}, Idle.chain)
  BY VConsts DEF Idle, Syncs, Phase

\* A leaf is resolved, with or without a fetch that is paid for.
LEMMA ResolvedIsSync ==
  ASSUME NEW L, NEW T, NEW chain, NEW r \in Syncs(SUBSET L, T \cup {None}, chain), NEW s \in T
  PROVE  /\ Resolved(r, s) \in Syncs(SUBSET L, T \cup {None}, chain)
         /\ Resolved(r, s).chain = chain /\ Resolved(r, s).budget = r.budget
<1> DEFINE tip == IF r.tip = None THEN s ELSE r.tip
           less == r.left \ {s}
<1>1. tip \in T \cup {None} /\ less \in SUBSET L
  BY DEF Syncs
<1>2. Resolved(r, s) = [r EXCEPT !.left = less, !.tip = tip]
  BY DEF Resolved
<1> HIDE DEF tip, less
<1> DEFINE new == [r EXCEPT !.left = less, !.tip = tip]
<1>3. new \in Syncs(SUBSET L, T \cup {None}, chain) /\ new.chain = chain /\ new.budget = r.budget
  BY <1>1 DEF Syncs
<1> QED BY <1>2, <1>3

LEMMA SpentIsSync ==
  ASSUME NEW left, NEW tips, NEW chain, NEW r \in Syncs(left, tips, chain), r.budget > 0
  PROVE  Spent(r) \in Syncs(left, tips, chain)
<1>1. r.budget - 1 \in 0..LeafBudget
  BY VConsts DEF Syncs
<1> QED BY <1>1 DEF Spent, Syncs

\* A leaf is given up.
LEMMA LessIsSync ==
  ASSUME NEW L, NEW tips, NEW chain, NEW r \in Syncs(SUBSET L, tips, chain), NEW s
  PROVE  [r EXCEPT !.left = @ \ {s}] \in Syncs(SUBSET L, tips, chain)
<1>1. r.left \ {s} \in SUBSET L
  BY DEF Syncs
<1> QED BY <1>1 DEF Syncs

\* The walks of step 4.
LEMMA WalkIsSync ==
  ASSUME NEW left, NEW tips, NEW chain, NEW r \in Syncs(left, tips, chain), NEW w
  PROVE  /\ [r EXCEPT !.phase = "chain", !.chain = w] \in Syncs(left, tips, w)
         /\ r.batches < MaxBatches =>
              [r EXCEPT !.batches = @ + 1, !.chain = w] \in Syncs(left, tips, w)
<1>1. [r EXCEPT !.phase = "chain", !.chain = w] \in Syncs(left, tips, w)
  BY DEF Syncs, Phase
<1>2. ASSUME r.batches < MaxBatches
      PROVE  [r EXCEPT !.batches = @ + 1, !.chain = w] \in Syncs(left, tips, w)
  <2>1. r.batches + 1 \in 0..MaxBatches
    BY <1>2, VConsts DEF Syncs
  <2> QED BY <2>1 DEF Syncs
<1> QED BY <1>1, <1>2

\* A sync's new state and a store that did not shrink: the reader's types hold.
LEMMA SyncOK ==
  ASSUME NEW chain, rd' \in Syncs(SUBSET tagged, store' \cup {None}, chain), UNCHANGED tagged
  PROVE  ReaderOK'
<1>1. rd'.chain = chain
  BY DEF Syncs
<1> QED BY <1>1 DEF ReaderOK, Syncs

\* The steps of the reader leave venue and observer alone, and add only shares
\* of the venue.
LEMMA ReaderStep ==
  ASSUME VInv, Progress \/ LeafFetched \/ FetchBatch
  PROVE  VInv'
<1>1. rd \in Syncs(SUBSET tagged, store \cup {None}, rd.chain)
  BY DEF VInv, TypeOK, Syncs
<1>2. UNCHANGED <<outside, observer>> /\ store' \subseteq venue
  BY DEF Progress, StartSync, LeafHeld, LeafMissed, StartWalk, FinishSync, LeafFetched,
         FetchBatch, outside, VInv, TypeOK
<1>3. ReaderOK'
  <2>1. CASE StartSync
    <3>1. LeafBudget \in 0..LeafBudget /\ 0 \in 0..MaxBatches
      BY VConsts
    <3>2. rd' \in Syncs(SUBSET tagged, store' \cup {None}, {})
      BY <2>1, <3>1 DEF StartSync, Syncs, Phase
    <3> QED BY <1>2, <3>2, SyncOK DEF outside
  <2>2. CASE LeafHeld
    <3>1. PICK s \in store : rd' = Resolved(rd, s) /\ store' = store
      BY <2>2 DEF LeafHeld
    <3>2. rd' \in Syncs(SUBSET tagged, store' \cup {None}, rd.chain)
      BY <1>1, <3>1, ResolvedIsSync
    <3> QED BY <1>2, <3>2, SyncOK DEF outside
  <2>3. CASE LeafFetched
    <3>1. PICK s : rd' = Spent(Resolved(rd, s)) /\ store' = store \cup {s} /\ rd.budget > 0
      BY <2>3 DEF LeafFetched
    <3>2. rd \in Syncs(SUBSET tagged, store' \cup {None}, rd.chain)
      BY <1>1, <3>1 DEF Syncs
    <3>3. s \in store'
      BY <3>1
    <3>4. /\ Resolved(rd, s) \in Syncs(SUBSET tagged, store' \cup {None}, rd.chain)
          /\ Resolved(rd, s).budget = rd.budget
      <4>1. PICK T : T = store'
        OBVIOUS
      <4>2. rd \in Syncs(SUBSET tagged, T \cup {None}, rd.chain) /\ s \in T
        BY <3>2, <3>3, <4>1
      <4>3. /\ Resolved(rd, s) \in Syncs(SUBSET tagged, T \cup {None}, rd.chain)
            /\ Resolved(rd, s).budget = rd.budget
        BY <4>2, ResolvedIsSync
      <4> QED BY <4>1, <4>3
    <3>5. rd' \in Syncs(SUBSET tagged, store' \cup {None}, rd.chain)
      BY <3>1, <3>4, SpentIsSync
    <3> QED BY <1>2, <3>5, SyncOK DEF outside
  <2>4. CASE LeafMissed
    <3>1. PICK s : /\ store' = store
                   /\ rd' = IF rd.budget > 0 THEN Spent([rd EXCEPT !.left = @ \ {s}])
                            ELSE [rd EXCEPT !.left = @ \ {s}]
      BY <2>4 DEF LeafMissed
    <3> DEFINE next == [rd EXCEPT !.left = @ \ {s}]
    <3>2. next \in Syncs(SUBSET tagged, store' \cup {None}, rd.chain)
      BY <1>1, <3>1, LessIsSync
    <3>3. next.budget = rd.budget
      BY <1>1 DEF Syncs
    <3> HIDE DEF next
    <3>4. rd.budget > 0 => Spent(next) \in Syncs(SUBSET tagged, store' \cup {None}, rd.chain)
      BY <3>2, <3>3, SpentIsSync
    <3>5. rd' \in Syncs(SUBSET tagged, store' \cup {None}, rd.chain)
      BY <3>1, <3>2, <3>4 DEF next
    <3> QED BY <1>2, <3>5, SyncOK DEF outside
  <2>5. CASE StartWalk
    <3> DEFINE w == Walk(store, rd.tip, Window)
    <3>1. store' = store /\ (rd' = Idle \/ rd' = [rd EXCEPT !.phase = "chain", !.chain = w])
      BY <2>5 DEF StartWalk
    <3> HIDE DEF w
    <3>2. [rd EXCEPT !.phase = "chain", !.chain = w] \in Syncs(SUBSET tagged, store \cup {None}, w)
      BY <1>1, WalkIsSync
    <3>3. Idle \in Syncs(SUBSET tagged, store \cup {None}, Idle.chain)
      BY IdleIsSync
    <3>4. CASE rd' = Idle
      BY <1>2, <3>1, <3>3, <3>4, SyncOK DEF outside
    <3>5. CASE rd' = [rd EXCEPT !.phase = "chain", !.chain = w]
      BY <1>2, <3>1, <3>2, <3>5, SyncOK DEF outside
    <3> QED BY <3>1, <3>4, <3>5
  <2>6. CASE FetchBatch
    <3> DEFINE w == Walk(store', rd.tip, Window)
    <3>1. /\ rd' = [rd EXCEPT !.batches = @ + 1, !.chain = w]
          /\ rd.batches < MaxBatches /\ store \subseteq store'
      BY <2>6 DEF FetchBatch, MayFetch
    <3> HIDE DEF w
    <3>2. rd \in Syncs(SUBSET tagged, store' \cup {None}, rd.chain)
      BY <1>1, <3>1 DEF Syncs
    <3>3. rd' \in Syncs(SUBSET tagged, store' \cup {None}, w)
      BY <3>1, <3>2, WalkIsSync
    <3> QED BY <1>2, <3>3, SyncOK DEF outside
  <2>7. CASE FinishSync
    <3>1. rd' = Idle
      BY <2>7 DEF FinishSync
    <3>2. Idle \in Syncs(SUBSET tagged, store' \cup {None}, Idle.chain)
      BY IdleIsSync
    <3> QED BY <1>2, <3>1, <3>2, SyncOK DEF outside
  <2> QED BY <2>1, <2>2, <2>3, <2>4, <2>5, <2>6, <2>7 DEF Progress
<1>4. VenueOK'
  BY <1>2 DEF VenueOK, VInv, TypeOK, outside
<1>5. ObserverOK' /\ SameQueue'
  BY <1>2 DEF ObserverOK, SameQueue, observer, outside, VInv, TypeOK
<1> QED BY <1>3, <1>4, <1>5 DEF VInv, TypeOK, VenueOK, ObserverOK, ReaderOK

\* At the start there is nothing, and afterwards every step keeps VInv.
LEMMA InitVInv == Init => VInv
<1> SUFFICES ASSUME Init PROVE VInv
  OBVIOUS
<1>1. rd \in Syncs(SUBSET tagged, store \cup {None}, rd.chain)
  BY IdleIsSync DEF Init
<1>2. wire \in Seq({0} \cup Share) /\ wire = pending /\ pending = <<>>
  BY DEF Init
<1> QED BY <1>1, <1>2 DEF Init, VInv, TypeOK, SameQueue, Syncs

LEMMA NextVInv == VInv /\ [Next]_vars => VInv'
<1> SUFFICES ASSUME VInv, [Next]_vars PROVE VInv'
  OBVIOUS
<1>1. CASE \E s \in Share : Mine(s) \/ Serve(s)
  BY <1>1, OutsideStep
<1>2. CASE \/ Connect \/ AskTip \/ ReceiveNothing \/ TimeOut
           \/ \E s \in Share : Receive(s) \/ Broadcast(s)
  BY <1>2, ObserverStep
<1>3. CASE Progress \/ LeafFetched \/ FetchBatch
  BY <1>3, ReaderStep
<1>4. CASE UNCHANGED vars
  BY <1>4 DEF vars, outside, observer, VInv, TypeOK, SameQueue
<1> QED BY <1>1, <1>2, <1>3, <1>4 DEF Next

\* Every variable keeps its type, for any venue and any limits: the store holds
\* shares of the venue only, whoever filled it, and a sync stays in its budget.
THEOREM TypeCorrect == Spec => []TypeOK
<1>1. VInv => TypeOK
  BY DEF VInv
<1> QED BY <1>1, InitVInv, NextVInv, PTL DEF Spec

\* Whatever times out, is lost or is answered with nothing, an answer is never
\* handed to a request it was not meant for.
THEOREM PairingHolds == Spec => []AnswersMatch
<1>1. VInv => AnswersMatch
  BY DEF VInv, SameQueue, AnswersMatch
<1> QED BY <1>1, InitVInv, NextVInv, PTL DEF Spec

-----------------------------------------------------------------------------
(* Chains of shares *)

\* Every set of natural numbers with an element has a least one.
LEMMA NatMin ==
  ASSUME NEW S \in SUBSET Nat, S # {}
  PROVE  \E n \in S : \A m \in S : n <= m
<1> DEFINE R == OpToRel(<, Nat)
<1>1. IsWellFoundedOn(R, Nat)
  BY NatLessThanWellFounded
<1> HIDE DEF R
<1>2. PICK x \in S : \A y \in S : ~(<<y, x>> \in R)
  BY <1>1, WFMin
<1>3. ASSUME NEW y \in S PROVE x <= y
  <2>1. x \in Nat /\ y \in Nat
    OBVIOUS
  <2>2. ~(y < x)
    BY <1>2, <2>1 DEF R, OpToRel
  <2> QED BY <2>1, <2>2
<1> QED BY <1>3

\* A finite set of natural numbers with an element has a greatest one: the one
\* with the fewest above it.
LEMMA NatMax ==
  ASSUME NEW S \in SUBSET Nat, S # {}, IsFiniteSet(S)
  PROVE  \E n \in S : \A m \in S : m <= n
<1> DEFINE Above(x) == {y \in S : y > x}
           Sizes == {Cardinality(Above(x)) : x \in S}
<1>1. \A x \in S : IsFiniteSet(Above(x)) /\ Cardinality(Above(x)) \in Nat
  BY FS_Subset, FS_CardinalityType
<1>2. Sizes \in SUBSET Nat /\ Sizes # {}
  BY <1>1
<1>3. PICK k \in Sizes : \A m \in Sizes : k <= m
  <2> HIDE DEF Sizes
  <2> QED BY <1>2, NatMin
<1>4. PICK x \in S : k = Cardinality(Above(x))
  OBVIOUS
<1>5. ASSUME NEW y \in S, ~(y <= x) PROVE FALSE
  <2>1. x \in Nat /\ y \in Nat /\ y > x /\ S \subseteq Nat
    BY <1>5
  <2> PICK U, V : U = Above(y) /\ V = Above(x)
    OBVIOUS
  <2>2. U \subseteq V
    <3>1. ASSUME NEW z \in U PROVE z \in V
      <4>1. z \in S /\ z > y /\ z \in Nat
        BY <2>1, <3>1
      <4>2. z > x
        BY <2>1, <4>1
      <4> QED BY <4>1, <4>2
    <3> QED BY <3>1
  <2>3. y \in V /\ y \notin U
    BY <2>1
  <2>4. IsFiniteSet(V) /\ Cardinality(V) \in Nat /\ Cardinality(U) \in Nat
    BY <1>1
  <2>5. Cardinality(V) <= Cardinality(U)
    BY <1>3, <1>4
  <2> HIDE DEF Above, Sizes
  <2>6. Cardinality(U) <= Cardinality(V) /\ Cardinality(U) # Cardinality(V)
    BY <2>2, <2>3, <2>4, FS_Subset
  <2> QED BY <2>4, <2>5, <2>6
<1> QED BY <1>5

\* A set that contains the parents of its members.
Closed(C) == \A x \in C : Parent[x] # 0 => Parent[x] \in C

\* The recursion of Anc has a solution, the least closed set around each share;
\* so Anc is one.
LEMMA AncEquation ==
  ASSUME NEW s \in Share
  PROVE  /\ Parent[s] = 0 => Anc[s] = {s}
         /\ Parent[s] # 0 => Anc[s] = {s} \cup Anc[Parent[s]]
<1> DEFINE G == [x \in Share |-> {a \in Share : \A C \in SUBSET Share : x \in C /\ Closed(C) => a \in C}]
           Up(f, x) == {x} \cup (IF Parent[x] = 0 THEN {} ELSE f[Parent[x]])
<1>1. ASSUME NEW x \in Share PROVE G[x] = Up(G, x)
  <2>1. CASE Parent[x] = 0
    <3>1. {x} \in SUBSET Share /\ Closed({x})
      BY <2>1 DEF Closed
    <3>2. G[x] \subseteq {x}
      BY <3>1
    <3>3. x \in G[x]
      OBVIOUS
    <3> QED BY <2>1, <3>2, <3>3
  <2>2. CASE Parent[x] # 0
    <3>1. Parent[x] \in Share
      BY <2>2, VConsts
    <3>2. G[x] \subseteq {x} \cup G[Parent[x]]
      <4>1. SUFFICES ASSUME NEW a \in Share, a # x, a \in G[x], NEW C \in SUBSET Share,
                            Parent[x] \in C, Closed(C)
                     PROVE  a \in C
        BY <3>1
      <4>2. C \cup {x} \in SUBSET Share /\ Closed(C \cup {x})
        BY <4>1 DEF Closed
      <4> QED BY <4>1, <4>2
    <3>3. x \in G[x]
      OBVIOUS
    <3>4. G[Parent[x]] \subseteq G[x]
      BY <2>2, <3>1 DEF Closed
    <3> QED BY <2>2, <3>2, <3>3, <3>4
  <2> QED BY <2>1, <2>2
<1>2. G = [x \in Share |-> Up(G, x)]
  BY <1>1
<1>3. Anc = CHOOSE f : f = [x \in Share |-> Up(f, x)]
  BY DEF Anc
<1> HIDE DEF G
<1>4. Anc = [x \in Share |-> Up(Anc, x)]
  BY <1>2, <1>3
<1> QED BY <1>4

\* What is known of the ancestors of one share.
Ancestral(s) ==
  /\ s \in Anc[s] /\ Anc[s] \subseteq Share
  /\ \A a \in Anc[s] : a <= s /\ Anc[a] \subseteq Anc[s]

\* Ancestors are shares, none above their descendant, and theirs are its own:
\* a least share of which this were false would have a parent it holds for.
LEMMA Ancestors == \A s \in Share : Ancestral(s)
<1> SUFFICES ASSUME \E s \in Share : ~Ancestral(s) PROVE FALSE
  OBVIOUS
<1> DEFINE B == {s \in Share : ~Ancestral(s)}
<1>1. B \in SUBSET Nat /\ B # {}
  BY VConsts
<1>2. PICK s \in B : \A m \in B : s <= m
  <2> HIDE DEF B
  <2> QED BY <1>1, NatMin
<1>3. s \in Share /\ s \in Nat
  BY VConsts
<1>4. CASE Parent[s] = 0
  BY <1>3, <1>4, AncEquation DEF Ancestral
<1>5. CASE Parent[s] # 0
  <2> DEFINE p == Parent[s]
  <2>1. p \in Share /\ p < s /\ p \in Nat
    BY <1>3, <1>5, ShareAssumption
  <2>2. p \notin B
    BY <1>2, <1>3, <2>1
  <2>3. Ancestral(p)
    BY <2>1, <2>2
  <2>4. Anc[s] = {s} \cup Anc[p]
    BY <1>3, <1>5, AncEquation
  <2> HIDE DEF p
  <2>5. \A a \in Anc[p] : a <= s
    <3>1. \A a \in Anc[p] : a <= p /\ a \in Nat
      BY <2>3, VConsts DEF Ancestral
    <3> QED BY <1>3, <2>1, <3>1
  <2>6. Ancestral(s)
    BY <1>3, <2>3, <2>4, <2>5 DEF Ancestral
  <2> QED BY <2>6
<1> QED BY <1>4, <1>5

\* The newest of some shares is one of them, and none is above it.
LEMMA NewestIs ==
  ASSUME NEW S \in SUBSET Share, S # {}
  PROVE  Newest(S) \in S /\ \A o \in S : o <= Newest(S)
<1>1. IsFiniteSet(S) /\ S \in SUBSET Nat
  BY ShareAssumption, FS_Subset
<1>2. \E s \in S : \A o \in S : o <= s
  BY <1>1, NatMax
<1> QED BY <1>2 DEF Newest

\* What a walk finds are ancestors of the share it starts from, itself first.
LEMMA WalkShape ==
  ASSUME NEW S, NEW s \in Share, NEW n \in Nat \ {0}
  PROVE  Walk(S, s, n) \subseteq Anc[s] /\ (s \in S => s \in Walk(S, s, n))
<1>1. Ancestral(s)
  BY Ancestors
<1>2. {x \in Anc[s] : s \in Anc[x]} = {s}
  <2>1. ASSUME NEW x \in Anc[s], s \in Anc[x] PROVE x = s
    <3>1. x \in Share /\ x <= s
      BY <1>1 DEF Ancestral
    <3>2. s <= x
      BY <2>1, <3>1, Ancestors DEF Ancestral
    <3> QED BY <3>1, <3>2, VConsts
  <2> QED BY <1>1, <2>1 DEF Ancestral
<1>3. Cardinality({s}) = 1 /\ 1 <= n
  BY FS_Singleton
<1>4. Walk(S, s, n) \subseteq Anc[s]
  BY DEF Walk
<1>5. ASSUME s \in S PROVE s \in Walk(S, s, n)
  <2> DEFINE path == {x \in Anc[s] : s \in Anc[x]}
  <2>1. path = {s}
    BY <1>2
  <2> HIDE DEF path
  <2>2. path \subseteq S /\ Cardinality(path) <= n
    BY <1>3, <1>5, <2>1
  <2> QED BY <1>1, <2>2 DEF Walk, Ancestral, path
<1> QED BY <1>4, <1>5

\* A chain has an oldest share: its parent is not in it.
LEMMA OldestIs ==
  ASSUME NEW C \in SUBSET Share, C # {}
  PROVE  Oldest(C) \in C /\ Parent[Oldest(C)] \notin C
<1>1. C \in SUBSET Nat
  BY VConsts
<1>2. PICK m \in C : \A x \in C : m <= x
  BY <1>1, NatMin
<1>3. m \in Share /\ m \in Nat /\ Parent[m] < m
  BY <1>1, <1>2, ShareAssumption
<1>4. Parent[m] \notin C
  <2>1. Parent[m] \in Nat
    BY <1>3, VConsts, 0 \in Nat
  <2>2. ~(m <= Parent[m])
    BY <1>3, <2>1
  <2> QED BY <1>2, <2>2
<1> QED BY <1>4 DEF Oldest

\* The missing parent of a walk is an ancestor of its tip, and so are its own.
LEMMA MissingIsAncestor ==
  ASSUME NEW t \in Share, NEW C \in SUBSET Anc[t], C # {}, Parent[Oldest(C)] # 0
  PROVE  /\ Parent[Oldest(C)] \in Share
         /\ Anc[Parent[Oldest(C)]] \subseteq Anc[t]
<1>1. Anc[t] \subseteq Share /\ Ancestral(t)
  BY Ancestors DEF Ancestral
<1>2. Oldest(C) \in C /\ Oldest(C) \in Anc[t] /\ Oldest(C) \in Share
  BY <1>1, OldestIs
<1> DEFINE o == Oldest(C)
<1> HIDE DEF o
<1>3. o \in Anc[t] /\ o \in Share /\ Parent[o] # 0
  BY <1>2 DEF o
<1>4. Parent[o] \in Share
  BY <1>3, VConsts
<1>5. Anc[Parent[o]] \subseteq Anc[o] /\ Anc[o] \subseteq Anc[t]
  BY <1>1, <1>3, AncEquation DEF Ancestral
<1> QED BY <1>4, <1>5 DEF o

\* The newest share of a walk is the one it starts from.
LEMMA NewestOfWalk ==
  ASSUME NEW t \in Share, NEW C \in SUBSET Anc[t], t \in C
  PROVE  Newest(C) = t
<1>1. C \in SUBSET Share /\ \A o \in C : o <= t
  BY Ancestors DEF Ancestral
<1>2. Newest(C) \in C /\ \A o \in C : o <= Newest(C)
  BY <1>1, NewestIs
<1>3. Newest(C) <= t /\ t <= Newest(C) /\ Newest(C) \in Share
  BY <1>1, <1>2
<1> PICK n : n = Newest(C)
  OBVIOUS
<1>4. n \in Nat /\ t \in Nat /\ n <= t /\ t <= n
  BY <1>3, VConsts
<1> QED BY <1>4

\* A share is so many shares above the first.
LEMMA HeightIsNat ==
  ASSUME NEW s \in Share
  PROVE  Height(s) \in Nat
<1>1. Anc[s] \in SUBSET Share
  BY Ancestors DEF Ancestral
<1>2. IsFiniteSet(Anc[s])
  BY <1>1, ShareAssumption, FS_Subset
<1> QED BY <1>2, FS_CardinalityType DEF Height

-----------------------------------------------------------------------------
(* The reader's tip *)

\* The canonical tip is held, and no sync under way will end below it.
TipInv ==
  /\ rd.tip # None => rd.tip \in tagged
  /\ canon # {} => Newest(canon) \in tagged \cap store
  /\ rd.phase = "leaves" /\ canon # {} =>
       IF rd.tip = None THEN Newest(canon) \in rd.left ELSE Newest(canon) <= rd.tip
  /\ rd.phase = "chain" /\ canon # {} => Newest(canon) <= rd.tip

\* What the walk has found are ancestors of its tip, the tip among them.
WalkInv ==
  rd.phase = "chain" => rd.tip # None /\ rd.tip \in rd.chain /\ rd.chain \subseteq Anc[rd.tip]

\* The fields of a sync after each of its steps.
LEMMA ResolvedFields ==
  ASSUME NEW left, NEW tips, NEW chain, NEW r \in Syncs(left, tips, chain), NEW s
  PROVE  /\ Resolved(r, s).phase = r.phase /\ Resolved(r, s).left = r.left \ {s}
         /\ r.tip = None => Resolved(r, s).tip = s
         /\ r.tip # None => Resolved(r, s).tip = r.tip
<1> DEFINE tip == IF r.tip = None THEN s ELSE r.tip
           less == r.left \ {s}
<1>1. Resolved(r, s) = [r EXCEPT !.left = less, !.tip = tip]
  BY DEF Resolved
<1> HIDE DEF tip, less
<1>2. /\ Resolved(r, s).phase = r.phase /\ Resolved(r, s).left = less
      /\ Resolved(r, s).tip = tip
  BY <1>1 DEF Syncs
<1> QED BY <1>2 DEF tip, less

LEMMA SpentFields ==
  ASSUME NEW left, NEW tips, NEW chain, NEW r \in Syncs(left, tips, chain)
  PROVE  Spent(r).phase = r.phase /\ Spent(r).left = r.left /\ Spent(r).tip = r.tip
  BY DEF Spent, Syncs

LEMMA LessFields ==
  ASSUME NEW left, NEW tips, NEW chain, NEW r \in Syncs(left, tips, chain), NEW s
  PROVE  /\ [r EXCEPT !.left = @ \ {s}].phase = r.phase
         /\ [r EXCEPT !.left = @ \ {s}].left = r.left \ {s}
         /\ [r EXCEPT !.left = @ \ {s}].tip = r.tip
  BY DEF Syncs

LEMMA WalkFields ==
  ASSUME NEW left, NEW tips, NEW chain, NEW r \in Syncs(left, tips, chain), NEW w
  PROVE  /\ [r EXCEPT !.phase = "chain", !.chain = w].phase = "chain"
         /\ [r EXCEPT !.phase = "chain", !.chain = w].tip = r.tip
         /\ [r EXCEPT !.phase = "chain", !.chain = w].chain = w
         /\ [r EXCEPT !.batches = @ + 1, !.chain = w].phase = r.phase
         /\ [r EXCEPT !.batches = @ + 1, !.chain = w].tip = r.tip
         /\ [r EXCEPT !.batches = @ + 1, !.chain = w].chain = w
  BY DEF Syncs

\* The inductive invariant of the reader.
RInv == VInv /\ TipInv /\ WalkInv

\* No tip and no chain is disturbed by what leaves the sync alone, as long as
\* nothing is lost.
LEMMA OthersKeepTip ==
  ASSUME RInv, UNCHANGED <<rd, canon>>, tagged \subseteq tagged', store \subseteq store'
  PROVE  TipInv' /\ WalkInv'
  BY DEF RInv, TipInv, WalkInv

\* What the sync has of the venue's shares.
LEMMA SyncParts ==
  ASSUME RInv
  PROVE  /\ rd \in Syncs(SUBSET tagged, store \cup {None}, rd.chain)
         /\ tagged \subseteq Share /\ store \subseteq Share /\ rd.left \subseteq tagged
         /\ rd.tip = None \/ rd.tip \in store
         /\ rd.left # {} => Newest(rd.left) \in rd.left /\ \A o \in rd.left : o <= Newest(rd.left)
<1>1. rd \in Syncs(SUBSET tagged, store \cup {None}, rd.chain)
  BY DEF RInv, VInv, TypeOK, Syncs
<1>2. tagged \subseteq Share /\ store \subseteq Share
  BY DEF RInv, VInv, TypeOK
<1>3. rd.left \subseteq tagged /\ (rd.tip = None \/ rd.tip \in store)
  BY <1>1 DEF Syncs
<1> QED BY <1>1, <1>2, <1>3, NewestIs

\* The newest block left is resolved: no resolved one is above it.
LEMMA ResolvedKeepsTip ==
  ASSUME RInv, rd.phase = "leaves", rd.left # {}, UNCHANGED <<tagged, canon>>, store \subseteq store',
         NEW s, s = Newest(rd.left),
         rd'.phase = "leaves", rd'.left = rd.left \ {s},
         rd.tip = None => rd'.tip = s, rd.tip # None => rd'.tip = rd.tip
  PROVE  TipInv' /\ WalkInv'
<1>1. s \in rd.left /\ \A o \in rd.left : o <= s
  BY SyncParts
<1>2. s \in tagged /\ s # None
  BY <1>1, SyncParts, VConsts
<1>3. WalkInv'
  BY DEF WalkInv
<1>4. ASSUME rd.tip = None PROVE TipInv'
  BY <1>1, <1>2, <1>4 DEF RInv, TipInv
<1>5. ASSUME rd.tip # None PROVE TipInv'
  BY <1>2, <1>5 DEF RInv, TipInv
<1> QED BY <1>3, <1>4, <1>5

\* A step of the reader keeps the canonical tip and ends below none.
LEMMA ReaderKeepsTip ==
  ASSUME RInv, Progress \/ LeafFetched \/ FetchBatch
  PROVE  TipInv' /\ WalkInv'
<1>0. rd \in Syncs(SUBSET tagged, store \cup {None}, rd.chain)
  BY SyncParts
<1>1. CASE StartSync
  <2>1. rd'.phase = "leaves" /\ rd'.left = tagged /\ rd'.tip = None
    BY <1>1 DEF StartSync
  <2>2. UNCHANGED <<tagged, store, canon>>
    BY <1>1 DEF StartSync, outside
  <2> QED BY <2>1, <2>2 DEF RInv, TipInv, WalkInv
<1>2. CASE LeafHeld
  <2>1. PICK s : /\ s = Newest(rd.left) /\ s \in store /\ rd' = Resolved(rd, s)
                 /\ UNCHANGED <<tagged, store, canon>> /\ rd.phase = "leaves" /\ rd.left # {}
    BY <1>2 DEF LeafHeld, outside
  <2>2. /\ rd'.phase = "leaves" /\ rd'.left = rd.left \ {s}
        /\ rd.tip = None => rd'.tip = s
        /\ rd.tip # None => rd'.tip = rd.tip
    BY <1>0, <2>1, ResolvedFields
  <2> QED BY <2>1, <2>2, ResolvedKeepsTip
<1>3. CASE LeafFetched
  <2>1. PICK s : /\ s = Newest(rd.left) /\ rd' = Spent(Resolved(rd, s)) /\ store' = store \cup {s}
                 /\ s \in remote
                 /\ UNCHANGED <<tagged, canon>> /\ rd.phase = "leaves" /\ rd.left # {}
    BY <1>3 DEF LeafFetched, outside
  <2>2. /\ Resolved(rd, s).phase = "leaves" /\ Resolved(rd, s).left = rd.left \ {s}
        /\ rd.tip = None => Resolved(rd, s).tip = s
        /\ rd.tip # None => Resolved(rd, s).tip = rd.tip
    BY <1>0, <2>1, ResolvedFields
  <2>3. Resolved(rd, s) \in Syncs(SUBSET tagged, (store \cup {s}) \cup {None}, rd.chain)
    <3>1. rd \in Syncs(SUBSET tagged, (store \cup {s}) \cup {None}, rd.chain)
      BY <1>0 DEF Syncs
    <3> QED BY <3>1, ResolvedIsSync
  <2>4. rd'.phase = "leaves" /\ rd'.left = Resolved(rd, s).left /\ rd'.tip = Resolved(rd, s).tip
    BY <2>1, <2>2, <2>3, SpentFields
  <2> QED BY <2>1, <2>2, <2>4, ResolvedKeepsTip
<1>4. CASE LeafMissed
  <2>1. PICK s : /\ s = Newest(rd.left) /\ s \notin store
                 /\ UNCHANGED <<tagged, store, canon>> /\ rd.phase = "leaves" /\ rd.left # {}
                 /\ rd' = IF rd.budget > 0 THEN Spent([rd EXCEPT !.left = @ \ {s}])
                          ELSE [rd EXCEPT !.left = @ \ {s}]
    BY <1>4 DEF LeafMissed, outside
  <2> DEFINE next == [rd EXCEPT !.left = @ \ {s}]
  <2>2. next.phase = "leaves" /\ next.left = rd.left \ {s} /\ next.tip = rd.tip
    BY <1>0, <2>1, LessFields
  <2>3. next \in Syncs(SUBSET tagged, store \cup {None}, rd.chain)
    BY <1>0, LessIsSync
  <2> HIDE DEF next
  <2>4. /\ Spent(next).phase = "leaves" /\ Spent(next).left = rd.left \ {s}
        /\ Spent(next).tip = rd.tip
    BY <2>2, <2>3, SpentFields
  <2>5. rd' = Spent(next) \/ rd' = next
    BY <2>1 DEF next
  <2>6. rd'.phase = "leaves" /\ rd'.left = rd.left \ {s} /\ rd'.tip = rd.tip
    BY <2>2, <2>4, <2>5
  <2>7. canon # {} => Newest(canon) # s
    BY <2>1 DEF RInv, TipInv
  <2> QED BY <2>1, <2>6, <2>7 DEF RInv, TipInv, WalkInv
<1>5. CASE StartWalk
  <2> DEFINE w == Walk(store, rd.tip, Window)
  <2>1. /\ rd.phase = "leaves" /\ rd.left = {} /\ UNCHANGED <<tagged, store, canon>>
        /\ rd.tip = None => rd' = Idle
        /\ rd.tip # None => rd' = [rd EXCEPT !.phase = "chain", !.chain = w]
    BY <1>5 DEF StartWalk, outside
  <2>2. CASE rd.tip = None
    <3>1. rd'.phase = "idle" /\ rd'.tip = None
      BY <2>1, <2>2 DEF Idle
    <3> QED BY <2>1, <3>1 DEF RInv, TipInv, WalkInv
  <2>3. CASE rd.tip # None
    <3>1. rd.tip \in store /\ rd.tip \in Share
      BY <2>3, SyncParts
    <3>2. rd.tip \in w /\ w \subseteq Anc[rd.tip]
      BY <3>1, WalkShape, LimitAssumption
    <3> HIDE DEF w
    <3>0. rd' = [rd EXCEPT !.phase = "chain", !.chain = w]
      BY <2>1, <2>3
    <3>3. rd'.phase = "chain" /\ rd'.tip = rd.tip /\ rd'.chain = w
      BY <1>0, <3>0, WalkFields
    <3> QED BY <2>1, <2>3, <3>2, <3>3 DEF RInv, TipInv, WalkInv
  <2> QED BY <2>2, <2>3
<1>6. CASE FetchBatch
  <2> DEFINE w == Walk(store', rd.tip, Window)
  <2>1. /\ rd.phase = "chain" /\ UNCHANGED <<tagged, canon>> /\ store \subseteq store'
        /\ rd' = [rd EXCEPT !.batches = @ + 1, !.chain = w]
    BY <1>6 DEF FetchBatch, MayFetch, outside
  <2>2. rd.tip # None
    BY <2>1 DEF RInv, WalkInv
  <2>3. rd.tip \in store' /\ rd.tip \in Share
    BY <2>1, <2>2, SyncParts
  <2>4. rd.tip \in w /\ w \subseteq Anc[rd.tip]
    <3> PICK S : S = store'
      OBVIOUS
    <3>1. rd.tip \in Walk(S, rd.tip, Window) /\ Walk(S, rd.tip, Window) \subseteq Anc[rd.tip]
      BY <2>3, WalkShape, LimitAssumption
    <3> QED BY <3>1
  <2> HIDE DEF w
  <2>5. rd'.phase = "chain" /\ rd'.tip = rd.tip /\ rd'.chain = w
    BY <1>0, <2>1, WalkFields
  <2> QED BY <2>1, <2>2, <2>4, <2>5 DEF RInv, TipInv, WalkInv
<1>7. CASE FinishSync
  <2>1. /\ rd.phase = "chain" /\ canon' = rd.chain /\ store' = store \ Old(rd.tip)
        /\ rd' = Idle /\ tagged' = tagged
    BY <1>7 DEF FinishSync, outside
  <2>2. rd.tip # None /\ rd.tip \in rd.chain /\ rd.chain \subseteq Anc[rd.tip]
    BY <2>1 DEF RInv, WalkInv
  <2>3. rd.tip \in store /\ rd.tip \in Share /\ rd.tip \in tagged
    BY <2>2, SyncParts DEF RInv, TipInv
  <2>4. Newest(rd.chain) = rd.tip
    BY <2>2, <2>3, NewestOfWalk
  <2>5. rd.tip \notin Old(rd.tip)
    BY <2>3, HeightIsNat, LimitAssumption DEF Old
  <2>6. rd'.phase = "idle" /\ rd'.tip = None
    BY <2>1 DEF Idle
  <2> QED BY <2>1, <2>3, <2>4, <2>5, <2>6 DEF TipInv, WalkInv
<1> QED BY <1>1, <1>2, <1>3, <1>4, <1>5, <1>6, <1>7 DEF Progress

LEMMA InitRInv == Init => RInv
<1> SUFFICES ASSUME Init PROVE RInv
  OBVIOUS
<1>1. rd.phase = "idle" /\ rd.tip = None /\ canon = {}
  BY DEF Init, Idle
<1> QED BY <1>1, InitVInv DEF RInv, TipInv, WalkInv

LEMMA NextRInv == RInv /\ [Next]_vars => RInv'
<1> SUFFICES ASSUME RInv, [Next]_vars PROVE RInv'
  OBVIOUS
<1>1. VInv'
  BY NextVInv DEF RInv
<1>2. CASE Progress \/ LeafFetched \/ FetchBatch
  BY <1>1, <1>2, ReaderKeepsTip DEF RInv
<1>3. CASE \E s \in Share : Mine(s) \/ Serve(s)
  <2>1. UNCHANGED <<rd, canon>> /\ tagged \subseteq tagged' /\ store \subseteq store'
    BY <1>3 DEF Mine, Serve
  <2> QED BY <1>1, <2>1, OthersKeepTip DEF RInv
<1>4. CASE \/ Connect \/ AskTip \/ ReceiveNothing \/ TimeOut
           \/ \E s \in Share : Receive(s) \/ Broadcast(s)
  <2>1. UNCHANGED <<rd, canon>> /\ tagged \subseteq tagged' /\ store \subseteq store'
    BY <1>4 DEF Connect, AskTip, ReceiveNothing, TimeOut, Receive, Broadcast, outside
  <2> QED BY <1>1, <2>1, OthersKeepTip DEF RInv
<1>5. CASE UNCHANGED vars
  <2>1. UNCHANGED <<rd, canon>> /\ tagged \subseteq tagged' /\ store \subseteq store'
    BY <1>5 DEF vars, outside
  <2> QED BY <1>1, <2>1, OthersKeepTip DEF RInv
<1> QED BY <1>2, <1>3, <1>4, <1>5 DEF Next

\* Of the shares the reader fetches while it walks, none is on another fork
\* than its tip's: the source cannot make it store one.
THEOREM ForkHolds == Spec => ReaderStaysOnFork
<1>1. ASSUME RInv, [Next]_vars, rd.phase = "chain", rd'.phase = "chain", rd' # rd
      PROVE  store' \ store \subseteq Anc[rd.tip]
  <2>1. FetchBatch
    <3>1. CASE Progress \/ LeafFetched
      BY <1>1, <3>1 DEF Progress, StartSync, LeafHeld, LeafMissed, StartWalk, FinishSync, LeafFetched, Idle
    <3>2. CASE \/ Connect \/ AskTip \/ ReceiveNothing \/ TimeOut
               \/ \E s \in Share : Mine(s) \/ Serve(s) \/ Receive(s) \/ Broadcast(s)
      BY <1>1, <3>2 DEF Connect, AskTip, ReceiveNothing, TimeOut, Mine, Serve, Receive, Broadcast
    <3>3. CASE UNCHANGED vars
      BY <1>1, <3>3 DEF vars
    <3> QED BY <1>1, <3>1, <3>2, <3>3 DEF Next
  <2>2. rd.tip # None /\ rd.tip \in rd.chain /\ rd.chain \subseteq Anc[rd.tip]
    BY <1>1 DEF RInv, WalkInv
  <2>3. rd.tip \in Share
    BY <1>1, <2>2, SyncParts
  <2>4. MissingParent # 0
    BY <2>1 DEF FetchBatch, MayFetch
  <2>5. MissingParent \in Share /\ Anc[MissingParent] \subseteq Anc[rd.tip]
    BY <2>2, <2>3, <2>4, MissingIsAncestor DEF MissingParent
  <2> PICK p : p = MissingParent
    OBVIOUS
  <2>6. PICK n \in 1..Page : store' = store \cup Walk(remote, p, n)
    BY <2>1 DEF FetchBatch, Anchored, Served
  <2> PICK batch : batch = Walk(remote, p, n)
    OBVIOUS
  <2>7. n \in 1..Page /\ batch = Walk(remote, p, n) /\ store' = store \cup batch
    BY <2>6
  <2>8. n \in Nat \ {0}
    BY <2>7, LimitAssumption
  <2>9. batch \subseteq Anc[p]
    BY <2>5, <2>7, <2>8, WalkShape
  <2> QED BY <2>5, <2>7, <2>9
<1>2. RInv /\ [Next]_vars
        => [rd.phase = "chain" /\ UNCHANGED <<venue, obs, link>> /\ rd'.phase = "chain"
              /\ rd' # rd => store' \ store \subseteq Anc[rd.tip]]_vars
  BY <1>1
<1> QED BY <1>2, InitRInv, NextRInv, PTL DEF Spec, ReaderStaysOnFork

\* A later canonical chain never ends below an earlier one, whichever sources
\* are gone and however the budget ran out: the tip once resolved is kept.
THEOREM TipHolds == Spec => TipNeverFallsBack
<1>1. ASSUME RInv, [Next]_vars, canon # {}, canon' # canon
      PROVE  Newest(canon) <= Newest(canon')
  <2>1. FinishSync
    <3>1. CASE StartSync \/ LeafHeld \/ LeafMissed \/ StartWalk \/ LeafFetched \/ FetchBatch
      BY <1>1, <3>1 DEF StartSync, LeafHeld, LeafMissed, StartWalk, LeafFetched, FetchBatch
    <3>2. CASE \/ Connect \/ AskTip \/ ReceiveNothing \/ TimeOut
               \/ \E s \in Share : Mine(s) \/ Serve(s) \/ Receive(s) \/ Broadcast(s)
      BY <1>1, <3>2 DEF Connect, AskTip, ReceiveNothing, TimeOut, Mine, Serve, Receive, Broadcast
    <3>3. CASE UNCHANGED vars
      BY <1>1, <3>3 DEF vars
    <3> QED BY <1>1, <3>1, <3>2, <3>3 DEF Next, Progress
  <2>2. rd.phase = "chain" /\ canon' = rd.chain
    BY <2>1 DEF FinishSync
  <2>3. rd.tip # None /\ rd.tip \in rd.chain /\ rd.chain \subseteq Anc[rd.tip]
    BY <1>1, <2>2 DEF RInv, WalkInv
  <2>4. rd.tip \in Share
    BY <1>1, <2>3, SyncParts
  <2>5. Newest(canon') = rd.tip
    BY <2>2, <2>3, <2>4, NewestOfWalk
  <2>6. Newest(canon) <= rd.tip
    BY <1>1, <2>2 DEF RInv, TipInv
  <2> QED BY <2>5, <2>6
<1>2. RInv /\ [Next]_vars => [canon # {} /\ canon' # canon => Newest(canon) <= Newest(canon')]_vars
  BY <1>1
<1> QED BY <1>2, InitRInv, NextRInv, PTL DEF Spec, TipNeverFallsBack
=============================================================================
