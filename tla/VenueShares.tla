------------------------------ MODULE VenueShares ------------------------------
(* The shares of one P2Pool venue in a node: the observer that follows        *)
(* P2Pool's own protocol (anchor/p2p.py, node._observe_loop), the chain       *)
(* reader that fetches what is missing from other transpeers (reader.py,      *)
(* steps 3 and 4) and the share store both fill (stores.ShareStore).          *)
(*                                                                            *)
(* A share is a number above its parent's; 0 is the zero id.  P2Pool and the  *)
(* transpeers that answer have real shares only, since proof-of-work and id   *)
(* of everything else are rejected on arrival.                                *)
EXTENDS Naturals, FiniteSets, Sequences

CONSTANTS
  Share, Parent,   \* the shares of the venue, Parent[s] = 0 for its first
  Block,           \* those with the proof-of-work of a Monero block
  Window,          \* VENUE_WINDOW
  MaxWalk,         \* parents the observer asks for in one cycle
  Page,            \* SHARE_PAGE
  MaxBatches,      \* MAX_SHARE_BATCHES
  LeafBudget,      \* MAX_LEAF_FETCHES
  PruneDepth,      \* 4 * VENUE_WINDOW
  None

ASSUME ShareAssumption ==
  /\ Share \subseteq Nat \ {0} /\ IsFiniteSet(Share) /\ Block \subseteq Share
  /\ Parent \in [Share -> Share \cup {0}] /\ \A s \in Share : Parent[s] < s
ASSUME LimitAssumption ==
  /\ {Window, Page, MaxBatches, LeafBudget} \subseteq Nat \ {0}
  /\ MaxWalk \in Nat /\ PruneDepth \in Nat /\ Window <= PruneDepth + 1

VARIABLES
  venue,    \* the shares found so far
  tagged,   \* those known to be Monero blocks of the reader's coverage window
  remote,   \* what the queried transpeers can serve
  store,    \* this node's ShareStore: memory and files alike
  link,     \* the observer's connection, "down" or "up"
  pending,  \* P2PoolClient._block_pending: the requests that wait, oldest first
  wire,     \* the requests P2Pool has yet to answer, oldest first
  obs,      \* the observer's cycle: what it asked for, parents walked so far
  rd,       \* the reader's sync
  canon     \* the canonical chain of its last finished sync

\* The observer's cycle, and the reader's sync.
Cycle == [id : {0} \cup Share, walked : 0..MaxWalk]
Phase == {"idle", "leaves", "chain"}

ASSUME NoneAssumption == None \notin Cycle \cup Share

observer == <<link, pending, wire, obs>>
outside == <<venue, tagged, remote>>
vars == <<outside, store, observer, rd, canon>>

Anc[s \in Share] == {s} \cup (IF Parent[s] = 0 THEN {} ELSE Anc[Parent[s]])
Height(s) == Cardinality(Anc[s])
Newest(S) == CHOOSE s \in S : \A o \in S : o <= s

\* ShareStore.walk: from s back through its parents, as far as S goes, at most
\* n shares.
Walk(S, s, n) ==
  {a \in Anc[s] : LET path == {x \in Anc[s] : a \in Anc[x]}
                  IN path \subseteq S /\ Cardinality(path) <= n}
Oldest(chain) == CHOOSE s \in chain : Parent[s] \notin chain

Idle == [phase |-> "idle", left |-> {}, tip |-> None, budget |-> 0,
         batches |-> 0, chain |-> {}]

Init ==
  /\ venue = {} /\ tagged = {} /\ remote = {} /\ store = {}
  /\ link = "down" /\ pending = <<>> /\ wire = <<>> /\ obs = None
  /\ rd = Idle /\ canon = {}

-----------------------------------------------------------------------------
(* The world outside *)

\* A share that is a Monero block: its tag is in the coverage window.
Mine(s) ==
  /\ s \notin venue /\ (Parent[s] = 0 \/ Parent[s] \in venue)
  /\ venue' = venue \cup {s}
  /\ tagged' = tagged \cup ({s} \cap Block)
  /\ UNCHANGED <<remote, store, observer, rd, canon>>

Serve(s) ==
  /\ s \in venue \ remote
  /\ remote' = remote \cup {s}
  /\ UNCHANGED <<venue, tagged, store, observer, rd, canon>>

-----------------------------------------------------------------------------
(* The observer *)

Connect ==
  /\ link = "down" /\ obs = None
  /\ link' = "up" /\ pending' = <<>> /\ wire' = <<>>
  /\ UNCHANGED <<outside, store, obs, rd, canon>>

\* Each cycle starts with the zero id, which asks for the tip.
AskTip ==
  /\ link = "up" /\ obs = None
  /\ obs' = [id |-> 0, walked |-> 0]
  /\ pending' = Append(pending, 0) /\ wire' = Append(wire, 0)
  /\ UNCHANGED <<outside, store, link, rd, canon>>

\* P2Pool answers the zero id with the tip of some fork, a share's id with the
\* share if it has it (still).
Answers(id) == IF id = 0 THEN venue ELSE {id}

\* The read loop hands the oldest answer to the oldest request.
Ask(id, walked) ==
  /\ obs' = [id |-> id, walked |-> walked]
  /\ pending' = Append(Tail(pending), id)
  /\ wire' = Append(Tail(wire), id)
EndCycle == obs' = None /\ pending' = Tail(pending) /\ wire' = Tail(wire)

\* The observer stores the share and asks for its parent until that is known.
Unknown(id) == id # 0 /\ id \notin store
FollowAllTheWay(s, walked) ==
  IF Unknown(Parent[s]) THEN Ask(Parent[s], walked + 1) ELSE EndCycle
Follow(s, walked) ==
  IF walked < MaxWalk /\ Unknown(Parent[s])
  THEN Ask(Parent[s], walked + 1) ELSE EndCycle

Receive(s) ==
  /\ link = "up" /\ pending # <<>> /\ wire # <<>> /\ s \in Answers(Head(wire))
  /\ store' = store \cup {s}
  /\ Follow(s, obs.walked)
  /\ UNCHANGED <<outside, link, rd, canon>>

\* An empty answer, or one that does not parse, ends the cycle.
ReceiveNothing ==
  /\ link = "up" /\ pending # <<>> /\ wire # <<>>
  /\ EndCycle
  /\ UNCHANGED <<outside, store, link, rd, canon>>

\* A request that is not answered in time takes its future off the list and
\* closes the connection; a connection that is lost fails the request.  Either
\* way the observer drops the client.  A connection lost between two cycles is
\* noticed by the next request's time-out, as one that no longer answers.
TimeOutOpen ==
  /\ obs # None
  /\ pending' = Tail(pending) /\ obs' = None
  /\ UNCHANGED <<outside, store, link, wire, rd, canon>>

TimeOut ==
  /\ obs # None
  /\ pending' = Tail(pending) /\ obs' = None
  /\ link' = "down" /\ wire' = <<>>
  /\ UNCHANGED <<outside, store, rd, canon>>

\* BLOCK_BROADCAST, verified and stored by the same callback.
Broadcast(s) ==
  /\ link = "up" /\ s \in venue \ store
  /\ store' = store \cup {s}
  /\ UNCHANGED <<outside, observer, rd, canon>>

-----------------------------------------------------------------------------
(* The reader *)

\* Step 3 starts: tagged blocks newest first, under one budget of fetches.
StartSync ==
  /\ rd.phase = "idle" /\ tagged # {}
  /\ rd' = [phase |-> "leaves", left |-> tagged, tip |-> None, budget |-> LeafBudget,
            batches |-> 0, chain |-> {}]
  /\ UNCHANGED <<outside, store, observer, canon>>

ResolvedLast(r, s) == [r EXCEPT !.left = @ \ {s}, !.tip = s]
Resolved(r, s) == [r EXCEPT !.left = @ \ {s}, !.tip = IF @ = None THEN s ELSE @]
Spent(r) == [r EXCEPT !.budget = @ - 1]

\* The share of the newest block left is in the store, by its root.
LeafHeld ==
  /\ rd.phase = "leaves" /\ rd.left # {}
  /\ LET s == Newest(rd.left) IN s \in store /\ rd' = Resolved(rd, s)
  /\ UNCHANGED <<outside, store, observer, canon>>

\* Or a source answers with it: it is verified and kept.
LeafFetched ==
  /\ rd.phase = "leaves" /\ rd.left # {} /\ rd.budget > 0
  /\ LET s == Newest(rd.left)
     IN /\ s \in remote \ store
        /\ rd' = Spent(Resolved(rd, s))
        /\ store' = store \cup {s}
  /\ UNCHANGED <<outside, observer, canon>>

\* Or none does, or nothing may be fetched any more: the block stays unresolved.
LeafMissed ==
  /\ rd.phase = "leaves" /\ rd.left # {}
  /\ LET s == Newest(rd.left)
         next == [rd EXCEPT !.left = @ \ {s}]
     IN s \notin store /\ rd' = IF rd.budget > 0 THEN Spent(next) ELSE next
  /\ UNCHANGED <<outside, store, observer, canon>>

\* Step 4 walks from the first share that was resolved.  The walk is repeated
\* after each batch that brought something; in between the store may grow
\* under it.
StartWalk ==
  /\ rd.phase = "leaves" /\ rd.left = {}
  /\ rd' = IF rd.tip = None THEN Idle
           ELSE [rd EXCEPT !.phase = "chain", !.chain = Walk(store, rd.tip, Window)]
  /\ UNCHANGED <<outside, store, observer, canon>>

MissingParent == Parent[Oldest(rd.chain)]
MayFetchLate ==
  /\ rd.phase = "chain" /\ 0 < rd.batches /\ rd.batches < MaxBatches
  /\ Cardinality(rd.chain) < Window /\ MissingParent # 0
MayFetch ==
  /\ rd.phase = "chain" /\ rd.batches < MaxBatches
  /\ Cardinality(rd.chain) < Window /\ MissingParent # 0

\* /venue/{id}/shares
Served(from, n) == Walk(remote, from, n)

\* One batch: what the source walks from the missing parent.  A batch may end
\* early; what is not anchored to the parent that was asked for is dropped.
AnchoredNot(batch, from) == batch # {} /\ Cardinality(batch) <= Page
Anchored(batch, from) == \E n \in 1..Page : batch = Served(from, n)
FetchBatch ==
  /\ MayFetch
  /\ \E batch \in SUBSET remote :
       /\ Anchored(batch, MissingParent) /\ ~ batch \subseteq store
       /\ Cardinality(rd.chain) + Cardinality(batch \ store) <= Window
       /\ store' = store \cup batch
  /\ rd' = [rd EXCEPT !.batches = @ + 1, !.chain = Walk(store', rd.tip, Window)]
  /\ UNCHANGED <<outside, observer, canon>>

\* Nothing to fetch, or no source answered with anything new: weights are
\* computed over this chain, and the store drops what is PruneDepth old.
Old(tip) == {s \in store : Height(s) + PruneDepth < Height(tip)}
FinishSync ==
  /\ rd.phase = "chain"
  /\ canon' = rd.chain
  /\ store' = store \ Old(rd.tip)
  /\ rd' = Idle
  /\ UNCHANGED <<outside, observer>>

\* What a sync does without an answer from outside.
Progress == StartSync \/ LeafHeld \/ LeafMissed \/ StartWalk \/ FinishSync

Next ==
  \/ \E s \in Share : Mine(s) \/ Serve(s)
  \/ Connect \/ AskTip \/ ReceiveNothing \/ TimeOut
  \/ \E s \in Share : Receive(s) \/ Broadcast(s)
  \/ Progress \/ LeafFetched \/ FetchBatch

Spec == Init /\ [][Next]_vars

\* The loops run for ever, every fetch ends, and a fetch that is repeated for
\* ever while a source has the answer succeeds in the end.
FairSpec ==
  /\ Spec
  /\ WF_vars(Progress) /\ SF_vars(LeafFetched) /\ SF_vars(FetchBatch)

-----------------------------------------------------------------------------
(* Properties *)

\* Every variable has its type: no share without its parent is found, and none
\* from elsewhere gets into the store; at most one request of the observer waits.
TypeOK ==
  /\ tagged \cup remote \cup store \subseteq venue /\ venue \subseteq Share
  /\ \A s \in venue : Parent[s] # 0 => Parent[s] \in venue
  /\ link \in {"down", "up"} /\ obs \in Cycle \cup {None}
  /\ obs = None => pending = <<>>
  /\ obs # None => pending = <<obs.id>> /\ obs.id \in venue \cup {0}
  /\ wire \in Seq({0} \cup Share)
  /\ rd \in [phase : Phase, left : SUBSET tagged, tip : store \cup {None},
             budget : 0..LeafBudget, batches : 0..MaxBatches, chain : {rd.chain}]

\* Answers are paired with requests by order alone: no request ever gets the
\* answer of an earlier one, whatever timed out or was cut off before.
AnswersMatch == pending # <<>> /\ wire # <<>> => Head(pending) = Head(wire)

\* What the reader adds to the store besides resolved leaves is on the fork
\* of its tip: no other fork can be made to grow through it.
ReaderStaysOnFork ==
  [][rd.phase = "chain" /\ UNCHANGED <<venue, obs, link>> /\ rd'.phase = "chain"
       /\ rd' # rd => store' \ store \subseteq Anc[rd.tip]]_vars

\* Once a tagged block's share has been resolved, no later sync falls back to
\* an older tip, even if the source is gone.
TipNeverFallsBack ==
  [][canon # {} /\ canon' # canon => Newest(canon) <= Newest(canon')]_vars

\* The holes the observer leaves are filled: if the transpeers go on serving
\* the fork of a tip that stays, the canonical chain ends up as long as it can be.
Fork == IF tagged = {} THEN {} ELSE Anc[Newest(tagged)]
ChainCompletes ==
  <>[](tagged # {} /\ Fork \subseteq remote)
    => <>[](tagged # {} /\ canon = Walk(Fork, Newest(tagged), Window))
=============================================================================
