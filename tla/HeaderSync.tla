------------------------------ MODULE HeaderSync ------------------------------
(***************************************************************************)
(* How nodes learn the anchor chain: the reader's header step, which asks  *)
(* other transpeers and keeps the best verified view, and the source loop, *)
(* which copies the operator's monerod.  Both loops of a node write one    *)
(* anchor store and await the network between reading and writing it.      *)
(*                                                                         *)
(* A header is the path of branch labels from the checkpoint to it: it     *)
(* names its parent as a header's hash does, its length is its height      *)
(* above the checkpoint, and its work that of the blocks on the path.  A   *)
(* view is named by its tip.  The clock is the height of the network's     *)
(* chain.  A source is asked for its tip and then, separately, for rows up *)
(* to it; the pages of one request arrive together.                        *)
(***************************************************************************)
EXTENDS Integers, Sequences, FiniteSets, SequencesExt

CONSTANTS
  Node,
  Daemon,      \* nodes with --anchor-monerod
  Readers,     \* nodes with --anchor-read
  Branch,      \* labels of blocks
  Difficulty,  \* of the blocks with a label
  NoView, Idle,
  StaleTip,    \* STALE_TIP, in blocks
  MaxPast,     \* MAX_BLOCKS_PAST_CHECKPOINT
  MaxHeight,   \* bound: height of the network's chain
  MaxReorgs,   \* bound
  MaxRestarts  \* bound

ASSUME HeaderConstants ==
  /\ IsFiniteSet(Node) /\ Daemon \cup Readers \subseteq Node /\ Branch # {}
  /\ {StaleTip, MaxPast, MaxReorgs, MaxRestarts} \subseteq Nat
  /\ MaxHeight \in Nat \ {0} /\ Difficulty \in [Branch -> Nat \ {0}]

VARIABLES
  main,      \* tip of the network's chain
  daemon,    \* daemon[n]: tip of the chain n's monerod follows
  headers,   \* headers[n]: AnchorStore.headers, by height
  view,      \* view[n]: tip of AnchorStore.view
  disk,      \* disk[n]: the saved store
  sync,      \* sync[n]: the header step in progress
  source,    \* source[n]: rows the source loop has fetched and not yet merged
  reorgs, restarts

network == <<main, daemon, reorgs>>
vars == <<network, headers, view, disk, sync, source, restarts>>

Header == {path \in Seq(Branch) : Len(path) \in 1..MaxHeight}
Table == {t \in Seq(Header) : \A h \in 1..Len(t) : Len(t[h]) = h}
View == Header \cup {NoView}
Asking == [from : Node, tip : Nat, whole : BOOLEAN]
Sync == [clock : Nat, existing : View, left : SUBSET Node, views : SUBSET Header,
         asking : Asking \cup {Idle}, began : 0..MaxRestarts]
Fetched == [from : Nat \ {0}, rows : Seq(Header)]

-----------------------------------------------------------------------------
Empty == [headers |-> <<>>, view |-> NoView]

\* The rows from a height up to the tip of a chain.
Rows(tip, from) == [i \in 1..(Len(tip) - from + 1) |-> SubSeq(tip, 1, from + i - 1)]

OverlayAppends(table, rows, from) == table \o rows
OverlayKeeps(table, rows, from) ==
  table \o (IF from + Len(rows) - 1 > Len(table)
            THEN SubSeq(rows, Len(table) - from + 2, Len(rows)) ELSE <<>>)
\* put_headers: rows replace what the table has at their heights.
Overlay(table, rows, from) ==
  [h \in 1..(IF from + Len(rows) - 1 > Len(table) THEN from + Len(rows) - 1 ELSE Len(table)) |->
     IF h \in from..(from + Len(rows) - 1) THEN rows[h - from + 1] ELSE table[h]]

\* _check_linkage and _extend: rows follow one another from a known header.
Links(rows, parent) ==
  \A i \in DOMAIN rows : Front(rows[i]) = IF i = 1 THEN parent ELSE rows[i - 1]

Stale(tip, clock) == clock - Len(tip) > StaleTip

\* verify_headers, in full from the checkpoint or extending a trusted view.
Verifies(rows, parent, clock) ==
  rows # <<>> /\ Links(rows, parent) /\ ~Stale(Last(rows), clock)

\* best_view: the most cumulative work.
Work(path) == FoldSeq(LAMBDA b, sum : sum + Difficulty[b], 0, path)
Best(views) == {v \in views : \A w \in views : Work(w) <= Work(v)}

-----------------------------------------------------------------------------
Init ==
  /\ main = <<CHOOSE b \in Branch : TRUE>>
  /\ daemon = [n \in Daemon |-> main]
  /\ headers = [n \in Node |-> <<>>]
  /\ view = [n \in Node |-> NoView]
  /\ disk = [n \in Node |-> Empty]
  /\ sync = [n \in Node |-> Idle]
  /\ source = [n \in Node |-> Idle]
  /\ reorgs = 0 /\ restarts = 0

(* The network: a block is found, or a competing one replaces the last. *)
Mine ==
  /\ Len(main) < MaxHeight
  /\ main' = Append(main, Last(main))
  /\ UNCHANGED <<daemon, headers, view, disk, sync, source, reorgs, restarts>>

Reorg ==
  /\ reorgs < MaxReorgs
  /\ \E b \in Branch \ {Last(main)} : main' = Append(Front(main), b)
  /\ reorgs' = reorgs + 1
  /\ UNCHANGED <<daemon, headers, view, disk, sync, source, restarts>>

DaemonFollows(n) ==
  /\ daemon[n] # main
  /\ daemon' = [daemon EXCEPT ![n] = main]
  /\ UNCHANGED <<main, headers, view, disk, sync, source, reorgs, restarts>>

(* _step1_headers *)
SyncStart(n) ==
  /\ n \in Readers /\ sync[n] = Idle
  /\ sync' = [sync EXCEPT ![n] =
                [clock |-> Len(main), existing |-> view[n], left |-> Node \ {n}, views |-> {},
                 asking |-> Idle, began |-> restarts]]
  /\ UNCHANGED <<network, headers, view, disk, source, restarts>>

\* /anchor/{chain}/headers: the rows a node has from a height to another.
Served(s, from, tip) ==
  SubSeq(headers[s], from, IF tip < Len(headers[s]) THEN tip ELSE Len(headers[s]))

Asks(q, s, tip, whole) ==
  [clock |-> q.clock, existing |-> q.existing, left |-> q.left, views |-> q.views,
   asking |-> [from |-> s, tip |-> tip, whole |-> whole], began |-> q.began]
Heard(q, s, found) ==
  [clock |-> q.clock, existing |-> q.existing, left |-> q.left \ {s}, views |-> q.views \cup found,
   asking |-> Idle, began |-> q.began]
Becomes(n, q) ==
  /\ sync' = [sync EXCEPT ![n] = q]
  /\ UNCHANGED <<network, headers, view, disk, source, restarts>>

Reached(q, tip) == q.existing # NoView /\ tip <= Len(q.existing)

AskTipRefetches(n, s) ==
  LET q == sync[n]
      tip == Len(headers[s]) IN
  /\ q # Idle /\ q.asking = Idle /\ s \in q.left
  /\ IF tip \notin 1..MaxPast THEN Becomes(n, Heard(q, s, {}))
     ELSE Becomes(n, Asks(q, s, tip, q.existing = NoView \/ Reached(q, tip)))

\* A source that reports a tip the stored view reaches votes for that view, if
\* it is not stale; else rows are fetched: those above the view, or all.
AskTip(n, s) ==
  LET q == sync[n]
      tip == Len(headers[s]) IN
  /\ q # Idle /\ q.asking = Idle /\ s \in q.left
  /\ IF tip \notin 1..MaxPast THEN Becomes(n, Heard(q, s, {}))
     ELSE IF Reached(q, tip) /\ ~Stale(q.existing, q.clock) THEN Becomes(n, Heard(q, s, {q.existing}))
     ELSE Becomes(n, Asks(q, s, tip, q.existing = NoView \/ Reached(q, tip)))

FetchMoreOnly(n, s) ==
  LET q == sync[n]
      rows == Served(s, Len(q.existing) + 1, q.asking.tip) IN
  /\ q # Idle /\ q.asking # Idle /\ q.asking.from = s /\ ~q.asking.whole
  /\ Becomes(n, Heard(q, s, IF Verifies(rows, q.existing, q.clock) THEN {Last(rows)} ELSE {}))

\* An extension that does not verify is followed by a fetch of the whole.
FetchMore(n, s) ==
  LET q == sync[n]
      rows == Served(s, Len(q.existing) + 1, q.asking.tip) IN
  /\ q # Idle /\ q.asking # Idle /\ q.asking.from = s /\ ~q.asking.whole
  /\ IF Verifies(rows, q.existing, q.clock)
     THEN Becomes(n, Heard(q, s, {Last(rows)}))
     ELSE Becomes(n, Asks(q, s, q.asking.tip, TRUE))

FetchWhole(n, s) ==
  LET q == sync[n]
      rows == Served(s, 1, q.asking.tip) IN
  /\ q # Idle /\ q.asking # Idle /\ q.asking.from = s /\ q.asking.whole
  /\ Becomes(n, Heard(q, s, IF Verifies(rows, <<>>, q.clock) THEN {Last(rows)} ELSE {}))

\* No answer: the source is passed over, but a failed extension is refetched.
SourceSilent(n, s) ==
  LET q == sync[n] IN
  /\ q # Idle
  /\ IF q.asking = Idle THEN s \in q.left ELSE q.asking.from = s
  /\ IF q.asking # Idle /\ ~q.asking.whole
     THEN Becomes(n, Asks(q, s, q.asking.tip, TRUE))
     ELSE Becomes(n, Heard(q, s, {}))

SyncEnd(n) ==
  /\ sync[n] # Idle /\ sync[n].left = {} /\ sync[n].asking = Idle
  /\ IF sync[n].views = {}
     THEN UNCHANGED <<headers, view>>
     ELSE \E v \in Best(sync[n].views) :
            /\ headers' = [headers EXCEPT ![n] = Overlay(@, Rows(v, 1), 1)]
            /\ view' = [view EXCEPT ![n] = v]
  /\ sync' = [sync EXCEPT ![n] = Idle]
  /\ UNCHANGED <<network, disk, source, restarts>>

(* _anchor_source_loop: fetch the heights the store lacks ... *)
DaemonRows(n, from) == Rows(daemon[n], from)
FetchFrom(n) == IF view[n] # NoView THEN Len(headers[n]) + 1 ELSE 1
SourceAsk(n) ==
  /\ source[n] = Idle
  /\ Len(daemon[n]) >= FetchFrom(n)
  /\ source' = [source EXCEPT ![n] =
                  [from |-> FetchFrom(n), rows |-> DaemonRows(n, FetchFrom(n))]]
  /\ UNCHANGED <<network, headers, view, disk, sync, restarts>>

\* ... and merge them with the stored rows below, if the whole verifies.
SourceMerge(n) ==
  /\ source[n] # Idle
  /\ LET below == SubSeq(headers[n], 1, source[n].from - 1) IN
     IF Verifies(below \o source[n].rows, <<>>, Len(main))
     THEN /\ headers' = [headers EXCEPT ![n] = Overlay(@, source[n].rows, source[n].from)]
          /\ view' = [view EXCEPT ![n] = Last(source[n].rows)]
     ELSE UNCHANGED <<headers, view>>
  /\ source' = [source EXCEPT ![n] = Idle]
  /\ UNCHANGED <<network, disk, sync, restarts>>

\* _save_anchor_state, called by both loops; it is skipped when tip height and
\* blob counts are as they were, and the blob counts are not modelled.
Save(n) ==
  /\ disk' = [disk EXCEPT ![n] = [headers |-> headers[n], view |-> view[n]]]
  /\ UNCHANGED <<network, headers, view, sync, source, restarts>>

\* The node starts again from a store; the file is written in place, so a node
\* that died while saving finds it unreadable and starts empty.
Restart(n) ==
  /\ restarts < MaxRestarts
  /\ restarts' = restarts + 1
  /\ \E store \in {disk[n], Empty} :
       /\ disk' = [disk EXCEPT ![n] = store]
       /\ headers' = [headers EXCEPT ![n] = store.headers]
       /\ view' = [view EXCEPT ![n] = store.view]
  /\ sync' = [sync EXCEPT ![n] = Idle]
  /\ source' = [source EXCEPT ![n] = Idle]
  /\ UNCHANGED network

Next ==
  \/ Mine \/ Reorg
  \/ \E n \in Daemon : DaemonFollows(n) \/ SourceAsk(n) \/ SourceMerge(n)
  \/ \E n \in Node : SyncStart(n) \/ SyncEnd(n) \/ Save(n) \/ Restart(n)
  \/ \E n, s \in Node : AskTip(n, s) \/ FetchMore(n, s) \/ FetchWhole(n, s) \/ SourceSilent(n, s)

Spec == Init /\ [][Next]_vars

\* Both loops run for ever, daemons keep up, and no source is silent for ever.
FairSpec ==
  /\ Spec
  /\ \A n \in Daemon : WF_vars(DaemonFollows(n)) /\ WF_vars(SourceAsk(n)) /\ WF_vars(SourceMerge(n))
  /\ \A n \in Node : WF_vars(SyncStart(n)) /\ WF_vars(SyncEnd(n))
  /\ \A n \in Node : \A s \in Node \ {n} :
       WF_vars(AskTip(n, s) \/ FetchMore(n, s) \/ FetchWhole(n, s) \/ SourceSilent(n, s))
  /\ \A n \in Readers \ Daemon : \A s \in Node \ {n} :
       SF_vars(AskTip(n, s)) /\ SF_vars(FetchMore(n, s)) /\ SF_vars(FetchWhole(n, s))

-----------------------------------------------------------------------------
(* Properties *)

\* Every variable has its type; a table has one header of each height, and the
\* rows the source loop has fetched continue the table it will merge them with.
TypeOK ==
  /\ main \in Header /\ daemon \in [Daemon -> Header]
  /\ headers \in [Node -> Table] /\ view \in [Node -> View]
  /\ disk \in [Node -> [headers : Table, view : View]]
  /\ sync \in [Node -> Sync \cup {Idle}]
  /\ \A n \in Node : sync[n] # Idle =>
       /\ sync[n].began <= restarts
       /\ sync[n].asking # Idle /\ ~sync[n].asking.whole => sync[n].existing # NoView
  /\ source \in [Node -> Fetched \cup {Idle}]
  /\ \A n \in Node : source[n] # Idle =>
       /\ source[n].from <= Len(headers[n]) + 1 /\ source[n].rows # <<>>
       /\ \A i \in 1..Len(source[n].rows) : Len(source[n].rows[i]) = source[n].from + i - 1
  /\ reorgs \in 0..MaxReorgs /\ restarts \in 0..MaxRestarts

\* What a node serves contains the chain it verified: whatever the two loops
\* interleave, the table holds the view, header by header.
ViewIsServed ==
  \A n \in Node : view[n] # NoView =>
    /\ Len(view[n]) <= Len(headers[n])
    /\ SubSeq(headers[n], 1, Len(view[n])) = Rows(view[n], 1)

\* A node without a daemon trades a current view only for a longer one, though
\* the view is a candidate only if some source is not ahead of it: rows reach
\* the tip their source reported, unless a restart loses them in between.  Of its
\* work nothing is said: a longer branch may have less.
TradedForLonger ==
  [][\A n \in Node \ Daemon :
       /\ view'[n] # view[n] /\ view[n] # NoView
       /\ sync[n] # Idle /\ restarts' = sync[n].began /\ ~Stale(view[n], sync[n].clock)
       => Len(view'[n]) > Len(view[n])]_vars

\* Nodes without a daemon catch up with every source whose table ends at a
\* current, verified tip: in height or in work, since rows are compared by work
\* and fetched by height.
Current(s) == view[s] # NoView /\ Len(headers[s]) = Len(view[s]) /\ ~Stale(view[s], Len(main))
Behind(v, w) == w # NoView /\ (v = NoView \/ (Len(v) < Len(w) /\ Work(v) < Work(w)))
ReaderCatchesUp ==
  \A n \in Readers \ Daemon : \A s \in Node \ {n} :
    <>[]Current(s) => <>[](view[n] # NoView /\ ~Behind(view[n], view[s]))

\* What section 17.1 says: "--anchor-monerod URL makes the node fill its anchor
\* store from monerod's JSON-RPC".  A node reaches the tip its daemon stays at.
SourceFollows ==
  \A n \in Daemon : <>[](view[n] # NoView /\ Len(view[n]) >= Len(daemon[n]))
=============================================================================
