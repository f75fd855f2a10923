# TransPeer in TLA+

TransPeer nodes ("transpeers") find one another by scanning random addresses
and by gossip, and share what each knows of the peers of peer-to-peer networks
(Monero, Aeon, Wownero, others), so that a new daemon can bootstrap without
seed nodes. This directory holds TLA+ modules of the node's core, TLC
configurations that check them on small instances, and TLAPS proofs of the
properties that matter most, for all instances. Paths below are relative to
the repository; `peerstore.py` and the like are under `src/transpeer/`.

Contents: [inventory](#1-inventory) · [modules](#2-modules-and-the-code) ·
[runs](#3-what-the-runs-check) · [fairness](#4-fairness) ·
[proofs](#5-what-is-proved) · [disagreements](#6-where-documents-and-code-disagree) ·
[not modelled](#7-what-is-not-modelled) · [what is left](#8-what-is-left)

## 1. Inventory

A node is one asyncio process. `Node.run` (node.py) starts an HTTP server and
a dozen loops under one `gather`; they share a `PeerStore` and interact with
the outside through `TranspeerClient`, network plugins and P2Pool and monerod
connections. Nothing runs in parallel, but every `await` is a point where any
other loop or handler may run.

| component | state | operations | correct when |
|---|---|---|---|
| PeerStore: peers | `_peers`, `_dead_peers`, `_source_trust`, SQLite table `peers` | `add_peer`, `mark_verified`, `mark_dead`, `prune_stale`, `_load` | caps bound what a source can insert; a dead peer stays out for the cooldown; served peers were proven; table and rows agree |
| PeerStore: ranking and hand-off | none of its own | `get_peers`, `_rank_key`, `_represent`, `handoff_unrepresented` | the reserve represents buckets the ranked head leaves out |
| PeerStore: transpeers | `_transpeers`, table `transpeers` | `add_transpeer`, `_pick_eviction`, `get_transpeers_for_query`, `mark_queried`, `set_published`, `set_unfaithful`, `set_native`, prune, load | table and bucket limits hold on every path; eviction protects the proven, the faithful and the lone; rotation reaches all |
| Query loop | the batch in flight | `_query_loop`, `query_transpeer`, `fetch_peers`, `fetch_transpeers` | every query is marked; a late answer breaks nothing |
| Verifier | the round in flight | `verify_peers`, `_verify_loop` | a late verdict breaks nothing; dead peers end unserved, live ones served |
| Extract loop | `_local_proofs` | `_extract_loop`, proof solving | local daemon's peers are stored with valid proofs |
| Candidates, implicit announcement | `_candidates` | `handle_transpeer`, `pop_candidates`, `probe_candidates` | who asks becomes known; never oneself |
| Scanner | pacing, exclusions | `scan_batch`, `_probe_ip`, `current_rate` | hits are stored; scanning slows when enough are live |
| TranspeerServer | `LoadTracker`, rate limits by address | `/transpeer`, `/peers`, `/transpeers`, anchor routes | difficulty follows load; a proof serves one client and bucket |
| TranspeerClient | handshake proof cache | `_get_with_pow`, `probe_transpeer` | a challenge is solved and retried once |
| Peer entry proofs | six-hour buckets | `pow.py` | an entry is served with a proof that verifies |
| Anchor publisher, merge-mining RPC | issued roots, current blob | `curate`, `refresh`, `AuxRpcServer.handle` | only transpeers with history are published; issued work can be found again |
| Anchor blob database and gossip | `BlobDB`, fetch cursor | `BlobDB.add`, `index_since`, `Reader.gossip`, `_gossip_row` | blobs are bound to a commitment on chain; the cursor misses none |
| Anchor challenger | failure counts | `Challenger.round` | lying publishers are marked, faithful ones are not |
| Anchor headers, share chains | `AnchorStore`, `ShareStore`, `ChainView` | `verify_headers`, `put_headers`, `walk`, `prune`, `save`, `load` | the stored chain is one chain with valid work |
| Anchor chain reader | ranked publications | `Reader.sync`, `weight.py` | seeding and the published mark follow the ranking |
| P2Pool client | pending requests | `p2p.py` | responses are paired with their requests |
| Codecs and hashes, plugins, start-up | none | | pure, external, or configuration |

How they interact. The scan loop (10 s) probes random addresses and queued
candidates and stores hits. The query loop (300 s) takes a batch of 20 from
the rotation and, for each, concurrently: stores the transpeer as seen now,
fetches its peers (each goes through `add_peer` with the transpeer as source)
and its transpeers (each through `add_transpeer` with `gossiped=True`). The
verify loop (300 s) probes all peers of each network and applies each verdict
by key. The extract loop (60 s) stores what local daemons list. The prune loop
(3600 s, sleeping first) drops what is old. A `/transpeer` request makes its
sender a candidate of the server. Under `--anchor-read` the chain reader seeds
transpeers and sets `published`; the challenger sets `unfaithful`.

What is hard here: verdicts and answers that arrive after the entry they are
about has gone or changed owner; saturated tables, caps and buckets reached
along different paths; what a restart keeps and loses; database errors between
two updates; ages that travel between nodes; loops with different periods whose
effects undo one another. `PROJECT.json` lists each such hazard at its line.

## 2. Modules and the code

| module | what it is | code |
|---|---|---|
| `PeerTable` | peers, their rows, cooldowns, source caps; verify, extract and query loops as far as they touch them | peerstore.py, verifier.py, node.py |
| `TranspeerTable` | transpeers, their rows, admission, eviction, rotation; the query loop with answers in flight | peerstore.py, node.py, client.py |
| `TranspeerOverlay` | several nodes: who knows whom and how old the knowledge is; query, candidate, scan and prune loops, crashes and recoveries | node.py, client.py, scanner.py, server.py |
| `RateLimiter` | abstract specification: what a rate limit promises each address | (promise of server.py) |
| `Stamps` | lists of time stamps that are dropped from the front, shared by the two modules around it | server.py |
| `HandshakePow` | the server's rate limit and load-driven demand for work, the client's proof cache and single retry; implements `RateLimiter` | server.py, client.py, pow.py |
| `HeaderSync` | the anchor chain in several nodes: the reader's header step and the source loop writing one store, reorganisations, saving, restarts | anchor/headers.py, stores.py, monerod.py, reader.py, node.py |
| `VenueShares` | one P2Pool venue: the observer's connection, the reader's steps 3 and 4, the share store between them | anchor/p2p.py, stores.py, reader.py, node.py |
| `BlobGossip` | list blobs: issuing, submitting, resolving, the index and its cursor, gossip, saving, restarts | anchor/publisher.py, auxrpc.py, blobdb.py, fetch.py, reader.py, server.py, node.py |
| `Challenge` | rounds of faithfulness challenges, counted failures, the persisted mark | anchor/challenge.py, reader.py, peerstore.py, node.py |
| `MC*` | instances for TLC: small sets as model values, symmetry where no liveness is checked | |
| `PeerTableProofs`, `TranspeerTableProofs`, `TranspeerOverlayProofs`, `HandshakeProofs`, `HeaderSyncProofs`, `VenueSharesProofs`, `BlobGossipProofs`, `ChallengeProofs` | theorems and their proofs (section 5) | |

How they fit together. The modules share no variables; each takes what the
others do to its variables as free steps of its environment. The chain reader's
step 7, which adds entries, is `Discover` in `TranspeerTable` (admission) and `Seed` in
`TranspeerOverlay` (what the entry does to everybody's knowledge). `Report` in `PeerTable` and `Relay` in `TranspeerTable` are what
`TranspeerOverlay`'s `Query` fetches, under its own view of the table; the marks that
`Challenge` sets are `TranspeerTable`'s `SetUnfaithful`, and its `Changes` are the
evictions there; the tags that `VenueShares` calls `tagged` are read from
the chain of `HeaderSync`; the shares that `BlobGossip` learns (`LearnShare`) are those that
`VenueShares` stores, and the canonical chains `StartBlobs` walks are what its step 4 ends with.

A store method runs under one lock and is one action, whatever it awaits
inside; a probe or an HTTP query awaits the network and is two or more. The
three actions `StartRound`, `Probe` and `MarkVerified`/`MarkDead` are one
verification: between them every other action may occur, so verdicts meet
entries that were dropped, pruned, re-added under another source or verified
by an earlier probe. `StartBatch`, `Answer`, `Relay`, `Finish` are one query
in the same way; `SyncStart`, `AskTip`, `FetchMore`, `FetchWhole`, `SyncEnd` one header step; `SourceAsk`,
`SourceMerge` one cycle of the source loop; `FetchIndex` and the row actions
one page of gossip; `StartRound`, `Ask`, `EndRound` one round of challenges.

**PeerTable.** `peers[k]`, `disk[k]`, `trust[t]` and `cool[k]` are `_peers`,
the rows, `_source_trust` and `_dead_peers`. `Extract` is the extract loop's
`add_peer`, `Report` the query loop's; both are `AddPeer`, which is `AddNew` or
`AddExisting`. `Prune` and `Restart` are `prune_stale` and `_load`. `ok` says
whether the database write of the call succeeds: a failure leaves memory
changed, the row not, and skips what the method does after it (the counting of
an accepted entry). `Odd` keys hold a colon in their address (IPv6 peers of a
local daemon): splitting such a key in `prune_stale` raises after some deletes
were issued. What a reporter's `native` and `published` marks say at the
moment of a report is free, within the flags, because other loops set them.
`cap` saturates at `MaxCap`, `alive` and `dead` are reset at `VerifyMin` by the
code itself. Proofs and efforts of entries are left out. `reported` and
`proven` are history variables: no action reads them.

**TranspeerTable.** All nodes listen on one port, so an address stands for a
key. The order of `last_queried` is two sequences: `fresh` (never queried, in
the order of the dictionary) and `asked` (oldest query first), so no clock is
needed for the rotation; the code has no such lists, it sorts by the time stamp.
A query that was answered and then raised is marked as failed (`Finish`). `answered` saturates at `TRIED_THRESHOLD`, which is all
that `is_tried` compares. `Batches` is the set of batches
`get_transpeers_for_query` may return. `SetPublished`, `SetUnfaithful` stand for
the chain reader and the challenger, at any time and on any held entry.
If `prune_stale` raises on an IPv6 peer's key
(see `Odd` above), the transpeer rows of that call stay as well; this module
does not model that.

**TranspeerOverlay.** `known[n][m]` is the age of n's entry for m, or none.
Time passes in prune intervals (an hour): within one, every running node prunes
once and queries each contact it held at its start, in any interleaving. The
code queries 20 entries in 300 s, so this holds for tables of up to 240
entries; a full table of 500 takes two hours, still far below the three days
of `TRANSPEER_PRUNE_AGE`. Tables have room here: admission and eviction are
`TranspeerTable`'s subject. A relay answers with a sample of
`GOSSIP_SAMPLE_SIZE` entries without the requester. `Seed` is the reader's step 7 for
one published transpeer: a node in `Readers` stores it as seen now without having
contacted it, also if it has stopped, and also if it is the node itself, whose address and
id nothing is compared with. Which nodes the lists on chain name (`Published`) is a constant;
`seeded` is history. A query to a running node is always answered here: lost answers, which
the code treats like those of a stopped node, would make a running node one that may be forgotten.

Time is kept as ages in these three modules: `Tick` ages everything, ages
saturate at `MaxAge`, which the assumptions put above each threshold, so a
saturated age answers each comparison like every larger one. The clocks of
nodes agree, and a claimed `last_seen` is not in the future (the client clamps
it).

**HandshakePow.** Time is in ticks. `limits` is `_rate_limits`, pruned when an
address asks and swept when the table is larger than `MaxKeys`; `load`,
`recomputed` and `difficulty` are `LoadTracker`. `Probe` is `/transpeer` (counted,
never charged), `Request` the first attempt of `_get_with_pow`, `Retry` its second
after any solving time. A proof is the record of what it binds (node id,
bucket) and the effort it happens to meet; each client keeps to its own
address, so that is not in the record. A restart draws a new node id and
forgets limits and load; the clients' caches live on. `Limiter` is the
refinement mapping: a client's `Recent` stamps are what the abstract limiter has
admitted.

**HeaderSync.** A header is the path of branch labels from the checkpoint to it,
so it names its parent as a hash does, its length is its height, and
linkage is equality of fronts. Its work is the sum of the difficulties of the labels on the path
(`Work`), so of two branches the shorter may have more of it, and `Best` compares work, as
`best_view` does. `headers[n]`, `view[n]`, `disk[n]` are the store and the
saved file. A header step reads the clock and the stored view once
(`SyncStart`), asks each source for its tip (`AskTip`), and then for rows up to that
tip in a request of its own: those above the stored view (`FetchMore`), or all if there is no view, if it is
stale or if the rows do not extend it (`FetchWhole`). Between the two answers the source goes
on, may reorganise, or may restart with fewer rows: then the rows end short of the tip it had reported.
`SourceSilent` is a request without an answer. `SyncEnd` stores the best of the
candidates, among which the stored view is only if some source did not report a higher tip. The
source loop computes from its own store what to fetch and merges it later. Both loops of a node with a daemon
write one store in any interleaving; `Readers` are the nodes with `--anchor-read`. A node that dies while saving starts
with an empty store. The clock is the height of the network's chain, so a tip is as old as the
blocks found since. Timestamps and the sampled RandomX checks are taken as right: every header served here
passes them. The pages of one request arrive together, and sources answer with what they store: pages that
are cut short on purpose are not modelled. `began`, the number of restarts when the step began, is history.

**VenueShares.** A share is a number above its parent's, `Anc` a recursive
function. `pending` is `P2PoolClient._block_pending`, `wire` the requests P2Pool has yet
to answer: the client pairs them by order alone. `Receive` stores a share and
asks for its parent (`Follow`, at most `MaxWalk` deep), `TimeOut` stands for a time-out or a
lost connection. The reader's sync resolves tagged blocks newest first under one budget
(`LeafHeld`, `LeafFetched`, `LeafMissed`), walks from the first it resolved and fetches what is
missing in batches (`FetchBatch`; the code allows one leaf budget to each source it
asks, here a leaf costs one), repeating the walk as the store grows under it,
and prunes (`FinishSync`). What does not verify never reaches the store: real
shares are all that P2Pool and transpeers can offer here.

**BlobGossip.** A blob is its hash, a number, because the index is sorted by it.
`db[n][b]` is the row with its `first_seen` and kinds of commitment; `stored` in
it and `passed` are history. `Poll`, `SubmitSolution` are the merge-mining RPC's two
calls that change state, `MineShare` is P2Pool's. `shares[n]` are the shares n holds; those on
the venues' canonical chains within the window, which steps 3 and 4 ended with, are any of them, chosen
anew by `StartBlobs`, so a held share may be off the fork in one sync, in all or in none. `StartBlobs`, `ResolveBlob`, `SkipBlob` are
step 5 with the time it takes once. `FetchIndex` takes one page after the cursor; each row is then held already,
cannot be fetched, is verified or is dropped, and the cursor moves after the
last if none failed. `Save` and `Restart` are `_anchor_loop`'s saving, when a count
has changed, and a start.

**Challenge.** Time is in rounds, a failure is its age. `known` is what the reader
has verified and only grows, `serves[e]` what a transpeer returns now; entries come, go and
return at any time. `StartRound` samples from a snapshot; each `Ask` is one fetch; `EndRound`
computes the lost hashes, charges failures, prunes and sets or clears
the persisted marks. `evidence` is history: failures of hashes that another transpeer did
return in that round.

Operators with names like `FollowAllTheWay`, `OverlayAppends` or `CappedGossip` are not part of any
specification. Each is a plausible fault in the definition that follows it:
`PROJECT.json` pairs it with the property that fails once the definition is
replaced by it, so every property is known to notice something.

## 3. What the runs check

`expect: pass` - TLC explores every behaviour of the instance.

| run | instance | distinct states | properties |
|---|---|---|---|
| `peers_default` | one endpoint, one source and the local daemon, default flags, ages 0..3, cap 1..2, two verdicts judge a source, one restart | 17,173 | `DiskMirrors`, `NotWhileCooling`, `ServedWasProven`; under fairness `DeadEventuallyUnserved`, `LiveEventuallyServed` |
| `peers_vouchers` | two endpoints in two networks, two sources in one bucket, `--vouchers --native-vouchers`, cap 1..2, ages 0..1, one verdict judges | 348,046 | `FloodBound`, `CredibilityObserved`, `GrowthWithinCap` |
| `transpeers_default` | three addresses, two of one bucket, a table of two, batches of one, one restart | 8,026 | `CapacityBound`, `DiskMirrors`; under fairness `RotationReaches` |
| `transpeers_flags` | four addresses in three buckets, table of two, bucket limit 1, `--bucketed --tried-table --anchor-read` | 102,519 | `BucketBound`, `TriedOutlast`, `FaithfulOutlast` |
| `overlay_safety` | three nodes, one of which is published and may stop and come back once; the other two read the anchor and seed it; pruning after two intervals | 2,594,154 | `LastSeenAccounted`, `NeverKnowsItself`, `LiveNeverForgotten` |
| `overlay_mesh` | three nodes that stay up, without readers: seeding only adds links | 119,336 | under fairness `MeshForms` |
| `handshake` | two clients, limit 2 in 2 ticks, a sweep above one key, threshold 2 in 3 ticks, efforts 1..2, buckets of 2 ticks, 6 ticks, one server restart | 387,261 | `TypeOK`, `ImplementsLimiter`, `QuietIsFree`, `FloodIsCharged`, `WorkIsHonoured` |
| `headers` | a node with a daemon and one without, both readers, two blocks, branches of difficulty 2 and 3, a tip is stale once a block follows, one reorganisation, one restart | 109,530 | `TypeOK`, `ViewIsServed`, `TradedForLonger`; under fairness `ReaderCatchesUp` |
| `blobs` | publisher, reader and a node that asks both; two blobs, pages of one row, two seconds, `ISSUED_KEEP` 1, one restart of the reader | 396,447 | `OnlyCommitted`, `NoRowSkipped`; under fairness `ReaderResolves` |
| `challenge` | two transpeers, two blobs, one hash per round, two failures mark, window 1, one restart | 275,232 | `TypeOK`, `MarkIsEarned`, `MarkIsServed`; under fairness `SilentIsMarked`, `HonestIsCleared` |
| `shares` | five shares on two forks (4 follows 2, 5 follows 3), 4 and 5 are Monero blocks; window 3, walk of 1, pages of 1, two batches, one leaf fetch, pruning 2 below the tip | 206,178 | `TypeOK`, `AnswersMatch`, `ReaderStaysOnFork`, `TipNeverFallsBack`; under fairness `ChainCompletes` |

`expect: violation` - `headers_stuck`: `SourceFollows`, see section 6.

What they show:

- **Caps** (`FloodBound`, `GrowthWithinCap`). What the table holds from one
  trust key (source, or bucket under `--vouchers`) is never more than was
  charged, and it only grows within the cap the key has at that moment, though
  caps contract while entries stay, verdicts reset the counters, entries are
  dropped and come back under other sources, and a restart forgets everything.
- **Credibility** (`CredibilityObserved`). Under `--vouchers` the count an entry
  is ranked by never exceeds the buckets this node really heard it from, across
  the decrements of `mark_dead` and the rebuilding from marks at each merge.
- **Death** (`NotWhileCooling`, `DeadEventuallyUnserved`). An entry found dead does
  not come back within the cooldown on any path; and if its probes fail from some time on and
  the local daemon does not list it, it is in the end not served, however
  often others report it.
- **Proof** (`ServedWasProven`, `LiveEventuallyServed`). `--verified` output only
  ever holds what was probed alive or listed by the local daemon, also after a
  restart, and a peer whose probes succeed is served as long as it is stored.
- **The table at its limit** (`CapacityBound`, `DiskMirrors`, `BucketBound`). Insertions at the
  limit replace exactly one entry, in memory and on disk, on all paths: scan,
  relay, seeding, and the late answer of an entry evicted while its query was
  in flight. Under `--bucketed` no bucket exceeds its limit.
- **Who is evicted** (`TriedOutlast`, `FaithfulOutlast`), in `_pick_eviction`'s precedence.
- **Rotation** (`RotationReaches`). Once no newcomers arrive, every held entry is
  queried again and again, whatever the answers, failures included.
- **Overlay** (`LastSeenAccounted`, `NeverKnowsItself`, `LiveNeverForgotten`,
  `MeshForms`). No chain of relays, merges, crashes and reloads makes a node
  look alive later than it ran, or than a reader found it published: the one
  place that writes a time without contact is seeding. Answers leave the requester out
  and so nobody learns of itself, except a reader that is published and stores itself; the
  others do not catch that from it. Without recoveries a running node that is known stays
  known; nodes linked in any direction come to know each other for good.
  `LiveNeverForgotten` is stated up to the first recovery: a node that comes
  back relays the old entries of its database, and a node that takes such an
  entry just before pruning drops a running node (until it hears of it again).
  Three nodes and a `PruneAge` of two are at the limit up to which it holds (section 5).
- **The rate limit** (`ImplementsLimiter`). A table whose stamps are dropped when
  their owner asks again, or all of a sudden in a sweep, decides like a limiter that
  counts every request of the window: the refinement of `RateLimiter`.
- **The demand for work** (`QuietIsFree`, `FloodIsCharged`, `WorkIsHonoured`). The
  difficulty lags by up to five seconds; nevertheless nobody is charged unless the
  load window plus that lag holds a threshold of requests, nobody passes for
  nothing once the load has outlasted the lag, and a client that did the work is
  refused only after a restart, a raised demand or two buckets.
- **The header store** (`ViewIsServed`, `TradedForLonger`, `ReaderCatchesUp`). Two loops that await the
  network between reading and writing one store leave it holding, header by
  header, the chain of its view; a node without a daemon gives up a current view only for a
  longer one, unless a restart shortened what a source serves during the step; and it catches up,
  in height or in work, with every source that stays current. What is *not* so is that the
  view's work never falls: section 6.
- **P2Pool's answers** (`AnswersMatch`). No request is paired with the answer to
  another, whatever timed out or was cut off.
- **The share chain** (`ReaderStaysOnFork`, `TipNeverFallsBack`, `ChainCompletes`). Small batches fetched
  while the observer and pruning change the store stay on the tip's fork; a
  resolved tip is not lost to an older one; the holes the observer leaves are
  filled to the window's full length if somebody serves the fork.
- **Blobs** (`OnlyCommitted`, `NoRowSkipped`, `ReaderResolves`). What is not committed to on the
  venue never leaves its publisher; the pages of an index that grows between
  requests leave out no row that had its second for itself; a failed fetch is
  made good by a later sync, for every share that stays on the chains the syncs walk.
- **Challenges** (`MarkIsEarned`, `MarkIsServed`, `SilentIsMarked`, `HonestIsCleared`). A mark rests on
  enough failures, each of a hash that another transpeer returned in that round,
  whatever is declared lost and whichever entries leave and return meanwhile; it
  lasts while a failure is in the window; who returns nothing is marked in the
  end and who returns everything is cleared.

Why the bounds are enough. Limits and thresholds are small so that they are
hit: caps of one and two make a source full, judged, expanded and contracted;
a table of two or three is full after as many discoveries, and a third and
fourth address are the newcomers. Two keys are needed where a count is
compared with a cap, one where the property speaks of one key. Two addresses
of one bucket and one or two singles give every order of bucket sizes that
`_pick_eviction` distinguishes. Ages up to one above the largest threshold
distinguish "young", each threshold and "over". Three overlay nodes are the
fewest with a relay about a third. A second restart finds the state after the
first, because a restart keeps rows only.
Six ticks of `handshake` are two load windows, three buckets and three rate windows, so stamps, proofs and the lag
all expire within a behaviour, before and after the restart. Two blocks, one
reorganisation and a staleness of no block in `headers` let a view be extended, voted for, found stale and
refetched, and a competing tip of more work meet one of less. With one source per reader the choice
among candidates is trivial in the run; the proofs are for any number of nodes. `headers_stuck` has three blocks and
no restart, which is enough for its counterexample. In `shares`, pages of one, a walk of one and a
window of three leave holes that take both batches; the forks part at the second share; and
`PruneDepth` 2 prunes the first share under a tip of height four. In `blobs` each row is a page of
its own, so the cursor moves between any two rows; two seconds give equal and
different stamps; the issue list forgets at the second poll. In `challenge`
one hash per round is the sample that can miss what another was asked. What scales with the instance in a
way small ones may miss is what the proofs are for. `peers_vouchers` and
`transpeers_flags` exclude restarts to stay within minutes; the theorems cover them.

`handshake` sets `CHECK_DEADLOCK FALSE`: at `MaxTime` the clock ends and, with `MaxPerTick`
requests made, so does the behaviour. All other runs check deadlock.

## 4. Fairness

`PeerTable!FairSpec`: the verify loop is an endless loop over the networks it
has peers of, with its exceptions caught; each probe has a time-out, so a
queued probe is decided (`WF` of `Probe`, either outcome) and its verdict
applied (`WF` of the two marks). A round of one network starts when the rounds
of the others are over, for ever, hence strong fairness of `StartRound(n)`, which
is disabled while another round runs. No fairness of reports, extraction or
time is assumed, and none of restarts.

`TranspeerTable!FairSpec`: the query loop takes a batch for ever and its HTTP calls
time out, so `StartBatch` and each `Finish` are weakly fair. Answers, relays and
discoveries are not.

`TranspeerOverlay!FairSpec`: for a running node each loop goes on, so querying a contact,
probing a candidate and pruning are weakly fair, and time passes. Discovery by
scanning is not assumed: `MeshForms` starts from whatever link exists. Crashes
and recoveries are never forced.

`HandshakePow` has none: its properties are about single steps and the refinement of a
specification without fairness.

`HeaderSync!FairSpec`: `_reader_loop` and `_anchor_source_loop` are endless, catch what their cycle raises and
every fetch times out, so a step starts, each request is answered or given up, and the
step ends (`WF`); the daemon follows the network (`WF`, an assumption about monerod). That a
source asked for ever answers for ever again, for its tip as for rows, is `SF` of `AskTip`, `FetchMore` and
`FetchWhole`: it is what a network that is not down for good gives. It is assumed only of the nodes the
property is about, readers without a daemon. Saving is not forced.

`VenueShares!FairSpec`: what a sync does without an answer is weakly fair; `LeafFetched` and `FetchBatch` are
strongly fair, as a fetch that is repeated in every sync while a source serves it
succeeds some time. Nothing of the observer is: `ChainCompletes` must not need it.

`BlobGossip!FairSpec`: the step starts, over some canonical chain that is not empty, and passes each share (`WF` of `StartBlobs`, `SkipBlob`), and a repeated
fetch succeeds some time (`SF` of `ResolveBlob`). Gossip is not forced.

`Challenge!FairSpec`: hours pass, rounds start, fetches end, by time-out if need
be, and rounds end (`WF`). Which hashes are sampled is up to chance and not fair;
`SilentIsMarked` holds for every choice.

## 5. What is proved

TLAPS checks the following for every value of the constants that satisfies
the modules' named assumptions (finite sets, thresholds below `MaxAge`, positive
caps, model values that are not records).

| theorem | statement | how |
|---|---|---|
| `TypeCorrect` (PeerTableProofs) | `Spec => []TypeOK` | inductive; one lemma per action |
| `CooldownHolds` | `Spec => []NotWhileCooling`, failing writes included | inductive with `TypeOK` |
| `ServedIsProven` | `Spec => []ServedWasProven`, failing writes and restarts included | inductive with `TypeOK`, because the property speaks of the *rows* as well: a restart serves what their flags say |
| `FloodBounded` | `~DbMayFail => (Spec => []FloodBound)` | every step is an insertion with its charge, or keeps all sources, or removes entries (`StepShape`); then cardinalities |
| `GrowthIsWithinCap` | `~DbMayFail => (Spec => GrowthWithinCap)` | a share grows only in `AddNew`, whose guard compares `accepted` with the cap, and `FloodBound` bounds the share by `accepted` |
| `DiskIsMirror` | `~DbMayFail /\ Odd = {} => (Spec => []DiskMirrors)` | inductive, one lemma per method |
| `NetworkIsBounded` | under the same, `Spec => []NetworkBound` | the mirror makes a restart load what memory held |
| `CountsAreObserved` | `Spec => []CredibilityObserved`, failing writes and restarts included | `Credible`: the same of the *rows*, because a restart makes entries of them, and of the vouchers the count is rebuilt from at a merge |
| `TranspeersMirrored`, `RowsMirrored` | types and `DiskMirrors` of TranspeerTable | inductive (`Sound`) |
| `CapacityHolds` | `Spec => []CapacityBound`, restarts included | with `Sound`: an insertion at the limit removes a victim from the held entries |
| `BucketsHold` | `Spec => []BucketBound` | as above, per bucket |
| `TriedAreLast` | `Spec => TriedOutlast` | every eviction takes a member of `Victims`, hence of `Pool` |
| `FaithfulAreLast` | `Spec => FaithfulOutlast` | the same, with `Unfaithful` |
| `OverlayTypes` | `Spec => []TypeOK` (TranspeerOverlay) | inductive |
| `LastSeenIsAccounted` | `Spec => []LastSeenAccounted`, any number of nodes, readers, crashes, recoveries | strengthened by `Awake`: a running node's `quiet` is 0 |
| `OnlyReadersKnowThemselves` | `Spec => []NeverKnowsItself` | inductive: samples leave the requester out, and only a published reader seeds itself |
| `RunningAreRemembered` | `FewNodes => (Spec => LiveNeverForgotten)`, for networks of up to `PruneAge` + 1 nodes | `KnowledgeAges`: what is known of a running node is never older, in intervals, than there are nodes that know it; `SelvesAreReached`: a node that seeded itself reaches itself in every round, so its own entry is never old |
| `ReachedAreRemembered` | `PruneAge # 0 => (Spec => ReachedStays)`, any number of nodes, crashes and recoveries | an entry of age 1 keeps the interval from ending until it is queried |
| `TypeCorrect` (HandshakeProofs) | `Spec => []TypeOK` of HandshakePow | inductive with the order of all lists of stamps |
| `LimiterRefined` | `Spec => ImplementsLimiter`: every step of HandshakePow is one of `RateLimiter` or a stutter | all lists are in order of time, so pruning on use, sweeping by the newest stamp and doing nothing leave the same stamps in the window |
| `QuietPeersWorkFree`, `FloodsWork` | `Spec => QuietIsFree`, `Spec => FloodIsCharged` | `LoadOK`: an effort above 0 means that a threshold of requests is kept, none older than a window before the last computation; an effort of 0 that fewer came before it |
| `WorkCounts` | `Spec => WorkIsHonoured` | `AsksOK`: no challenge is of a bucket to come, so a solution is of this bucket, the last, or two back; it meets the effort that was asked |
| `CacheIsTidy` | cached proofs are in the order of their buckets, none of a future one, no two more than one apart | the invariant that lets `CachePut` drop expired proofs from the front where client.py:75-81 drops them wherever they are |
| `TypeCorrect` (HeaderSyncProofs) | `Spec => []TypeOK`: tables have one header per height, fetched rows continue the table they are merged with | inductive; `OverlayShape` gives what `put_headers` leaves, `ExchangeShape` what an answer of a source can be |
| `TradedUp` | `Spec => TradedForLonger`, any nodes, branches and difficulties | strengthened by what a running step of a node without a daemon knows: the view is still the one it started from; as long as no restart came since, the tip a source reported is still in its table (`TablesGrow`), and every candidate but the view itself is longer, if the view is current |
| `ViewHolds` | `Spec => []ViewIsServed` | `HeldInv`: the saved file holds its view as well, because a restart loads it; rows that link up are the chain of their last header (`LinkedIsChain`, by a least counterexample), so what either loop stores holds the view it stores with it |
| `TypeCorrect` (VenueSharesProofs) | `Spec => []TypeOK` | inductive with `SameQueue`, because taking an answer off one queue types the other |
| `PairingHolds` | `Spec => []AnswersMatch` | from `SameQueue`: `wire = pending`, kept because every way out of a wait empties or shortens both |
| `ForkHolds` | `Spec => ReaderStaysOnFork` | `WalkInv`: what a walk has found are ancestors of its tip; an ancestor's ancestors are the tip's (`Ancestors`, by a least counterexample) |
| `TipHolds` | `Spec => TipNeverFallsBack` | `TipInv`: the newest share of the canonical chain stays tagged and in the store, whatever is pruned; a sync under way either has a tip no older or still has that share to resolve |
| `TypeCorrect` (BlobGossipProofs) | `Spec => []TypeOK` | inductive, `IndexPage` for pages |
| `VenueBacked` | `Spec => []OnlyCommitted`, any nodes, polls, solutions, saves, restarts | `CInv` says the same of the saved rows, which a restart brings back |
| `NoneSkipped` | `Spec => []NoRowSkipped`, any page size, restarts on either side | `IInv`: for each pair of nodes (`Pair`), memory, saved rows, cursor and page under way agree on what has been read; a row stamped with the current second cannot be behind a cursor that stands earlier |
| `TypeCorrect` (ChallengeProofs) | `Spec => []TypeOK` of Challenge | inductive (`CInv`) with what ties samples, results and phases together |
| `MarksAreEarned` | `Spec => MarkIsEarned` | `FailuresOK` in `CInv`: what is counted and what has evidence are the same failures, through rounds, hours and restarts |
| `MarksAreServed` | `Spec => MarkIsServed` | from the same `FailuresOK` |

Three conditions are real. With `DbMayFail` a write error inside `add_peer` leaves an
entry stored and not counted, so `FloodBounded` and `GrowthIsWithinCap` fail. With an `Odd` key, or
a failing write, rows survive entries, so `DiskIsMirror` and with it `NetworkIsBounded` fail.
`FewNodes` is needed because a relayed entry keeps its age and is queried only in the
receiver's next round: nodes can hand an entry on, each just before it would have queried it, and
one of a chain longer than `PruneAge` prunes it although the node runs. With the code's three
days and hourly pruning that takes a chain of 73 nodes; TLC finds the behaviour with `PruneAge`
1 and three nodes, so the bound is tight. `ReachedAreRemembered` needs no such bound: an entry
is safe from the first query that reached it.

`TranspeerTableProofs` also proves that module's `TypeOK`. Beyond types it says that the two lists that stand
for the order of `last_queried` list the held entries and nothing else, a statement about the model, so it is no
property of a run.

Every safety and action property of the passing runs is now a theorem, with
the same definition, for every value of the constants. Only model-checked are the
liveness properties (`DeadEventuallyUnserved`, `LiveEventuallyServed`, `RotationReaches`,
`MeshForms`, `ReaderCatchesUp`, `ReaderResolves`, `SilentIsMarked`, `HonestIsCleared`,
`ChainCompletes`) and their fairness: ENABLED is out of the prover's reach.

How recursion is proved about. The library's induction theorems take an operator as a
parameter, which the provers cannot instantiate. Where a proof needs induction it takes a
least counterexample instead: `<` on the naturals is well-founded
(`NatLessThanWellFounded`, a statement about sets), so a non-empty set of naturals has a
least element (`NatMin`), and the step is proved at it. That suits recursive *functions* (`Anc`,
the list that `Without` builds), whose equation at each point is a fact; RECURSIVE
operators have none, so no module has one. `SelectSeq` has no facts
either: `Without` is a recursive function, and lists of stamps, which are in order of time,
are cut at the front (`Since`, `Recent`), as the code's `popleft` does. Where
the code filters such a list instead (server.py:98), the order, which the proofs establish, makes
both the same.

## 6. Where documents and code disagree

The `violation` run `headers_stuck` checks what docs/spec-chain-anchored-publication.md:899-900 and
the docstring of `_anchor_source_loop` say, that `--anchor-monerod` makes a node's store follow its
daemon. TLC finds the behaviour against it: after a
reorganisation at or below the stored tip the loop goes on asking for heights
above it, the rows never link, and the store stays on the orphaned branch until
the chain reader, if there are sources to read from, replaces it.

Met while reading, without a run of their own (`PROJECT.json` has each with its quotation):

| where | what a document says | what the code does |
|---|---|---|
| peerstore.py:337 | a cap "based on verification results" | `accepted` is never reduced; a source at its cap whose entries are gone gets no verdicts and no further cap |
| peerstore.py:684 | bucketing "already never evicts a lone honest name" | when all buckets have one entry, a lone one is evicted |
| peerstore.py:708 | "rotation eventually reaches every entry" | newcomers sort first; a stream of them starves an entry |
| publisher.py:66 | published transpeers answered "over at least 14 days" | `first_seen` of a relayed entry is the relaying node's claim |
| reader.py:519 | "transpeers uncontacted for three [days] are pruned" | step 7 stores a published transpeer as seen now without contact, a stopped one again after every pruning, and the node itself if it is published |
| client.py:350 | "transpeers uncontacted for three [days] are pruned" | relayed entries are added at any age; two nodes hand a stopped third to one another |
| client.py:133 | a proof is reused for its bucket | the first cached proof of an address is sent, also a stale one: after a server restart every request is challenged until it expires |
| reader.py:232 | keep the candidate with the greatest work | the stored view is read before the fetches; what the source loop stored meanwhile is overwritten |
| reader.py:246 | keep the candidate with the greatest work | when every source reports a higher tip the stored view is no candidate: a longer branch with less work replaces it, or rows that end short of the reported tip |
| reader.py:337 | no tag is read from a cached block that differs from the view | step 2 reads tags of any cached block |
| reader.py:575 | template records are upgraded to share records | a held blob is left alone by step 5 and by gossip |
| reader.py:477 | the cursor skips no rows | step 5 stamps rows with the time it started, behind cursors handed out since |
| reader.py:620 | gossip passes blobs on | the share that verified a blob is not stored, so the next node cannot verify it: one hop |
| publisher.py:49 | every blob ever committed is served | what was issued is in memory only |
| challenge.py:95 | a mark is cleared after 24 hours without a failure | failures are in memory only: after a restart the first clean round clears it |
| challenge.py:73 | lost hashes were failed by every challenged transpeer | those a single one was asked for count as well |
| node.py:565 | the observer walks "until known" | a hole behind known shares is never asked for again |
| stores.py:165 | the next sync "continues where it stopped" | pruning drops shares a day old, so leaves of a seven-day window are fetched anew |

Also: config.py:78-79 says a tried transpeer is "never evicted to make room for
a newcomer", and peerstore.py:670-671 falls back to all entries when all are
tried; `TriedOutlast` states what holds.

## 7. What is not modelled

- Hashing, EquiX and RandomX, Merkle proofs, block, share and blob codecs, varints: external or
  pure parsing. Network plugins' wire protocols: `PeerTable` takes their results.
- P2Pool's framing, handshake and peer lists: `VenueShares` starts at a connected client.
- Address generation, exclusion ranges and pacing of the scanner.
- Start-up, argument parsing, logging. Flags are CONSTANTS.
- The ranking and hand-off of peers (`_rank_key`, `_represent`, `handoff_unrepresented`), the weights
  of step 6 and `curate`'s choice: pure functions of a table.
- The proofs of work of peer entries and the extract loop's cache of them
  (six-hour buckets): `PeerTable`'s entries carry no proof.
- Commitments by Monero blocks in gossip, the block fetches of step 2, the discovery of venues.
- Sources and transpeers that make up rows, cut pages short or report a tip they do not serve: honest answers,
  late, missing and out of date ones included, are what is modelled.
- Queries to a running node that get no answer, in `TranspeerOverlay`.
- Clock skew between nodes, and clocks that jump.

## 8. What is left

1. Entry proofs through several stores: what is served verifies at the
   receiver while its bucket is current, and how far an entry travels in that time.
2. `Handoff`: `_rank_key`, `_represent`, `handoff_unrepresented` as functions, checked
   against a reference definition over all small tables.
3. `TranspeerTable` and `Challenge` composed: the mark through eviction and return.
4. Step 2 of the reader between `HeaderSync` and `VenueShares`: tags of blocks that a
   reorganisation orphaned.
5. The refinement of a set by `TranspeerTable`'s rotation: an abstract scheduler that
   queries each held entry once a round, implemented by `fresh` and `asked`.
