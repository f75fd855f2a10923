--------------------------- MODULE TranspeerOverlay ---------------------------
(***************************************************************************)
(* Several nodes running the query, candidate, scan and prune loops        *)
(* against each other, and what the chain reader adds to the tables: what  *)
(* each node knows of the others and how old it is.                        *)
(* Admission and eviction are TranspeerTable's; here every table has room. *)
(*                                                                         *)
(* Time passes in prune intervals.  In each, a node that is up prunes once *)
(* and queries every transpeer it held when the interval began; how the    *)
(* nodes' loops interleave within an interval is open.  Ages saturate at   *)
(* MaxAge, above the pruning threshold.                                    *)
(***************************************************************************)
EXTENDS Integers, FiniteSets

CONSTANTS
  Node,
  Mortal,       \* nodes that may crash
  Readers,      \* nodes with --anchor-read
  Published,    \* nodes that the lists on chain may name
  Absent,       \* no entry
  PruneAge,     \* TRANSPEER_PRUNE_AGE, in prune intervals
  MaxAge,       \* where ages saturate
  GossipLimit,  \* GOSSIP_SAMPLE_SIZE
  MaxRecovers   \* bound: recoveries in a behaviour

Age == 0..MaxAge

ASSUME OverlayConstants ==
  /\ IsFiniteSet(Node) /\ Mortal \cup Readers \cup Published \subseteq Node
  /\ {PruneAge, MaxAge, GossipLimit, MaxRecovers} \subseteq Nat
  /\ PruneAge < MaxAge

ASSUME NoAge == Absent \notin Age

VARIABLES
  known,     \* known[n][m]: age of last_seen of n's entry for m
  cand,      \* cand[n]: addresses that asked n for /transpeer, not yet probed
  up,        \* running nodes
  quiet,     \* time since a node last ran (0 while it runs)
  asked,     \* asked[n]: queried by n in this interval, or new in it
  pruned,    \* nodes that have pruned in this interval
  recovers,  \* recoveries so far
  seeded     \* history: time since a reader stored a node without contact

vars == <<known, cand, up, quiet, asked, pruned, recovers, seeded>>

-----------------------------------------------------------------------------
Contacts(n) == {m \in Node : known[n][m] # Absent}
Older(a) == IF a < MaxAge THEN a + 1 ELSE a

FresherNow(a, b) == 0

\* max of two last_seen times, one of which may be missing.
Fresher(a, b) ==
  IF a = Absent THEN b ELSE IF b = Absent THEN a ELSE IF a < b THEN a ELSE b

SamplesAll(m, requester) == {S \in SUBSET Contacts(m) : Cardinality(S) <= GossipLimit}

\* get_transpeers_for_gossip: a sample of the table without the requester.
Samples(m, requester) ==
  LET all == Contacts(m) \ {requester} IN
  {S \in SUBSET all : Cardinality(S) = GossipLimit \/ (S = all /\ Cardinality(all) < GossipLimit)}

Init ==
  /\ known = [n \in Node |-> [m \in Node |-> Absent]]
  /\ cand = [n \in Node |-> {}]
  /\ up = Node
  /\ quiet = [n \in Node |-> 0]
  /\ asked = [n \in Node |-> {}]
  /\ pruned = Node
  /\ recovers = 0
  /\ seeded = [n \in Node |-> MaxAge]

ContactedSilently(n, m, merged) ==
  /\ known' = [known EXCEPT ![n] = [merged EXCEPT ![m] = 0]]
  /\ asked' = [asked EXCEPT ![n] = @ \cup {m}]
  /\ UNCHANGED cand

\* n's /transpeer request is answered by m: n stores m as seen now, and the
\* handler queues n as a candidate of m.
Contacted(n, m, merged) ==
  /\ known' = [known EXCEPT ![n] = [merged EXCEPT ![m] = 0]]
  /\ cand' = [cand EXCEPT ![m] = @ \cup {n}]
  /\ asked' = [asked EXCEPT ![n] = @ \cup {m} \cup
                 {x \in Node : known[n][x] = Absent /\ merged[x] # Absent}]

\* The scan loop meets m.
Discover(n, m) ==
  /\ {n, m} \subseteq up /\ n # m
  /\ Contacted(n, m, known[n])
  /\ UNCHANGED <<up, quiet, pruned, recovers, seeded>>

\* query_transpeer: probe m, then fetch and merge the list it relays.
Query(n, m) ==
  /\ n \in up /\ m \in Contacts(n)
  /\ IF m \in up
     THEN \E S \in Samples(m, n) :
            Contacted(n, m, [x \in Node |-> IF x \in S
                                            THEN Fresher(known[n][x], known[m][x])
                                            ELSE known[n][x]])
     ELSE /\ asked' = [asked EXCEPT ![n] = @ \cup {m}]
          /\ UNCHANGED <<known, cand>>
  /\ UNCHANGED <<up, quiet, pruned, recovers, seeded>>

\* probe_candidates for one queued address; the probe is a /transpeer request.
ProbeCandidate(n, m) ==
  /\ n \in up /\ m \in cand[n]
  /\ LET popped == [cand EXCEPT ![n] = @ \ {m}] IN
     IF m \in up
     THEN /\ known' = [known EXCEPT ![n][m] = 0]
          /\ cand' = [popped EXCEPT ![m] = @ \cup {n}]
          /\ asked' = [asked EXCEPT ![n] = @ \cup {m}]
     ELSE /\ cand' = popped
          /\ UNCHANGED <<known, asked>>
  /\ UNCHANGED <<up, quiet, pruned, recovers, seeded>>

\* _step7_seeding for one published transpeer.  It need not run, the list may be
\* old; it may be n itself, as nothing is compared with n's own address or id.
\* A held entry keeps its last_seen, a new one is seen now.
Seed(n, m) ==
  /\ n \in up \cap Readers /\ m \in Published
  /\ known[n][m] = Absent
  /\ known' = [known EXCEPT ![n][m] = 0]
  /\ asked' = [asked EXCEPT ![n] = @ \cup {m}]
  /\ seeded' = [seeded EXCEPT ![m] = 0]
  /\ UNCHANGED <<cand, up, quiet, pruned, recovers>>

PruneAtAge(n) ==
  /\ n \in up \ pruned
  /\ pruned' = pruned \cup {n}
  /\ known' = [known EXCEPT ![n] = [m \in Node |->
                 IF @[m] # Absent /\ @[m] >= PruneAge THEN Absent ELSE @[m]]]
  /\ UNCHANGED <<cand, up, quiet, asked, recovers, seeded>>

\* prune_stale, transpeer part.
Prune(n) ==
  /\ n \in up \ pruned
  /\ pruned' = pruned \cup {n}
  /\ known' = [known EXCEPT ![n] = [m \in Node |->
                 IF @[m] # Absent /\ @[m] > PruneAge THEN Absent ELSE @[m]]]
  /\ UNCHANGED <<cand, up, quiet, asked, recovers, seeded>>

\* A node stops; its table is on disk, its candidates are not.
Crash(n) ==
  /\ n \in up \cap Mortal
  /\ up' = up \ {n}
  /\ cand' = [cand EXCEPT ![n] = {}]
  /\ UNCHANGED <<known, quiet, asked, pruned, recovers, seeded>>

\* A start begins with empty query times, and the prune loop sleeps first.
Recover(n) ==
  /\ n \in Mortal \ up
  /\ recovers < MaxRecovers
  /\ recovers' = recovers + 1
  /\ up' = up \cup {n}
  /\ quiet' = [quiet EXCEPT ![n] = 0]
  /\ asked' = [asked EXCEPT ![n] = {}]
  /\ pruned' = pruned \cup {n}
  /\ UNCHANGED <<known, cand, seeded>>

\* An interval ends when every running node has done its rounds.
Tick ==
  /\ \A n \in up : n \in pruned /\ Contacts(n) \subseteq asked[n]
  /\ known' = [n \in Node |-> [m \in Node |->
                 IF known[n][m] = Absent THEN Absent ELSE Older(known[n][m])]]
  /\ seeded' = [m \in Node |-> Older(seeded[m])]
  /\ quiet' = [n \in Node |-> IF n \in up THEN 0 ELSE Older(quiet[n])]
  /\ asked' = [n \in Node |-> {}]
  /\ pruned' = {}
  /\ UNCHANGED <<cand, up, recovers>>

Next ==
  \/ \E n, m \in Node : Discover(n, m)
  \/ \E n, m \in Node : Query(n, m)
  \/ \E n, m \in Node : ProbeCandidate(n, m)
  \/ \E n, m \in Node : Seed(n, m)
  \/ \E n \in Node : Prune(n)
  \/ \E n \in Node : Crash(n)
  \/ \E n \in Node : Recover(n)
  \/ Tick

Spec == Init /\ [][Next]_vars

\* Every loop of a running node goes on for ever, and so does time.
FairSpec ==
  /\ Spec
  /\ \A n, m \in Node : WF_vars(Query(n, m)) /\ WF_vars(ProbeCandidate(n, m))
  /\ \A n \in Node : WF_vars(Prune(n))
  /\ WF_vars(Tick)

-----------------------------------------------------------------------------
(* Properties *)

\* Every variable has its type, and only mortal nodes are ever down.
TypeOK ==
  /\ known \in [Node -> [Node -> Age \cup {Absent}]]
  /\ cand \in [Node -> SUBSET Node]
  /\ up \in SUBSET Node /\ Node \ Mortal \subseteq up
  /\ quiet \in [Node -> Age]
  /\ asked \in [Node -> SUBSET Node]
  /\ pruned \in SUBSET Node
  /\ recovers \in 0..MaxRecovers
  /\ seeded \in [Node -> Age]

\* However often an entry is relayed, merged, persisted and relayed again, its
\* last_seen is accounted for: the node was running then, or it was then that
\* some reader found it published and stored it without contact.
LastSeenAccounted ==
  \A n, m \in Node : known[n][m] # Absent =>
    known[n][m] >= quiet[m] \/ known[n][m] >= seeded[m]

\* Only a reader that finds itself published becomes its own contact or its own
\* candidate, though of the other paths none but the scanner compares node ids:
\* answers leave the requester out, also those of readers that have seeded it.
NeverKnowsItself ==
  \A n \in Node \ (Readers \cap Published) : n \notin Contacts(n) \cup cand[n]

\* Until a node comes back from an outage, with the old entries of its database
\* to relay, no running node is forgotten by one that knows it.  Relayed entries
\* keep their age, so this needs a network of no more than PruneAge + 1 nodes: a
\* longer chain of nodes can hand an entry on until one of them prunes it.
LiveNeverForgotten ==
  [][recovers = 0 => \A n, m \in Node : m \in Contacts(n) /\ m \notin Contacts(n)'
                       => m \notin up]_vars

\* Nodes that hang together, in whatever direction they learned of each other,
\* end up all knowing one another, and stay so.
Linked(S) ==
  \A A \in SUBSET S \ {{}, S} :
    \E n \in A, m \in S \ A : m \in Contacts(n) \/ n \in Contacts(m)
MeshForms ==
  [](Linked(Node) => <>[](\A n, m \in Node : n # m => m \in Contacts(n)))
=============================================================================
