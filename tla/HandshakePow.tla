---------------------------- MODULE HandshakePow ----------------------------
(***************************************************************************)
(* The rate limit, the load-driven handshake proof of work of a server and *)
(* the clients that solve, cache and resend proofs.                        *)
(*                                                                         *)
(* Time is counted in ticks.  A proof is the record of what it binds (the  *)
(* server's node id and a time bucket; each client keeps to its own        *)
(* address) and of the highest effort its hash happens to meet.            *)
(***************************************************************************)
EXTENDS Stamps, Functions

CONSTANTS
  Client,         \* addresses that make requests
  NoProof, NoAsk,
  Limit,          \* RATE_LIMIT_REQUESTS
  RateWindow,     \* RATE_LIMIT_WINDOW
  MaxKeys,        \* 4 * RATE_LIMIT_REQUESTS: table size that starts a clean-up
  LoadWindow,     \* LOAD_WINDOW_SECS
  RecomputeEvery, \* the 5 seconds of current_difficulty
  Threshold,      \* LOAD_THRESHOLD
  LoadSpan,       \* 9 * LOAD_THRESHOLD: from the least to the greatest effort
  MinEffort,      \* HANDSHAKE_MIN_EFFORT
  MaxEffort,      \* HANDSHAKE_MAX_EFFORT
  BucketSecs,     \* HANDSHAKE_BUCKET_SECS
  MaxTime,        \* bound: ticks
  MaxPerTick,     \* bound: requests in one tick
  MaxRestarts     \* bound: server restarts

ASSUME HandshakeConstants ==
  /\ IsFiniteSet(Client)
  /\ {Limit, RateWindow, RecomputeEvery, LoadWindow, LoadSpan, BucketSecs, Threshold, MinEffort}
       \subseteq Nat \ {0}
  /\ {MaxKeys, MaxTime, MaxPerTick, MaxRestarts, MaxEffort} \subseteq Nat
  /\ MinEffort <= MaxEffort
  /\ RecomputeEvery <= LoadWindow

ASSUME ProofAssumption ==
  NoProof \notin [node : Nat, bucket : Nat, strength : Nat]

Time == 0..MaxTime
Proof == [node : 0..MaxRestarts, bucket : Nat, strength : MinEffort..MaxEffort]

VARIABLES
  now,
  nodeId,      \* the server's node id, new at every start
  load,        \* LoadTracker._requests
  recomputed,  \* LoadTracker._last_recompute
  difficulty,  \* LoadTracker._current_difficulty
  limits,      \* _rate_limits: time stamps of the addresses in the table
  cache,       \* cache[c]: HandshakeProofCache in insertion order
  ask,         \* ask[c]: the challenge c is solving
  reply        \* reply[c]: how c's last request was answered

server == <<nodeId, load, recomputed, difficulty, limits>>
vars == <<now, server, cache, ask, reply>>

Init ==
  /\ now = 0 /\ nodeId = 0
  /\ load = <<>> /\ recomputed = -RecomputeEvery /\ difficulty = 0
  /\ limits = <<>>
  /\ cache = [c \in Client |-> <<>>]
  /\ ask = [c \in Client |-> NoAsk]
  /\ reply = [c \in Client |-> "none"]

-----------------------------------------------------------------------------
(* The server *)

Bucket == now \div BucketSecs

\* _check_rate_limit; a list is in order of time, so what is too old comes first.
Recent(c) ==
  IF c \in DOMAIN limits THEN Since(limits[c], now - RateWindow + 1) ELSE <<>>
Admits(c) == Len(Recent(c)) < Limit

With(c, stamps) == [k \in DOMAIN limits \cup {c} |-> IF k = c THEN stamps ELSE limits[k]]
CleanedByFirst(table) ==
  Restrict(table, {k \in DOMAIN table : table[k] # <<>> /\ now - Head(table[k]) < RateWindow})
Cleaned(table) ==
  Restrict(table, {k \in DOMAIN table :
                     table[k] # <<>> /\ now - table[k][Len(table[k])] < RateWindow})

LimitsAfter(c) ==
  IF Admits(c)
  THEN LET table == With(c, Append(Recent(c), now)) IN
       IF Cardinality(DOMAIN table) > MaxKeys THEN Cleaned(table) ELSE table
  ELSE With(c, Recent(c))

\* record_request and current_difficulty
EffortUncapped(rate) ==
  IF rate < Threshold THEN 0
  ELSE MinEffort + ((rate - Threshold) * (MaxEffort - MinEffort)) \div LoadSpan
Effort(rate) ==
  IF rate < Threshold THEN 0
  ELSE LET scaled == MinEffort + ((rate - Threshold) * (MaxEffort - MinEffort)) \div LoadSpan
       IN  IF scaled < MaxEffort THEN scaled ELSE MaxEffort

Recorded == Append(load, now)
KeepAll(requests) == requests
Pruned(requests) == Since(requests, now - LoadWindow)

NotDueForLong == now - recomputed <= LoadWindow
NotDue == now - recomputed < RecomputeEvery

AssessLoad ==
  IF NotDue
  THEN /\ load' = Recorded
       /\ UNCHANGED <<recomputed, difficulty>>
  ELSE /\ load' = Pruned(Recorded)
       /\ recomputed' = now
       /\ difficulty' = Effort(Len(load'))

\* verify_handshake
ValidThisBucket(p, effort) ==
  p.node = nodeId /\ p.bucket = Bucket /\ p.strength >= effort
Valid(p, effort) ==
  p.node = nodeId /\ p.bucket \in {Bucket, Bucket - 1} /\ p.strength >= effort

\* _check_handshake_pow
Passes(p, effort) == effort = 0 \/ (p # NoProof /\ Valid(p, effort))

\* A request of c at a handler that demands proof p unless it is free.
Handle(c, free, p, denial) ==
  /\ Cardinality({i \in DOMAIN load : load[i] = now}) < MaxPerTick
  /\ limits' = LimitsAfter(c)
  /\ IF Admits(c)
     THEN /\ AssessLoad
          /\ reply' = [reply EXCEPT ![c] = IF free \/ Passes(p, difficulty') THEN "ok" ELSE denial]
     ELSE /\ load' = Recorded
          /\ reply' = [reply EXCEPT ![c] = "limited"]
          /\ UNCHANGED <<recomputed, difficulty>>
  /\ UNCHANGED <<now, nodeId>>

-----------------------------------------------------------------------------
(* The client *)

\* The proof sent with a request: the oldest cached one for this address.
FirstCached(c) == IF cache[c] = <<>> THEN NoProof ELSE Head(cache[c])

\* HandshakeProofCache.put: a key already there keeps its place.  Proofs come in
\* the order of their buckets, so those that expire are the first.
CachePut(proofs, p) ==
  LET same(q) == q.node = p.node /\ q.bucket = p.bucket
      updated == [i \in DOMAIN proofs |-> IF same(proofs[i]) THEN p ELSE proofs[i]]
      all == IF \E i \in DOMAIN proofs : same(proofs[i]) THEN updated ELSE Append(proofs, p)
  IN  LastOf(all, Cardinality({i \in DOMAIN all : all[i].bucket >= p.bucket - 1}))

\* solve_handshake: what is found meets the effort, maybe more.
Solution(demand, strength) ==
  [node |-> demand.node, bucket |-> demand.bucket, strength |-> strength]

\* GET /transpeer: never asks for a proof, but counts and recomputes.
Probe(c) ==
  /\ ask[c] = NoAsk
  /\ Handle(c, TRUE, NoProof, "ok")
  /\ UNCHANGED <<cache, ask>>

\* GET /peers or /transpeers, first attempt of _get_with_pow.
Request(c) ==
  /\ ask[c] = NoAsk
  /\ Handle(c, FALSE, FirstCached(c), "challenge")
  /\ ask' = [ask EXCEPT ![c] =
               IF reply'[c] = "challenge" /\ difficulty' <= MaxEffort
               THEN [node |-> nodeId, bucket |-> Bucket, effort |-> difficulty'] ELSE NoAsk]
  /\ UNCHANGED cache

\* The challenge is solved: the proof is cached and the request repeated once.
Retry(c) ==
  /\ ask[c] # NoAsk
  /\ \E strength \in ask[c].effort..MaxEffort :
       LET p == Solution(ask[c], strength) IN
       /\ cache' = [cache EXCEPT ![c] = CachePut(@, p)]
       /\ Handle(c, FALSE, p, "refused")
  /\ ask' = [ask EXCEPT ![c] = NoAsk]

Restart ==
  /\ nodeId < MaxRestarts
  /\ nodeId' = nodeId + 1
  /\ load' = <<>> /\ recomputed' = -RecomputeEvery /\ difficulty' = 0
  /\ limits' = <<>>
  /\ UNCHANGED <<now, cache, ask, reply>>

Tick ==
  /\ now < MaxTime
  /\ now' = now + 1
  /\ UNCHANGED <<server, cache, ask, reply>>

Next ==
  \/ \E c \in Client : Probe(c) \/ Request(c) \/ Retry(c)
  \/ Restart
  \/ Tick

Spec == Init /\ [][Next]_vars

-----------------------------------------------------------------------------
(* Properties *)

\* Every variable has its type; the effort asked for is 0 or within the limits
\* a client accepts.
TypeOK ==
  /\ now \in Time /\ nodeId \in 0..MaxRestarts
  /\ load \in Seq(Time)
  /\ recomputed \in Time \cup {-RecomputeEvery}
  /\ difficulty \in {0} \cup MinEffort..MaxEffort
  /\ DOMAIN limits \subseteq Client /\ \A c \in DOMAIN limits : limits[c] \in Seq(Time)
  /\ \A c \in Client : cache[c] \in Seq(Proof)
  /\ \A c \in Client : ask[c] = NoAsk \/
       (ask[c].node \in 0..MaxRestarts /\ ask[c].bucket \in Nat
        /\ ask[c].effort \in MinEffort..MaxEffort)
  /\ reply \in [Client -> {"none", "ok", "limited", "challenge", "refused"}]

\* The table of time stamps, pruned on use and cleaned up only when it is large,
\* decides as a limiter that forgets nothing: _check_rate_limit neither lets an
\* address exceed the limit after a clean-up nor refuses one below it.
Limiter == INSTANCE RateLimiter WITH
  Window <- RateWindow,
  admitted <- [c \in Client |-> Recent(c)],
  verdict <- [c \in Client |-> CASE reply[c] = "none" -> "none"
                                 [] reply[c] = "limited" -> "limited"
                                 [] OTHER -> "admitted"]
ImplementsLimiter == Limiter!Spec

Requests(from, to) == Cardinality({i \in DOMAIN load : load[i] \in from..to})

\* No client is asked for work unless the requests of the last load window, and
\* of the few seconds by which the difficulty may lag, reach the threshold.
QuietIsFree ==
  [][\A c \in Client : Request(c) /\ reply'[c] = "challenge"
       => Requests(now - LoadWindow - RecomputeEvery + 1, now)' >= Threshold]_vars

\* Nobody passes without a proof once a load over the threshold has lasted
\* longer than that lag.
FloodIsCharged ==
  [][\A c \in Client : Request(c) /\ reply'[c] = "ok" /\ FirstCached(c) = NoProof
       => Requests(now - LoadWindow, now - RecomputeEvery)' < Threshold]_vars

\* A client that did the work it was asked for is refused only if meanwhile the
\* server restarted, raised its demand, or the proof's two hours ran out.
WorkIsHonoured ==
  [][\A c \in Client : Retry(c) /\ reply'[c] = "refused"
       => \/ nodeId # ask[c].node
          \/ difficulty' > ask[c].effort
          \/ Bucket > ask[c].bucket + 1]_vars
=============================================================================
