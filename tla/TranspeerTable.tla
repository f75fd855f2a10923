---------------------------- MODULE TranspeerTable ----------------------------
(***************************************************************************)
(* The transpeer side of one node's PeerStore: the bounded table of other  *)
(* transpeers, its copy in SQLite, admission and eviction, and the query   *)
(* loop, which picks a batch, queries it concurrently and merges what each *)
(* answer relays while the table goes on changing under it.                *)
(*                                                                         *)
(* Every node listens on the default port, so an address stands for a key. *)
(* The order of last_queried is kept as two sequences: the entries never   *)
(* queried in order of insertion, then the queried ones, oldest first.     *)
(***************************************************************************)
EXTENDS Integers, FiniteSets, Sequences, SequencesExt

CONSTANTS
  Addr,            \* transpeer addresses
  Bucket,          \* diversity buckets (address prefixes)
  BucketOf,        \* [Addr -> Bucket]
  Absent,          \* no entry
  Bucketed, TriedTable, AnchorRead,   \* command-line flags
  MaxTracked,      \* MAX_TRANSPEERS_TRACKED
  PerBucket,       \* MAX_TRANSPEERS_PER_SUBNET
  TriedThreshold,  \* TRIED_THRESHOLD; answers are counted up to it
  BatchSize,       \* QUERY_BATCH_SIZE
  PruneAge,        \* TRANSPEER_PRUNE_AGE
  MaxAge,          \* where ages saturate
  MaxRestarts      \* bound: restarts in a behaviour

Age == 0..MaxAge
Entry == [age : Age, first : Age, answered : 0..TriedThreshold,
          alive : BOOLEAN, published : BOOLEAN, unfaithful : BOOLEAN]
Row == [age : Age, first : Age, published : BOOLEAN, unfaithful : BOOLEAN]

ASSUME TranspeerConstants ==
  /\ IsFiniteSet(Addr)
  /\ BucketOf \in [Addr -> Bucket]
  /\ {Bucketed, TriedTable, AnchorRead} \subseteq BOOLEAN
  /\ {MaxTracked, PerBucket, TriedThreshold, BatchSize} \subseteq Nat \ {0}
  /\ {PruneAge, MaxAge, MaxRestarts} \subseteq Nat
  /\ PruneAge < MaxAge

ASSUME NoEntry == Absent \notin Entry /\ Absent \notin Row /\ Absent \notin Nat

VARIABLES
  table,     \* _transpeers
  disk,      \* the rows of the transpeers table
  fresh,     \* keys with last_queried = 0, in the order of the dict
  asked,     \* keys with last_queried > 0, oldest query first
  flight,    \* what the query round in progress knows of each key
  restarts   \* restarts so far

tables == <<table, disk, fresh, asked>>
vars == <<table, disk, fresh, asked, flight, restarts>>

-----------------------------------------------------------------------------
Held == {a \in Addr : table[a] # Absent}
InBucket(b) == {a \in Held : BucketOf[a] = b}
Tried(a) == TriedTable /\ table[a].answered >= TriedThreshold
RowOf(e) == [age |-> e.age, first |-> e.first,
             published |-> e.published, unfaithful |-> e.unfaithful]
Older(n) == IF n < MaxAge THEN n + 1 ELSE n
Younger(m, n) == IF m < n THEN m ELSE n

\* The least recently seen members of S; the code takes the first it meets.
LeastRecent(S) == {a \in S : \A o \in S : table[o].age <= table[a].age}

\* _pick_eviction: what may be dropped for a newcomer of bucket b ({}: the
\* newcomer is refused).
PoolAll == Held
Pool == LET untried == {a \in Held : ~Tried(a)} IN
        IF untried # {} THEN untried ELSE Held
PoolIn(b) == {a \in Pool : BucketOf[a] = b}
Fullest == {b \in Bucket : \A c \in Bucket :
                             Cardinality(PoolIn(c)) <= Cardinality(PoolIn(b))}
UnfaithfulSilent == {a \in Pool : AnchorRead /\ table[a].unfaithful /\ ~table[a].alive}
Unfaithful == {a \in Pool : AnchorRead /\ table[a].unfaithful}
Elsewhere(b) == {a \in Unfaithful : BucketOf[a] # b}
Victims(b) ==
  IF Unfaithful # {}
  THEN LeastRecent(IF Elsewhere(b) # {} THEN Elsewhere(b) ELSE Unfaithful)
  ELSE IF ~Bucketed THEN LeastRecent(Pool)
  ELSE UNION {LeastRecent(PoolIn(c)) : c \in Fullest \ {b}}

Init ==
  /\ table = [a \in Addr |-> Absent]
  /\ disk = [a \in Addr |-> Absent]
  /\ fresh = <<>>
  /\ asked = <<>>
  /\ flight = [a \in Addr |-> "idle"]
  /\ restarts = 0

-----------------------------------------------------------------------------
(* add_transpeer *)

Without(s, gone) ==
  LET kept[i \in 0..Len(s)] ==
        IF i = 0 THEN <<>>
        ELSE IF s[i] \in gone THEN kept[i - 1] ELSE Append(kept[i - 1], s[i])
  IN  kept[Len(s)]

StoreInMemory(a, e) ==
  /\ table' = [table EXCEPT ![a] = e]
  /\ UNCHANGED <<disk, fresh, asked>>

Store(a, e) ==
  /\ table' = [table EXCEPT ![a] = e]
  /\ disk' = [disk EXCEPT ![a] = RowOf(e)]
  /\ UNCHANGED <<fresh, asked>>

Refresh(a, age) ==
  /\ a \in Held
  /\ Store(a, [table[a] EXCEPT !.age = Younger(@, age)])

CappedGossip(a, gossiped) ==
  gossiped /\ Cardinality(InBucket(BucketOf[a])) >= PerBucket

Capped(a, gossiped) ==
  /\ gossiped \/ Bucketed
  /\ Cardinality(InBucket(BucketOf[a])) >= PerBucket

InsertKeepsRow(a, age, first, gone) ==
  LET e == [age |-> age, first |-> first, answered |-> 0, alive |-> FALSE,
            published |-> FALSE, unfaithful |-> FALSE]
  IN /\ table' = [x \in Addr |-> IF x = a THEN e
                                 ELSE IF x \in gone THEN Absent ELSE table[x]]
     /\ disk' = [disk EXCEPT ![a] = RowOf(e)]
     /\ fresh' = Append(Without(fresh, gone), a)
     /\ asked' = Without(asked, gone)

\* first_seen is set to the entry's last_seen, whoever claimed it.
Insert(a, age, first, gone) ==
  LET e == [age |-> age, first |-> first, answered |-> 0, alive |-> FALSE,
            published |-> FALSE, unfaithful |-> FALSE]
  IN /\ table' = [x \in Addr |-> IF x = a THEN e
                                 ELSE IF x \in gone THEN Absent ELSE table[x]]
     /\ disk' = [x \in Addr |-> IF x = a THEN RowOf(e)
                                ELSE IF x \in gone THEN Absent ELSE disk[x]]
     /\ fresh' = Append(Without(fresh, gone), a)
     /\ asked' = Without(asked, gone)

Admit(a, age, first, gossiped) ==
  /\ a \notin Held
  /\ ~Capped(a, gossiped)
  /\ IF Cardinality(Held) < MaxTracked THEN Insert(a, age, first, {})
     ELSE \E v \in Victims(BucketOf[a]) : Insert(a, age, first, {v})

Refuse(a, gossiped) ==
  /\ a \notin Held
  /\ \/ Capped(a, gossiped)
     \/ Cardinality(Held) >= MaxTracked /\ Victims(BucketOf[a]) = {}
  /\ UNCHANGED tables

AddTranspeer(a, age, first, gossiped) ==
  \/ Refresh(a, age)
  \/ Admit(a, age, first, gossiped)
  \/ Refuse(a, gossiped)

\* A scan hit, a candidate that answered, or a seed of the chain reader.
Discover(a) ==
  /\ AddTranspeer(a, 0, 0, FALSE)
  /\ UNCHANGED <<flight, restarts>>

-----------------------------------------------------------------------------
(* The query loop *)

Pos(a) == CHOOSE i \in 1..Len(fresh \o asked) : (fresh \o asked)[i] = a
Rank(a) == IF Bucketed
           THEN Cardinality({o \in InBucket(BucketOf[a]) : Pos(o) <= Pos(a)})
           ELSE Pos(a)
Late(a) == AnchorRead /\ table[a].unfaithful
Before(a, o) == \/ ~Late(a) /\ Late(o)
                \/ Late(a) = Late(o) /\ Rank(a) < Rank(o)

\* get_transpeers_for_query: the first BatchSize entries, the unfaithful ones
\* last; under --bucketed each bucket's next in turn, buckets in any order.
Batches ==
  {B \in SUBSET Held :
     /\ Cardinality(B) = Younger(BatchSize, Cardinality(Held))
     /\ \A a \in B, o \in Held \ B : ~Before(o, a)}

StartBatch ==
  /\ \A a \in Addr : flight[a] = "idle"
  /\ Held # {}
  /\ \E B \in Batches : flight' = [a \in Addr |-> IF a \in B THEN "out" ELSE "idle"]
  /\ UNCHANGED <<tables, restarts>>

\* The probe of a queried transpeer is answered: it is stored as seen now,
\* again if it was evicted or pruned meanwhile.
Answer(a) ==
  /\ flight[a] = "out"
  /\ AddTranspeer(a, 0, 0, FALSE)
  /\ flight' = [flight EXCEPT ![a] = "answered"]
  /\ UNCHANGED restarts

\* One item of a's /transpeers answer.  A last_seen of 0 is stored as it is,
\* with a first_seen of now.
Relay(a, b, age, first) ==
  /\ flight[a] = "answered"
  /\ first = age \/ (age = MaxAge /\ first = 0)
  /\ AddTranspeer(b, age, first, TRUE)
  /\ UNCHANGED <<flight, restarts>>

\* mark_queried, when the whole query of a is over: it counts as answered if
\* the probe was and nothing after it raised.
Marked(e, ok) ==
  [e EXCEPT !.alive = ok,
            !.answered = IF ok THEN Younger(TriedThreshold, @ + 1) ELSE @]

\* The query loop before its except branch marked failed queries, too.
FinishAnswered(a) ==
  /\ flight[a] # "idle"
  /\ flight' = [flight EXCEPT ![a] = "idle"]
  /\ IF a \notin Held \/ flight[a] # "answered" THEN UNCHANGED <<table, fresh, asked>>
     ELSE /\ table' = [table EXCEPT ![a] = Marked(@, TRUE)]
          /\ fresh' = Without(fresh, {a})
          /\ asked' = Append(Without(asked, {a}), a)
  /\ UNCHANGED <<disk, restarts>>

Finish(a) ==
  /\ flight[a] # "idle"
  /\ flight' = [flight EXCEPT ![a] = "idle"]
  /\ IF a \notin Held THEN UNCHANGED <<table, fresh, asked>>
     ELSE /\ \E ok \in BOOLEAN :
               /\ ok => flight[a] = "answered"
               /\ table' = [table EXCEPT ![a] = Marked(@, ok)]
          /\ fresh' = Without(fresh, {a})
          /\ asked' = Append(Without(asked, {a}), a)
  /\ UNCHANGED <<disk, restarts>>

-----------------------------------------------------------------------------
(* Marks set by the chain reader and the challenger *)

SetPublished(a, flag) ==
  /\ AnchorRead
  /\ a \in Held
  /\ Store(a, [table[a] EXCEPT !.published = flag])
  /\ UNCHANGED <<flight, restarts>>

SetUnfaithful(a, flag) ==
  /\ AnchorRead
  /\ a \in Held
  /\ Store(a, [table[a] EXCEPT !.unfaithful = flag])
  /\ UNCHANGED <<flight, restarts>>

-----------------------------------------------------------------------------
Stale == {a \in Held : table[a].age > PruneAge}

Prune ==
  /\ table' = [a \in Addr |-> IF a \in Stale THEN Absent ELSE table[a]]
  /\ disk' = [a \in Addr |-> IF a \in Stale THEN Absent ELSE disk[a]]
  /\ fresh' = Without(fresh, Stale)
  /\ asked' = Without(asked, Stale)
  /\ UNCHANGED <<flight, restarts>>

\* _load: answers, liveness and query times are gone, and the rotation starts
\* from the order of the rows.
Restart ==
  /\ restarts < MaxRestarts
  /\ restarts' = restarts + 1
  /\ table' = [a \in Addr |->
       IF disk[a] = Absent THEN Absent
       ELSE [age |-> disk[a].age, first |-> disk[a].first, answered |-> 0,
             alive |-> FALSE, published |-> disk[a].published,
             unfaithful |-> disk[a].unfaithful]]
  /\ fresh' \in SetToSeqs({a \in Addr : disk[a] # Absent})
  /\ asked' = <<>>
  /\ flight' = [a \in Addr |-> "idle"]
  /\ UNCHANGED <<disk>>

Aged(e) == [e EXCEPT !.age = Older(@), !.first = Older(@)]
AgedRow(r) == [age |-> Older(r.age), first |-> Older(r.first),
               published |-> r.published, unfaithful |-> r.unfaithful]

Tick ==
  /\ table' = [a \in Addr |-> IF a \in Held THEN Aged(table[a]) ELSE Absent]
  /\ disk' = [a \in Addr |-> IF disk[a] # Absent THEN AgedRow(disk[a]) ELSE Absent]
  /\ UNCHANGED <<fresh, asked, flight, restarts>>

Next ==
  \/ \E a \in Addr : Discover(a)
  \/ StartBatch
  \/ \E a \in Addr : Answer(a)
  \/ \E a, b \in Addr, age, first \in Age : Relay(a, b, age, first)
  \/ \E a \in Addr : Finish(a)
  \/ \E a \in Addr, flag \in BOOLEAN : SetPublished(a, flag)
  \/ \E a \in Addr, flag \in BOOLEAN : SetUnfaithful(a, flag)
  \/ Prune
  \/ Restart
  \/ Tick

Spec == Init /\ [][Next]_vars

\* The query loop runs for ever and its HTTP calls time out.
FairSpec ==
  /\ Spec
  /\ WF_vars(StartBatch)
  /\ \A a \in Addr : WF_vars(Finish(a))

-----------------------------------------------------------------------------
(* Properties *)

\* Every variable has its type; fresh and asked, which stand for the order of
\* last_queried, list the entries held and nothing else.
TablesOK ==
  /\ table \in [Addr -> Entry \cup {Absent}]
  /\ disk \in [Addr -> Row \cup {Absent}]
TypeOK ==
  /\ TablesOK
  /\ flight \in [Addr -> {"idle", "out", "answered"}]
  /\ restarts \in 0..MaxRestarts
  /\ fresh \o asked \in SetToSeqs(Held)

\* The table never exceeds MAX_TRANSPEERS_TRACKED, also after a restart has
\* loaded the rows without checking the cap: an eviction reaches the disk.
CapacityBound == Cardinality(Held) <= MaxTracked

\* Under --bucketed no bucket exceeds its cap on any path: scan, candidate,
\* relay, seeding, a late answer of an entry evicted in flight, or restart.
BucketBound ==
  Bucketed => \A b \in Bucket : Cardinality(InBucket(b)) <= PerBucket

\* The rows are the persisted part of the table.
DiskMirrors ==
  \A a \in Addr : disk[a] = IF a \in Held THEN RowOf(table[a]) ELSE Absent

Evicts == restarts' = restarts /\ Held' \ Held # {} /\ Held \ Held' # {}

\* A tried transpeer is evicted only when every other one is tried as well.
TriedOutlast ==
  [][Evicts => \A v \in Held \ Held' : Tried(v) => \A a \in Held : Tried(a)]_vars

\* With the chain reader on, a faithful transpeer is never evicted while an
\* unfaithful one that is no better tried is kept.
FaithfulOutlast ==
  [][AnchorRead /\ Evicts =>
       \A v \in Held \ Held', a \in Held :
         table[a].unfaithful /\ (Tried(a) => Tried(v)) => table[v].unfaithful]_vars

\* Without newcomers the rotation reaches every entry again and again.
RotationReaches ==
  \A a \in Addr :
    <>[][Held' \subseteq Held]_vars
      => []<>(a \in Held => flight[a] # "idle")
=============================================================================
