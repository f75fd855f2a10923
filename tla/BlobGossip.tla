------------------------------ MODULE BlobGossip ------------------------------
(* List blobs and their commitment records: how a publisher issues a blob and *)
(* P2Pool commits to it (publisher.py, auxrpc.py), how the chain reader       *)
(* resolves the blobs of the shares it holds (reader.py, step 5), how nodes   *)
(* pass rows on by /blobs/index and /blob (reader.gossip, server.py), and     *)
(* what survives a restart (blobdb.py, node._anchor_loop).                    *)
(*                                                                            *)
(* A blob is its hash, a number, since the index is sorted by it.  One share  *)
(* per blob stands for all that commit to it.                                 *)
EXTENDS Naturals, FiniteSets, Sequences, SequencesExt

CONSTANTS
  Node,
  Publisher,    \* the node with the merge-mining RPC
  Blob,         \* the hashes, as numbers
  Persistent,   \* the nodes that do not run --in-memory
  Readers,      \* bound: the nodes whose reader or observer comes by shares
  Asks,         \* pairs <<n, m>>: n has m in its transpeer table and queries it
  Page,         \* rows per /blobs/index answer
  Keep,         \* ISSUED_KEEP
  MaxClock,     \* bound: seconds
  CanCrash,     \* bound: the nodes that may restart,
  MaxCrashes,   \* and how often altogether
  None

ASSUME NodeAssumption ==
  Publisher \in Node /\ Persistent \cup Readers \cup CanCrash \subseteq Node
ASSUME BlobAssumption == Blob \subseteq Nat \ {0} /\ IsFiniteSet(Blob)
ASSUME AsksAssumption == Asks \subseteq {p \in Node \X Node : p[1] # p[2]}
ASSUME BoundAssumption ==
  {Page, Keep, MaxClock} \subseteq Nat \ {0} /\ MaxCrashes \in Nat

VARIABLES
  clock,
  issued,    \* Publisher._issued, oldest first; in memory only
  jobs,      \* the aux hashes P2Pool got by polling and still mines
  mined,     \* the blobs some share of the venue commits to
  shares,    \* shares[n]: those whose share n holds (files)
  db,        \* BlobDB
  disk,      \* what _anchor_loop saved of it
  cursor,    \* Reader._cursors, per asked node; in memory only
  page,      \* an index page of m that n is working through
  step,      \* step 5 of n's running sync: its time and the shares left
  passed,    \* history: the rows of m that n has worked through
  crashes

vars == <<clock, issued, jobs, mined, shares, db, disk, cursor, page, step, passed, crashes>>

\* `stored` is history: when the row was really added.
Time == 0..MaxClock
Row == [seen : Time, stored : Time, kinds : SUBSET {"share", "template"}]
Pos == Time \X (Blob \cup {0})
Start == <<0, 0>>
Step == [now : Time, todo : SUBSET Blob]
Pages == UNION {[rows : [R -> Row], to : Pos, ok : BOOLEAN] : R \in (SUBSET Blob) \ {{}}}

ASSUME NoneAssumption == None \notin Row \cup Step \cup Pages

Holds(n, b) == db[n][b] # None
Held(n) == {b \in Blob : Holds(n, b)}
Before(p, q) == p[1] < q[1] \/ (p[1] = q[1] /\ p[2] < q[2])
At(n, b) == <<db[n][b].seen, b>>

\* What /blob/{hash} answers: a blob that was issued, or a stored one.
Serves(m, b) == (m = Publisher /\ b \in ToSet(issued)) \/ Holds(m, b)

\* BlobDB.add: a held row keeps its first_seen and learns the commitment.
WithRecords(row, kinds) == [row EXCEPT !.kinds = @ \cup kinds]
Added(n, b, kinds, now) ==
  [db EXCEPT ![n][b] =
     IF @ = None THEN [seen |-> now, stored |-> clock, kinds |-> kinds]
     ELSE WithRecords(@, kinds)]

Init ==
  /\ clock = 1
  /\ issued = <<>> /\ jobs = {} /\ mined = {}
  /\ shares = [n \in Node |-> {}]
  /\ db = [n \in Node |-> [b \in Blob |-> None]]
  /\ disk = db
  /\ cursor = [n \in Node |-> [m \in Node |-> Start]]
  /\ page = [n \in Node |-> [m \in Node |-> None]]
  /\ step = [n \in Node |-> None]
  /\ passed = [n \in Node |-> [m \in Node |-> {}]]
  /\ crashes = 0

-----------------------------------------------------------------------------
(* Publishing *)

Kept(all) == SubSeq(all, IF Len(all) > Keep THEN 2 ELSE 1, Len(all))

\* merge_mining_get_aux_block: the list's body or the period has changed, so
\* the answer is a blob that was not issued since the start.
Poll(b) ==
  /\ b \notin ToSet(issued)
  /\ issued' = Kept(Append(issued, b))
  /\ jobs' = jobs \cup {b}
  /\ UNCHANGED <<clock, mined, shares, db, disk, cursor, page, step, passed, crashes>>

\* P2Pool finds a share under one of its jobs and broadcasts it.
MineShare(b) ==
  /\ b \in jobs \ mined
  /\ mined' = mined \cup {b}
  /\ UNCHANGED <<clock, issued, jobs, shares, db, disk, cursor, page, step, passed, crashes>>

\* merge_mining_submit_solution: work on a job that meets the aux difficulty,
\* a share or less than one; rejected if the publisher forgot the hash.
SubmitSolution(b) ==
  /\ b \in ToSet(issued)
  /\ db' = Added(Publisher, b, {"template"}, clock)
  /\ UNCHANGED <<clock, issued, jobs, mined, shares, disk, cursor, page, step, passed, crashes>>

-----------------------------------------------------------------------------
(* The reader's step 5 *)

\* Steps 3 and 4 of a sync, or the observer, verified the share and stored it.
LearnShare(n, b) ==
  /\ n \in Readers /\ b \in mined \ shares[n]
  /\ shares' = [shares EXCEPT ![n] = @ \cup {b}]
  /\ UNCHANGED <<clock, issued, jobs, mined, db, disk, cursor, page, step, passed, crashes>>

\* The step walks the venues' canonical chains, which hold some of the shares:
\* others are off the fork or out of the window.  It takes the time once, before
\* the first of its fetches.
StartBlobs(n) ==
  /\ step[n] = None
  /\ \E canonical \in (SUBSET shares[n]) \ {{}} :
       step' = [step EXCEPT ![n] = [now |-> clock, todo |-> canonical]]
  /\ UNCHANGED <<clock, issued, jobs, mined, shares, db, disk, cursor, page, passed, crashes>>

WithoutShare(n, b) ==
  [step EXCEPT ![n] =
     IF @.todo = {b} THEN None ELSE [now |-> @.now, todo |-> @.todo \ {b}]]

Sources(n, b) == {m \in Node \ {n} : Serves(m, b)}

\* The shares come in the chain's order, one that is the same in every sync.
NextShare(n, b) ==
  /\ step[n] # None /\ b \in step[n].todo
  /\ \A o \in step[n].todo : o <= b

\* A blob that is not held is fetched from the first source that answers.
ResolveBlob(n, b) ==
  /\ NextShare(n, b) /\ ~Holds(n, b) /\ Sources(n, b) # {}
  /\ db' = Added(n, b, {"share"}, step[n].now)
  /\ step' = WithoutShare(n, b)
  /\ UNCHANGED <<clock, issued, jobs, mined, shares, disk, cursor, page, passed, crashes>>

\* It is held already, or no source answers: on to the next share.
AbandonStep(n, b) ==
  /\ NextShare(n, b)
  /\ step' = [step EXCEPT ![n] = None]
  /\ UNCHANGED <<clock, issued, jobs, mined, shares, db, disk, cursor, page, passed, crashes>>

SkipBlob(n, b) ==
  /\ NextShare(n, b)
  /\ step' = WithoutShare(n, b)
  /\ UNCHANGED <<clock, issued, jobs, mined, shares, db, disk, cursor, page, passed, crashes>>

-----------------------------------------------------------------------------
(* Gossip *)

\* BlobDB.index_since: the first rows after the cursor.
After(m, from) == {b \in Held(m) : Before(from, At(m, b))}
Rows(m, from) ==
  {b \in After(m, from) :
     Cardinality({o \in After(m, from) : Before(At(m, o), At(m, b))}) < Page}

FetchIndex(n, m) ==
  /\ <<n, m>> \in Asks /\ page[n][m] = None
  /\ LET R == Rows(m, cursor[n][m]) IN
     \E last \in R :
       /\ \A o \in R : ~Before(At(m, last), At(m, o))
       /\ page' = [page EXCEPT ![n][m] =
            [rows |-> [b \in R |-> db[m][b]], to |-> At(m, last), ok |-> TRUE]]
  /\ UNCHANGED <<clock, issued, jobs, mined, shares, db, disk, cursor, step, passed, crashes>>

\* n is done with row b; after the last one the cursor moves if all went well.
MovesAlways(ok) == TRUE
Moves(ok) == ok
RowDone(n, m, b, processed) ==
  LET left == DOMAIN page[n][m].rows \ {b}
      ok   == page[n][m].ok /\ processed
  IN /\ page' = [page EXCEPT ![n][m] =
          IF left = {} THEN None
          ELSE [rows |-> [o \in left |-> @.rows[o]], to |-> @.to, ok |-> ok]]
     /\ cursor' = IF left = {} /\ Moves(ok)
                  THEN [cursor EXCEPT ![n][m] = page[n][m].to] ELSE cursor
     /\ passed' = IF processed THEN [passed EXCEPT ![n][m] = @ \cup {b}] ELSE passed
     /\ UNCHANGED <<clock, issued, jobs, mined, shares, disk, step, crashes>>

\* The rows of a page are worked through in its order.
NextRow(n, m, b) ==
  /\ page[n][m] # None
  /\ LET rows == page[n][m].rows
     IN /\ b \in DOMAIN rows
        /\ \A o \in DOMAIN rows : ~Before(<<rows[o].seen, o>>, <<rows[b].seen, b>>)

\* A blob already held: nothing is fetched, no commitment is learned.
RowHeld(n, m, b) ==
  NextRow(n, m, b) /\ Holds(n, b) /\ UNCHANGED db /\ RowDone(n, m, b, TRUE)

\* The blob cannot be fetched (now).
RowFails(n, m, b) ==
  NextRow(n, m, b) /\ ~Holds(n, b) /\ UNCHANGED db /\ RowDone(n, m, b, FALSE)

\* A share record is verified by fetching the share from the same node;
\* template records are dropped.
VerifiedTemplates(m, b, kinds) == kinds
Verified(m, b, kinds) == IF b \in shares[m] THEN kinds \cap {"share"} ELSE {}
RowVerified(n, m, b) ==
  /\ NextRow(n, m, b) /\ ~Holds(n, b) /\ Serves(m, b)
  /\ Verified(m, b, page[n][m].rows[b].kinds) # {}
  /\ db' = Added(n, b, Verified(m, b, page[n][m].rows[b].kinds), clock)
  /\ RowDone(n, m, b, TRUE)

\* No commitment could be verified, or its share not fetched: the blob is
\* dropped, and the row counts as processed.
RowUnverified(n, m, b) ==
  NextRow(n, m, b) /\ ~Holds(n, b) /\ Serves(m, b) /\ UNCHANGED db /\ RowDone(n, m, b, TRUE)

-----------------------------------------------------------------------------
(* Persistence, restarts, time *)

Stored(rows) == {b \in Blob : rows[b] # None}
Records(rows) ==
  {r \in Blob \X {"share", "template"} : r[1] \in Stored(rows) /\ r[2] \in rows[r[1]].kinds}
Changed(n) == \/ Cardinality(Stored(db[n])) # Cardinality(Stored(disk[n]))
              \/ Cardinality(Records(db[n])) # Cardinality(Records(disk[n]))

\* _anchor_loop saves when the number of rows or of records has changed.
Save(n) ==
  /\ n \in Persistent /\ Changed(n)
  /\ disk' = [disk EXCEPT ![n] = db[n]]
  /\ UNCHANGED <<clock, issued, jobs, mined, shares, db, cursor, page, step, passed, crashes>>

\* What was issued, the cursors and all that runs is lost; P2Pool mines on.
\* It takes a second at least.
Restart(n) ==
  /\ n \in CanCrash /\ crashes < MaxCrashes
  /\ clock < MaxClock /\ clock' = clock + 1
  /\ crashes' = crashes + 1
  /\ db' = [db EXCEPT ![n] = disk[n]]
  /\ issued' = IF n = Publisher THEN <<>> ELSE issued
  /\ cursor' = [cursor EXCEPT ![n] = [m \in Node |-> Start]]
  /\ passed' = [passed EXCEPT ![n] = [m \in Node |-> {}]]
  /\ page' = [page EXCEPT ![n] = [m \in Node |-> None]]
  /\ step' = [step EXCEPT ![n] = None]
  /\ UNCHANGED <<jobs, mined, shares, disk>>

Tick ==
  /\ clock < MaxClock
  /\ clock' = clock + 1
  /\ UNCHANGED <<issued, jobs, mined, shares, db, disk, cursor, page, step, passed, crashes>>

RowStep(n, m, b) ==
  \/ RowHeld(n, m, b)
  \/ RowFails(n, m, b)
  \/ RowVerified(n, m, b)
  \/ RowUnverified(n, m, b)

Next ==
  \/ \E b \in Blob : Poll(b) \/ MineShare(b) \/ SubmitSolution(b)
  \/ \E n \in Node, b \in Blob : LearnShare(n, b)
  \/ \E n \in Node : StartBlobs(n)
  \/ \E n \in Node, b \in Blob : ResolveBlob(n, b) \/ SkipBlob(n, b)
  \/ \E n, m \in Node : FetchIndex(n, m)
  \/ \E n, m \in Node, b \in Blob : RowStep(n, m, b)
  \/ \E n \in Node : Save(n) \/ Restart(n)
  \/ Tick

Spec == Init /\ [][Next]_vars

\* The loops run for ever; each fetch times out, and one that is repeated
\* for ever while a source serves the blob succeeds in the end.
FairSpec ==
  /\ Spec
  /\ \A n \in Readers : WF_vars(StartBlobs(n))
  /\ \A n \in Readers, b \in Blob :
       WF_vars(SkipBlob(n, b)) /\ SF_vars(ResolveBlob(n, b))

-----------------------------------------------------------------------------
(* Properties *)

Tables == [Node -> [Blob -> Row \cup {None}]]

\* Every variable has its type; a sync resolves only shares that are held.
TypeOK ==
  /\ clock \in Time /\ crashes \in 0..MaxCrashes
  /\ issued \in Seq(Blob) /\ Len(issued) <= Keep
  /\ jobs \subseteq Blob /\ mined \subseteq jobs
  /\ shares \in [Node -> SUBSET mined]
  /\ db \in Tables /\ disk \in Tables
  /\ cursor \in [Node -> [Node -> Pos]]
  /\ page \in [Node -> [Node -> Pages \cup {None}]]
  /\ passed \in [Node -> [Node -> SUBSET Blob]]
  /\ step \in [Node -> Step \cup {None}]
  /\ \A n \in Node : step[n] # None => step[n].now <= clock /\ step[n].todo \subseteq shares[n]

\* Spec section 3.3: a row is stored only with a verified commitment, so what
\* is not committed to on the venue never leaves its publisher, whatever is
\* polled, submitted, saved and gossiped.
OnlyCommitted ==
  \A n \in Node, b \in Blob :
    /\ Holds(n, b) /\ n # Publisher => b \in mined
    /\ Holds(n, b) /\ "share" \in db[n][b].kinds => b \in mined

\* The pages of a moving index leave nothing out, restarts of both sides
\* included: a row of m that has its second for itself and was stamped when it
\* was stored lies behind n's cursor only if n has worked through it.
Passed(n, m, b) ==
  Holds(m, b) /\ db[m][b].seen < cursor[n][m][1] => b \in passed[n][m]
NoRowSkipped ==
  \A n, m \in Node : \A b \in Held(m) :
    /\ db[m][b].stored = db[m][b].seen
    /\ \A o \in Held(m) \ {b} : db[m][o].seen # db[m][b].seen
    => Passed(n, m, b)

\* A node ends up with the blob of every share that stays on the canonical chains
\* its syncs walk, if another node goes on serving the blob: a failed fetch is
\* repeated at the next sync, and keeps no other share from its blob.
Walks(n, b) == step[n] = None /\ step'[n] # None => b \in step'[n].todo
ReaderResolves ==
  \A n \in Readers, b \in Blob :
    <>[](b \in shares[n] /\ Sources(n, b) # {}) /\ <>[][Walks(n, b)]_vars => <>[]Holds(n, b)
=============================================================================
