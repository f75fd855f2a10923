------------------------------- MODULE Challenge -------------------------------
(* Faithfulness challenges (anchor/challenge.py): every hour a node asks the  *)
(* transpeers it knows for samples of the blobs it has verified, counts what  *)
(* they fail and marks them unfaithful.  Time is counted in rounds, a failure *)
(* is its age; the ages a node still counts are 0..Window.                    *)
EXTENDS Naturals, FiniteSets, Sequences, SequencesExt

CONSTANTS
  Entry,        \* transpeers
  Hash,         \* hashes of verified blobs
  PerHour,      \* PER_HOUR
  FailLimit,    \* FAIL_LIMIT
  Window,       \* FAIL_WINDOW
  MaxRestarts   \* bound: restarts of the node

ASSUME ChallengeAssumption ==
  /\ IsFiniteSet(Entry) /\ IsFiniteSet(Hash)
  /\ {PerHour, FailLimit, Window} \subseteq Nat \ {0} /\ MaxRestarts \in Nat

VARIABLES
  known,      \* Reader.verified_hashes(MIN_AGE)
  serves,     \* serves[e]: what e returns when it is asked now
  state,      \* state[e]: not in the table, in it, in it and alive for ten minutes
  mark,       \* the entries whose persisted unfaithful flag is set
  lost,       \* Challenger.lost; in memory only, like _failures
  failures,   \* Challenger._failures, oldest first, as ages
  phase,      \* "wait" for the hour to pass, "due", "round"
  sample,     \* sample[e]: what is still to be asked of e in this round
  good, bad,  \* good[e], bad[e]: results of this round
  evidence,   \* history: failures of hashes that others returned in their round
  restarts

round == <<sample, good, bad>>
vars == <<known, serves, state, mark, lost, failures, phase, round, evidence, restarts>>

Nothing == [e \in Entry |-> {}]
Never == [e \in Entry |-> <<>>]

Init ==
  /\ known = {} /\ lost = {} /\ mark = {}
  /\ serves = [e \in Entry |-> Hash]
  /\ state = [e \in Entry |-> "gone"]
  /\ failures = Never /\ evidence = Never
  /\ phase = "wait"
  /\ sample = Nothing /\ good = Nothing /\ bad = Nothing
  /\ restarts = 0

-----------------------------------------------------------------------------
(* The environment *)

\* The reader or gossip verified another blob ten minutes ago.
Verify(h) ==
  /\ h \notin known
  /\ known' = known \cup {h}
  /\ UNCHANGED <<serves, state, mark, lost, failures, phase, round, evidence, restarts>>

\* A transpeer gets, drops or withholds a blob, or cannot be reached.
Toggle(e, h) ==
  /\ serves' = [serves EXCEPT ![e] = IF h \in @ THEN @ \ {h} ELSE @ \cup {h}]
  /\ UNCHANGED <<known, state, mark, lost, failures, phase, round, evidence, restarts>>

\* The table: an entry that leaves takes its mark with it, one that is added
\* again has none.
Changes(e, s) ==
  /\ state[e] # s
  /\ state' = [state EXCEPT ![e] = s]
  /\ mark' = IF s = "gone" THEN mark \ {e} ELSE mark
  /\ UNCHANGED <<known, serves, lost, failures, phase, round, evidence, restarts>>

-----------------------------------------------------------------------------
(* A round *)

\* Failures are dropped from the front, up to the first within the window.
Recent(ages) ==
  LET kept == {i \in 1..Len(ages) : \E j \in 1..i : ages[j] + 1 <= Window}
      n == Cardinality(kept)
  IN [i \in 1..n |-> ages[Len(ages) - n + i] + 1]

\* The loop sleeps for an hour after a round, so every round has an hour
\* bucket of its own and _asked excludes nothing.
Hour ==
  /\ phase = "wait"
  /\ phase' = "due"
  /\ failures' = [e \in Entry |-> Recent(failures[e])]
  /\ evidence' = [e \in Entry |-> Recent(evidence[e])]
  /\ UNCHANGED <<known, serves, state, mark, lost, round, restarts>>

\* The round's hashes and entries are a snapshot.
SamplesAll(e) == IF state[e] = "up" THEN {known \ lost} ELSE {{}}
SamplesOf(e) ==
  LET available == known \ lost
      n == IF Cardinality(available) < PerHour THEN Cardinality(available) ELSE PerHour
  IN IF state[e] = "up" THEN kSubset(n, available) ELSE {{}}
StartRound ==
  /\ phase = "due"
  /\ phase' = "round"
  /\ sample' \in {f \in [Entry -> SUBSET Hash] : \A e \in Entry : f[e] \in SamplesOf(e)}
  /\ UNCHANGED <<known, serves, state, mark, lost, failures, good, bad, evidence, restarts>>

\* The transpeers are asked concurrently, whatever becomes of their entries.
Ask(e, h) ==
  /\ h \in sample[e]
  /\ sample' = [sample EXCEPT ![e] = @ \ {h}]
  /\ IF h \in serves[e] THEN good' = [good EXCEPT ![e] = @ \cup {h}] /\ UNCHANGED bad
                        ELSE bad' = [bad EXCEPT ![e] = @ \cup {h}] /\ UNCHANGED good
  /\ UNCHANGED <<known, serves, state, mark, lost, failures, phase, evidence, restarts>>

Asked(e) == good[e] \cup bad[e]
NewlyLostNone == {}
NewlyLostAny == UNION {bad[e] : e \in Entry}
NewlyLost == (UNION {bad[e] : e \in Entry}) \ (UNION {good[e] : e \in Entry})

\* Of a longer list only the newest FailLimit matter: older ones expire first.
Newest(ages) == IF Len(ages) > FailLimit
                THEN SubSeq(ages, Len(ages) - FailLimit + 1, Len(ages)) ELSE ages
Counted(ages, n) == Newest(ages \o [i \in 1..n |-> 0])
Witnessed(e) == {h \in bad[e] : \E o \in Entry \ {e} : h \in good[o]}

ClearsNever(ages) == FALSE
ClearsBelowLimit(ages) == Len(ages) < FailLimit
Clears(ages) == Len(ages) = 0

EndRound ==
  /\ phase = "round" /\ sample = Nothing
  /\ phase' = "wait"
  /\ lost' = lost \cup NewlyLost
  /\ failures' = [e \in Entry |->
       Counted(failures[e], Cardinality(bad[e] \ NewlyLost))]
  /\ LET challenged == {e \in Entry : Asked(e) # {}}
     IN mark' = (mark \cup {e \in challenged : Len(failures'[e]) >= FailLimit
                                               /\ state[e] # "gone"})
                  \ {e \in challenged : Clears(failures'[e])}
  /\ evidence' = [e \in Entry |-> Counted(evidence[e], Cardinality(Witnessed(e)))]
  /\ good' = Nothing /\ bad' = Nothing
  /\ UNCHANGED <<known, serves, state, sample, restarts>>

\* The failures are forgotten, the marks are loaded; no entry is alive yet.
Restart ==
  /\ restarts < MaxRestarts
  /\ restarts' = restarts + 1
  /\ lost' = {} /\ failures' = Never /\ evidence' = Never
  /\ phase' = "wait"
  /\ sample' = Nothing /\ good' = Nothing /\ bad' = Nothing
  /\ state' = [e \in Entry |-> IF state[e] = "up" THEN "held" ELSE state[e]]
  /\ UNCHANGED <<known, serves, mark>>

Next ==
  \/ \E h \in Hash : Verify(h)
  \/ \E e \in Entry, h \in Hash : Toggle(e, h) \/ Ask(e, h)
  \/ \E e \in Entry, s \in {"gone", "held", "up"} : Changes(e, s)
  \/ Hour \/ StartRound \/ EndRound \/ Restart

Spec == Init /\ [][Next]_vars

\* The challenge loop runs for ever and every fetch ends, if by time-out.
FairSpec ==
  /\ Spec
  /\ WF_vars(Hour) /\ WF_vars(StartRound) /\ WF_vars(EndRound)
  /\ \A e \in Entry, h \in Hash : WF_vars(Ask(e, h))

-----------------------------------------------------------------------------
(* Properties *)

\* Every variable has its type; results are only of the running round.
TypeOK ==
  /\ known \subseteq Hash /\ lost \subseteq known
  /\ serves \in [Entry -> SUBSET Hash]
  /\ state \in [Entry -> {"gone", "held", "up"}]
  /\ mark \subseteq {e \in Entry : state[e] # "gone"}
  /\ \A e \in Entry : /\ Len(failures[e]) <= FailLimit
                      /\ ToSet(failures[e]) \subseteq 0..Window
                      /\ sample[e] \cap Asked(e) = {} /\ good[e] \cap bad[e] = {}
                      /\ Cardinality(sample[e] \cup Asked(e)) <= PerHour
                      /\ phase # "round" => sample[e] \cup Asked(e) = {}
  /\ phase \in {"wait", "due", "round"} /\ restarts \in 0..MaxRestarts

\* A transpeer is marked only on FailLimit failures within the window, each of
\* a hash that another transpeer did return in the same round, whatever is
\* lost, evicted or restarted meanwhile.
MarkIsEarned ==
  [][\A e \in Entry : e \notin mark /\ e \in mark' => Len(evidence'[e]) >= FailLimit]_vars

\* While the node runs, a mark is removed only if the entry was evicted or has
\* not failed for a whole window.
MarkIsServed ==
  [][\A e \in Entry : e \in mark /\ e \notin mark' /\ state'[e] # "gone"
       => evidence'[e] = <<>>]_vars

Reached(e) == state[e] = "up" /\ known \ lost # {}

\* A transpeer that returns nothing is marked in the end, if another that
\* returns everything was challenged whenever it was: the hashes the other was
\* not asked are lost one by one, but never all of them.
SilentIsMarked ==
  \A e \in Entry : \A o \in Entry \ {e} :
    /\ [](serves[o] = Hash /\ (state[e] = "up" => state[o] = "up"))
    /\ <>[](state[e] = "up" /\ serves[e] = {} /\ known # {})
    => <>[](e \in mark)

\* A transpeer that returns everything loses its mark in the end.
HonestIsCleared ==
  \A e \in Entry :
    (<>[](Reached(e) /\ serves[e] = Hash)) => <>[](e \notin mark)
=============================================================================
