-------------------------------- MODULE Stamps --------------------------------
(* Lists of time stamps, oldest first, from which what is too old is dropped. *)
EXTENDS Integers, Sequences, FiniteSets

\* The last n of a list.
LastOf(s, n) == [i \in 1..n |-> s[Len(s) - n + i]]

\* What is left when stamps before the cutoff are taken off the front.
Since(stamps, cutoff) ==
  LastOf(stamps, Cardinality({i \in 1..Len(stamps) : \E j \in 1..i : stamps[j] >= cutoff}))
=============================================================================
