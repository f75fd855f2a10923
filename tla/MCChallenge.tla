----------------------------- MODULE MCChallenge -----------------------------
(* Instances of Challenge for TLC: two transpeers, two blobs. *)
EXTENDS Challenge

CONSTANTS a, b, h1, h2

MCEntry == {a, b}
MCHash == {h1, h2}
=============================================================================
