---------------------------- MODULE MCBlobGossip ----------------------------
(* Instances of BlobGossip for TLC: a publisher, a reader, a node that asks. *)
EXTENDS BlobGossip

CONSTANTS p, r, q

MCNode == {p, r, q}
MCBlob == 1..2
MCAsksBoth == {<<q, r>>, <<q, p>>}
=============================================================================
