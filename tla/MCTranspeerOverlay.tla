-------------------------- MODULE MCTranspeerOverlay --------------------------
(* Instances of TranspeerOverlay for TLC. *)
EXTENDS TranspeerOverlay, TLC

CONSTANTS n1, n2, n3

MCThree == {n1, n2, n3}
MCNone == {}
MCOneMortal == {n3}
MCTwoReaders == {n1, n2}
MCSymmetry == Permutations(Node \ Mortal)
=============================================================================
