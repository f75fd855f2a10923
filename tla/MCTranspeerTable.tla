--------------------------- MODULE MCTranspeerTable ---------------------------
(* Instances of TranspeerTable for TLC: one crowded bucket and some singles. *)
EXTENDS TranspeerTable, TLC

CONSTANTS x1, x2, y1, z1, X, Y, Z

MCAddr3 == {x1, x2, y1}
MCAddr4 == {x1, x2, y1, z1}
MCBucket == {X, Y, Z}
MCBucketOf == [a \in Addr |-> CASE a \in {x1, x2} -> X [] a = y1 -> Y [] OTHER -> Z]
MCSymmetry == Permutations({x1, x2})
=============================================================================
