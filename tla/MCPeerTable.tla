---------------------------- MODULE MCPeerTable ----------------------------
(* Instances of PeerTable for TLC: every source in a bucket of its own, or  *)
(* all of them in one; all keys in one network, or each in its own.         *)
EXTENDS PeerTable, TLC

CONSTANTS k1, k2, s1, s2, b1, b2, n1, n2

MCKey == {k1, k2}
MCOneKey == {k1}
MCNet == {n1}
MCNetOf == [k \in Key |-> n1]
MCTwoNets == {n1, n2}
MCOwnNet == [k \in Key |-> IF k = k1 THEN n1 ELSE n2]
MCSource == {s1, s2}
MCOneSource == {s1}
MCBucket == {b1, b2}
MCOwnBucket == [s \in Source |-> IF s = s1 THEN b1 ELSE b2]
MCSharedBucket == [s \in Source |-> b1]
MCNone == {}
MCSwap == [x \in Key \cup Net |-> CASE x = k1 -> k2 [] x = k2 -> k1
                                    [] x = n1 -> n2 [] OTHER -> n1]
MCSharedSymmetry == {MCSwap} \cup Permutations(Source)
=============================================================================
