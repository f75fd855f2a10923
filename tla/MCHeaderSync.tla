---------------------------- MODULE MCHeaderSync ----------------------------
(* Instances of HeaderSync for model checking. *)
EXTENDS HeaderSync

CONSTANTS d1, r1, left, right

MCNode == {d1, r1}

MCDaemon == {d1}

MCBranch == {left, right}
\* A branch may be shorter and heavier.
MCDifficulty == [b \in MCBranch |-> IF b = left THEN 2 ELSE 3]
=============================================================================
