--------------------------- MODULE MCHandshakePow ---------------------------
(* Instances of HandshakePow for model checking. *)
EXTENDS HandshakePow

CONSTANTS c1, c2

MCClients == {c1, c2}
=============================================================================
