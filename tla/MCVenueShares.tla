---------------------------- MODULE MCVenueShares ----------------------------
(* Instances of VenueShares for TLC: a chain of four shares and a fork. *)
EXTENDS VenueShares

MCShare == 1..5
MCParent == [s \in MCShare |-> IF s = 4 THEN 2 ELSE IF s = 5 THEN 3 ELSE s - 1]
MCBlock == {4, 5}
=============================================================================
