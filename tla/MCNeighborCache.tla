---------------------------- MODULE MCNeighborCache ----------------------------
(* Instances of NeighborCache for TLC: two places where the neighbour may be, *)
(* each behind a port of its own.                                             *)
EXTENDS NeighborCache, TLC

CONSTANTS l1, l2, p1, p2

TwoPorts == (l1 :> p1) @@ (l2 :> p2)

=============================================================================
