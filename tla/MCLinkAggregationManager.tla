----------------------- MODULE MCLinkAggregationManager -----------------------
(* The instances of LinkAggregationManager that TLC checks. *)
EXTENDS LinkAggregationManager
=============================================================================
