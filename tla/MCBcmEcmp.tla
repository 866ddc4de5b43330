------------------------------- MODULE MCBcmEcmp -------------------------------
(* Neighbour a is behind port p1, b behind p2. *)
EXTENDS BcmEcmpLate

MCNeighborPorts ==
  [n \in Neighbors |->
     CASE n = "a" -> {"p1"} [] n = "b" -> {"p2"} [] OTHER -> {}]

MCGroups == {{"a", "b"}}

=============================================================================
