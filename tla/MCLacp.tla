-------------------------------- MODULE MCLacp --------------------------------
(* Small instances of Lacp for TLC: two switches, a and b, joined by up to  *)
(* two links, or one switch facing partners that are not modelled.          *)
EXTENDS Lacp, TLC

\* a1--b1 and a2--b2; one aggregate per switch
LinkedPeer == [p \in Ports |-> CASE p = "a1" -> "b1" [] p = "b1" -> "a1"
                                 [] p = "a2" -> "b2" [] p = "b2" -> "a2"
                                 [] OTHER -> NoPort]

NoPeer == [p \in Ports |-> NoPort]

SystemLag == [i \in Ids |-> CASE i \in {"a1", "a2", "a3"} -> "a"
                              [] i \in {"b1", "b2", "b3"} -> "b"
                              [] i = NoPort -> "none"
                              [] OTHER -> i]

\* One switch; partners of different systems
OneSystemLag == [i \in Ids |-> IF i \in Ports THEN "a" ELSE i]

\* Ports of the switch are interchangeable.
Symmetry == Permutations(Ports)

AllLinks == [p \in Ports |-> Cardinality({q \in Ports : Lag[q] = Lag[p]})]

TwoLinks == [p \in Ports |-> 2]

Says(states, heard) == [info : [id : Strangers, state : states], heard : heard]

\* Partners that are ready to use every link, x one that aggregates them or not
Partners ==
  {pdu \in Says({{"ACTIVE", "AGGREGATABLE", "IN_SYNC"}, {"IN_SYNC"}}, {TRUE}) :
     "AGGREGATABLE" \in pdu.info.state \/ pdu.info.id = "x"}
=============================================================================
