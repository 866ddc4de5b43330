--------------------------- MODULE MCStateObservers ---------------------------
(* Next hops 1 and 2, and 3, the interface's own address, are in one subnet,  *)
(* prefix s, with the mirror's destination, whose host route is prefix d.     *)
EXTENDS StateObservers

MCIntfOf == [a \in Addresses |-> "i1"]
MCCovers == <<"d", "s">>
MCSubnetOf == [p \in {"s"} |-> 3]

via(client, hops) == [client |-> client, hops |-> hops]

MCRouteValues == [p \in {"d"} |-> {via("OPENR", {1}), via("BGPD", {1, 2})}]
MCLabelValues == [l \in Labels |-> {via("BGPD", {1})}]

at(mac, port) == [mac |-> mac, port |-> port]

MCLocations ==
  [a \in {1, 2, Dest} |-> IF a = 1 THEN {at(1, 1), at(1, 2)} ELSE IF a = 2 THEN {at(2, 2)} ELSE {at(3, 3)}]

MCBootMirror == Mirror("gre", 0)
MCMirrorConfigs == {Mirror("gre", 0), Mirror("sflow", 1)}

=============================================================================
