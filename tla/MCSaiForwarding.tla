--------------------------- MODULE MCSaiForwarding ---------------------------
(* Neighbours a and, link local, l on one interface, b on another; a may move *)
(* to port 2, which has no handle.  The next hop sets of routes r and s       *)
(* overlap, have the same addresses or carry a label; h is the subnet route   *)
(* of a /32 interface address.                                                *)
EXTENDS SaiForwarding

MCIntfOf == [n \in Neighbors |-> IF n = "b" THEN "i2" ELSE "i1"]

MCHosts ==
  [n \in Neighbors |-> {[mac |-> 1, port |-> 1]}
                        \cup (IF n = "a" THEN {[mac |-> 1, port |-> 2]} ELSE {})]

nexthop(n, label, weight) == [nbr |-> n, label |-> label, weight |-> weight]

via(S) == [action |-> "NEXTHOPS", nexthops |-> S, connected |-> FALSE]
subnet(n) == [action |-> "NEXTHOPS", nexthops |-> {nexthop(n, 0, 0)}, connected |-> TRUE]
special(action) == [action |-> action, nexthops |-> {}, connected |-> FALSE]

a == nexthop("a", 0, 0)
b == nexthop("b", 0, 0)

MCForward ==
  [r \in Routes |->
     CASE r = "r" -> {via({a, b}), via({nexthop("a", 5, 0)}), special("DROP")}
       [] r = "s" -> {via({nexthop("a", 0, 2), b}), subnet("b"), special("TO_CPU")}
       [] OTHER   -> {subnet("l")}]

=============================================================================
