---------------------------- MODULE MCTunManager ----------------------------
(* An instance of TunManager: an interface behind a port, with two v4      *)
(* addresses of a subnet, one of which has two masks, and a v6 address,    *)
(* and a virtual interface to which a v4 address moves, with a link-local  *)
(* one.                                                                    *)
EXTENDS TunManager

MCPortsOf == [i \in Interfaces |-> Ports]

Routed(addrs) == 2000 :> [virtual |-> FALSE, addrs |-> addrs]

Virtual == 10 :> [virtual |-> TRUE, addrs |-> (1 :> 24) @@ (4 :> 64)]

MCConfigs ==
  {Routed(a) : a \in {2 :> 24, 1 :> 25,
                      (1 :> 24) @@ (2 :> 24), (1 :> 24) @@ (3 :> 64)}}
    \cup {Virtual, Virtual @@ Routed(3 :> 64)}
=============================================================================
