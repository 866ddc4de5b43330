---------------------------- MODULE MCRouteTables ----------------------------
(***************************************************************************)
(* Two VRFs with addresses of two bits.  VRF 0 has an interface network of *)
(* each family; the second configuration moves VRF 1 and the statics.      *)
(***************************************************************************)
EXTENDS RouteTables

Nh(fam, addr, weight) == [fam |-> fam, addr |-> addr, intf |-> NoIntf, weight |-> weight]
Intf(vrf, fam, p, addr, intf) ==
  [vrf |-> vrf, fam |-> fam, p |-> p, addr |-> addr, intf |-> intf]
Route(fam, p, nhops, distance) == [fam |-> fam, p |-> p, nhops |-> nhops, distance |-> distance]
Add(client, routes) == [client |-> client, sync |-> FALSE, toAdd |-> routes, toDelete |-> <<>>]
Sync(client, routes) == [client |-> client, sync |-> TRUE, toAdd |-> routes, toDelete |-> <<>>]
Delete(client, routes) == [client |-> client, sync |-> FALSE, toAdd |-> <<>>, toDelete |-> routes]
Static(vrf, fam, p, entry) == [vrf |-> vrf, fam |-> fam, p |-> p, entry |-> entry]

MCLinkLocalPrefix == <<1, 1>>
Bgp == 0
OpenR == 786

(* A route over one heavy and two light next hops, a default route and     *)
(* routes over routes, a static route no configuration has, a route that   *)
(* goes, and a resync.                                                     *)
MCRequests == {
  Add(Bgp, <<Route("v4", <<1>>, {Nh("v4", <<0, 0>>, 1), Nh("v4", <<0, 1>>, 5),
                                 [Nh("v4", <<0, 0>>, 1) EXCEPT !.intf = 4]}, 20)>>),
  Add(OpenR, <<Route("v4", <<>>, {Nh("v4", <<0, 0>>, 0)}, 10),
               Route("v4", <<1, 1>>, {Nh("v4", <<1, 0>>, 0)}, 10),
               Route("v6", <<1, 0>>, {Nh("v6", <<0, 0>>, 0)}, 10)>>),
  Add(STATIC_ROUTE, <<Route("v4", <<1, 1>>, {Nh("v4", <<0, 0>>, 1)}, 1)>>),
  Delete(Bgp, <<[fam |-> "v4", p |-> <<1>>]>>),
  Sync(Bgp, <<Route("v4", <<1, 1>>, {Nh("v4", <<0, 0>>, 2), Nh("v4", <<0, 1>>, 1)}, 10),
              Route("v4", <<1>>, {Nh("v4", <<1, 1>>, 1)}, 20)>>)}

One == [intfs |-> <<Intf(0, "v4", <<0>>, <<0, 0>>, 1), Intf(0, "v6", <<0>>, <<0, 0>>, 1)>>,
        statics |-> <<Static(0, "v4", <<1, 0>>, ToCpu(1))>>]
Two == [intfs |-> <<Intf(0, "v4", <<0, 1>>, <<0, 1>>, 2), Intf(1, "v6", <<0>>, <<0, 1>>, 3)>>,
        statics |-> <<Static(0, "v4", <<1, 0>>, Drop(1)),
                      Static(1, "v6", <<1, 0>>, Entry("NEXTHOPS", {Nh("v6", <<0, 0>>, 1)}, 1))>>]
MCConfigs == {One, Two}
MCBoot == One
=============================================================================
