------------------------------- MODULE MCRib -------------------------------
(***************************************************************************)
(* Instances of Rib.  Addresses have two bits, so the v4 prefixes of a     *)
(* table are among <<>>, the halves <<0>>, <<1>> and the four hosts.       *)
(***************************************************************************)
EXTENDS Rib

MCLinkLocal == <<1, 1>>

Nh(fam, addr, weight) == [fam |-> fam, addr |-> addr, intf |-> NoIntf, weight |-> weight]
Intf(vrf, fam, p, addr, intf) ==
  [vrf |-> vrf, fam |-> fam, p |-> p, addr |-> addr, intf |-> intf]
Static(vrf, fam, p, entry) == [vrf |-> vrf, fam |-> fam, p |-> p, entry |-> entry]
Route(fam, p, nhops, distance) ==
  [fam |-> fam, p |-> p, nhops |-> nhops, distance |-> distance]
Req(reset, toAdd, toDelete) ==
  [vrf |-> 0, reset |-> reset, toAdd |-> toAdd, toDelete |-> toDelete]

(* 0x is the v4 subnet of interface 1 and 10 its v6 subnet.  A reload may  *)
(* only add a static route, or split 0x between interfaces 1 and 2 and     *)
(* bring a second VRF.                                                     *)
MCBootConfig ==
  [intfs |-> <<Intf(0, "v4", <<0>>, <<0, 0>>, 1), Intf(0, "v6", <<1, 0>>, <<1, 0>>, 1)>>,
   statics |-> <<>>]
MCStaticConfig ==
  [intfs |-> MCBootConfig.intfs,
   statics |-> <<Static(0, "v4", <<1, 1>>, ToCpu(STATIC_DISTANCE))>>]
MCMovedConfig ==
  [intfs |-> <<Intf(0, "v4", <<0, 0>>, <<0, 0>>, 1), Intf(0, "v4", <<0, 1>>, <<0, 1>>, 2),
               Intf(0, "v6", <<1, 0>>, <<1, 0>>, 1), Intf(1, "v4", <<1>>, <<1, 1>>, 3)>>,
   statics |-> <<>>]
MCConfigs == {MCStaticConfig, MCMovedConfig}

MCRequests == {
  (* two next hops of unequal weight, one on the subnet, one recursive *)
  Req(FALSE, <<Route("v4", <<1>>, {Nh("v4", <<0, 1>>, 1), Nh("v4", <<0, 0>>, 2)}, 20)>>, <<>>),
  Req(FALSE, <<Route("v4", <<1, 0>>, {Nh("v4", <<1, 1>>, 3), Nh("v4", <<0, 0>>, 1)}, 20)>>, <<>>),
  (* the halves of a loop, one with a route for an interface's subnet *)
  Req(FALSE, <<Route("v4", <<1, 1>>, {Nh("v4", <<1, 0>>, 1)}, 10),
               Route("v4", <<0>>, {Nh("v4", <<0, 0>>, 1)}, 20)>>, <<>>),
  Req(FALSE, <<Route("v4", <<1, 0>>, {Nh("v4", <<1, 1>>, 0)}, 30)>>, <<>>),
  (* a reset, with a route that resolves through v6 *)
  Req(TRUE, <<Route("v4", <<1, 0>>, {Nh("v6", <<0, 1>>, 1)}, 20),
              Route("v6", <<0>>, {Nh("v6", <<1, 0>>, 2)}, 20)>>, <<>>),
  (* removals, and an update that throws half way *)
  Req(FALSE, <<>>, <<Route("v4", <<1>>, {}, 0), Route("v4", <<1, 1>>, {}, 0)>>),
  Req(FALSE, <<Route("v4", <<1>>, {}, 20),
               Route("v6", <<0>>, {Nh("v6", <<1, 1>>, 1)}, 20)>>, <<>>),
  (* a route in the second VRF *)
  [Req(FALSE, <<Route("v4", <<0>>, {Nh("v4", <<1, 0>>, 1)}, 20)>>, <<>>) EXCEPT !.vrf = 1]}
=============================================================================
