----------------------------- MODULE MirrorManager -----------------------------
(***************************************************************************)
(* How a mirror finds its way: fboss/agent/MirrorManager.cpp,              *)
(* MirrorManagerImpl.cpp, state/Mirror.cpp, and the mirrors of a           *)
(* configuration in ApplyThriftConfig.cpp.  Operators only: module         *)
(* StateObservers runs them.                                               *)
(*                                                                         *)
(* A SwitchState is a record: the interfaces, the routes and the label     *)
(* entries with the client that programmed them, the neighbour entries and *)
(* the one mirror.  A next hop is a number, its place in the order of a    *)
(* NextHopSet; it stands for an address on an interface.  A neighbour      *)
(* entry is where the address answers from, a MAC address and a port; a    *)
(* pending one has port 0.  IP addresses, DSCP and truncation of a mirror  *)
(* never change here: its kind ("span", "gre" or "sflow") does.            *)
(***************************************************************************)
EXTENDS Integers, FiniteSets, FiniteSetsExt, Sequences

CONSTANTS
  Hops,        \* next hops, in the order of NextHopSet
  IntfOf,      \* [next hop or Dest -> its interface]
  Own,         \* next hops that are the interface's own address: subnet routes
  LinkLocal,   \* next hops that routes name with their interface
  Dest,        \* the mirror's destination, as an address of a subnet
  Covers,      \* the prefixes that cover Dest, the most specific first
  Trunks       \* ports that are aggregates

Addresses == Hops \cup {Dest}

NoRoute == [client |-> "none", hops |-> {}]
NoEntry == [mac |-> 0, port |-> -1]
Pending == [mac |-> 0, port |-> 0]
NoTunnel == [intf |-> "none", mac |-> 0, kind |-> "none"]
NoMirror == [kind |-> "none", port |-> 0, configHasEgressPort |-> FALSE, tunnel |-> NoTunnel]

-----------------------------------------------------------------------------
(* state/Mirror.  Port 0 is no egress port. *)

Mirror(kind, port) ==
  [kind |-> kind, port |-> port, configHasEgressPort |-> port # 0, tunnel |-> NoTunnel]

hasDestinationIp(m) == m.kind \in {"gre", "sflow"}

isResolved(m) == m.tunnel # NoTunnel \/ ~hasDestinationIp(m)

\* Mirror::operator==.  Neither the UDP ports nor, if both or neither were
\* configured, the egress ports are compared.
sameMirror(m, n) ==
  /\ m.configHasEgressPort = n.configHasEgressPort \/ m.port = n.port
  /\ hasDestinationIp(m) = hasDestinationIp(n)
  /\ m.tunnel = n.tunnel

-----------------------------------------------------------------------------
(* The forwarding information that RouteUpdater leaves in a SwitchState.  A    *)
(* link-local next hop stands as it is; any other needs its subnet's route.    *)

forwardInfo(st, p) == {h \in st.routes[p].hops : h \in LinkLocal \/ IntfOf[h] \in st.intfs}

\* The less specific prefixes are not looked at if the route is unresolved.
resolveMirrorNextHops(st) ==
  LET matching == {i \in DOMAIN Covers : st.routes[Covers[i]] # NoRoute}
  IN IF matching = {} THEN {} ELSE forwardInfo(st, Covers[Min(matching)])

neighborOf(st, h) ==
  IF h \notin Own THEN st.nbrs[h]
  ELSE IF IntfOf[Dest] = IntfOf[h] THEN st.nbrs[Dest] ELSE NoEntry

\* Whether resolveMirrorNextHopNeighbor() returns an entry
resolveMirrorNextHopNeighbor(st, m, h) ==
  LET neighbor == neighborOf(st, h)
  IN /\ neighbor \notin {NoEntry, Pending}
     /\ neighbor.port \notin Trunks
     /\ m.configHasEgressPort => neighbor.port = m.port

\* getInterfaceIf() gives no interface, which nobody checks, for a next hop that
\* is tried before one is found.
nullInterface(st, m) ==
  \E h \in resolveMirrorNextHops(st) :
    /\ IntfOf[h] \notin st.intfs
    /\ \A g \in resolveMirrorNextHops(st) : g < h => ~resolveMirrorNextHopNeighbor(st, m, g)

resolveMirrorTunnel(st, m, h) ==
  [intf |-> IntfOf[h], mac |-> neighborOf(st, h).mac, kind |-> m.kind]

\* The tunnel is kept when no next hop will do.
updateMirrorKept(st, m) ==
  LET usable == {h \in resolveMirrorNextHops(st) : resolveMirrorNextHopNeighbor(st, m, h)}
  IN IF usable = {} THEN m
     ELSE [Mirror(m.kind, m.port) EXCEPT !.tunnel = resolveMirrorTunnel(st, m, Min(usable)),
                                         !.port = neighborOf(st, Min(usable)).port]

\* The port found for the mirror before goes to the constructor, which takes it
\* for configured.
updateMirror(st, m) ==
  LET usable == {h \in resolveMirrorNextHops(st) : resolveMirrorNextHopNeighbor(st, m, h)}
      new == Mirror(m.kind, m.port)
      newMirror ==
        IF usable = {} THEN new
        ELSE [new EXCEPT !.tunnel = resolveMirrorTunnel(st, m, Min(usable)),
                         !.port = neighborOf(st, Min(usable)).port]
  IN IF sameMirror(m, newMirror) THEN m ELSE newMirror

\* The closure works on `st', but looks routes and neighbours up in the state
\* that is published.
resolveMirrors(st, published) ==
  IF hasDestinationIp(st.mirror) THEN [st EXCEPT !.mirror = updateMirror(published, @)] ELSE st

changedRoutes(old, new) ==
  {p \in DOMAIN new.routes : \/ old.routes[p] # new.routes[p]
                             \/ forwardInfo(old, p) # forwardInfo(new, p)}

hasMirrorChanges(old, new) ==
  new.mirror # NoMirror /\ (changedRoutes(old, new) # {} \/ old.nbrs # new.nbrs)

-----------------------------------------------------------------------------
(* ThriftConfigApplier *)

\* updateMirrors(), with `m' as it is and `cfg' the mirror configured, which
\* NoMirror stands for if there is none
applyMirrorConfig(m, cfg) ==
  LET new == Mirror(cfg.kind, cfg.port)
  IN IF cfg = NoMirror THEN NoMirror
     ELSE IF m = NoMirror THEN new
     ELSE IF sameMirror(new, m) THEN m
     ELSE IF /\ m.tunnel # NoTunnel /\ hasDestinationIp(new)
             /\ ~new.configHasEgressPort \/ new.port = m.port
          THEN [new EXCEPT !.tunnel = m.tunnel, !.port = m.port]
          ELSE new

=============================================================================
