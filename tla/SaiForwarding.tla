---------------------------- MODULE SaiForwarding ----------------------------
(***************************************************************************)
(* The SAI implementation of the hardware switch, as far as forwarding is  *)
(* concerned: SaiRouteManager, SaiNextHopGroupManager, SaiNextHopManager,  *)
(* SaiNeighborManager, SaiFdbManager and SaiRouterInterfaceManager, on top *)
(* of the reference counted SaiStore, and the warm boot that reloads the   *)
(* store from the adapter and replays the switch state.                    *)
(*                                                                         *)
(* SaiSwitch handles every delta under one mutex, interfaces first, then   *)
(* neighbours, then routes.  A step handles one entry of a delta; a larger *)
(* delta is a sequence of such steps.  Its operators map the whole state   *)
(* `hw' of the managers and the store to the next one.                     *)
(***************************************************************************)
EXTENDS Integers, FiniteSets, Functions

CONSTANTS
  Neighbors,     \* neighbour addresses
  LinkLocal,     \* those that are IPv6 link local addresses
  Interfaces,    \* layer 3 interfaces
  IntfOf,        \* [Neighbors -> Interfaces]
  Hosts,         \* [Neighbors -> the [mac, port] each may resolve to]
  PortHandles,   \* physical ports that the port manager has a handle of
  Routes,        \* route prefixes
  HostRoutes,    \* those that are /32 or /128
  Forward,       \* [Routes -> the forwarding information each may have]
  MaxBoots       \* bound on the number of warm boots

ASSUME SetsAssumption ==
  /\ LinkLocal \subseteq Neighbors
  /\ HostRoutes \subseteq Routes
  /\ IntfOf \in [Neighbors -> Interfaces]
  /\ IsFiniteSet(Neighbors) /\ IsFiniteSet(Routes)
  /\ Neighbors \cap Routes = {}
  /\ \A r \in Routes : \A f \in Forward[r] :
       /\ f.action \in {"NEXTHOPS", "TO_CPU", "DROP"}
       /\ f.action = "NEXTHOPS" => f.nexthops # {}
       /\ f.connected => f.action = "NEXTHOPS" /\ \E nh \in f.nexthops : f.nexthops = {nh}
       /\ \A nh \in f.nexthops : nh.nbr \in Neighbors

VARIABLES
  sw,     \* the switch state the hardware was last given
  hw,     \* the SAI managers and the SAI store
  todo,   \* entries of the warm boot state still to be replayed
  boots   \* warm boots so far

vars == <<sw, hw, todo, boots>>

-----------------------------------------------------------------------------
(* The switch state.  A neighbour has no entry, a pending one, or a host;  *)
(* a route is absent or has forwarding information: an action, the next    *)
(* hops (records [nbr, label, weight]) and whether it is an interface's    *)
(* subnet route.                                                           *)

NoEntry == [state |-> "none", mac |-> 0, port |-> 0]
Pending == [NoEntry EXCEPT !.state = "pending"]
Reachable(n) == {[state |-> "reachable", mac |-> x.mac, port |-> x.port] : x \in Hosts[n]}

Absent == [action |-> "none", nexthops |-> {}, connected |-> FALSE]

isPending(e) == e.state = "pending"

intf(nh) == IntfOf[nh.nbr]

-----------------------------------------------------------------------------
(* Store objects are named by their adapter host keys; only next hop       *)
(* groups have an adapter key of their own, a number.                      *)

NoLabel == 0

(* Mutant: the weights are part of the key.                                *)
groupKeyWeighted(S) == {<<nh.nbr, nh.weight>> : nh \in S}

(* The key a group is created under: interface and address of its next     *)
(* hops, with neither weights nor labels.                                  *)
groupKey(S) == {<<nh.nbr, NoLabel>> : nh \in S}

(* The key of a next hop: interface, address and labels.                   *)
getAdapterHostKey(nh) == <<nh.nbr, nh.label>>

(* The key a group is reloaded under: the keys of the next hops that are   *)
(* members of it in the adapter.                                           *)
adapterHostKey(store, id) == {m[2] : m \in {x \in store.members : x[1] = id}}

Put(f, k, v) == [x \in DOMAIN f \cup {k} |-> IF x = k THEN v ELSE f[x]]

emptyStore == [groups |-> <<>>, members |-> {}, nexthops |-> {},
               neighbors |-> <<>>, fdb |-> <<>>, routes |-> <<>>]

(* The objects the warm boot handles of the stores refer to.               *)
nothingHeld == [groups |-> {}, members |-> {}, nexthops |-> {},
                neighbors |-> {}, fdb |-> {}, routes |-> {}]

NoError == "none"

emptyManagers(store, held) ==
  [rifs |-> {}, neighbors |-> <<>>, unresolvedNeighbors |-> {},
   routes |-> <<>>, groups |-> <<>>, store |-> store, held |-> held,
   thrown |-> NoError]

(* An exception leaves stateChanged and takes the agent down.              *)
throw(h, why) == [h EXCEPT !.thrown = why]

-----------------------------------------------------------------------------
(* Reference counting.  A handle of the group manager lives while a route  *)
(* handle refers to it; an object of a store lives while a handle, a       *)
(* membership that joined its group, or a warm boot handle refers to it.   *)
(* The last reference that goes removes the object from the adapter.       *)

NoGroup == {}

liveSets(h) == {h.routes[r] : r \in DOMAIN h.routes} \ {NoGroup}

joinedMembers(groups) ==
  UNION {{<<groups[S].id, getAdapterHostKey(nh)>> : nh \in groups[S].joined}
           : S \in DOMAIN groups}

fdbKey(n, host) == <<IntfOf[n], host.mac>>

release(h) ==
  LET groups  == Restrict(h.groups, liveSets(h))
      members == joinedMembers(groups) \cup h.held.members
      keep(f, S) == Restrict(f, DOMAIN f \cap S)
  IN [h EXCEPT
        !.groups = groups,
        !.store =
          [groups    |-> keep(h.store.groups,
                              {groupKey(S) : S \in DOMAIN groups} \cup h.held.groups),
           members   |-> members,
           nexthops  |-> {m[2] : m \in members} \cup h.held.nexthops,
           neighbors |-> keep(h.store.neighbors,
                              DOMAIN h.neighbors \cup h.held.neighbors),
           fdb       |-> keep(h.store.fdb,
                              {fdbKey(n, h.neighbors[n]) : n \in DOMAIN h.neighbors}
                                \cup h.held.fdb),
           routes    |-> keep(h.store.routes, DOMAIN h.routes \cup h.held.routes)]]

-----------------------------------------------------------------------------
(* Next hop groups.                                                        *)

(* The memberships of S and J join the group of S: each refers to its next *)
(* hop and to a member object.  Weights are attributes of the members that *)
(* no property looks at.                                                   *)
joinNextHopGroup(h, S, J) ==
  [h EXCEPT
     !.groups[S].joined = @ \cup J,
     !.store.nexthops = @ \cup {getAdapterHostKey(nh) : nh \in J},
     !.store.members =
        @ \cup {<<h.groups[S].id, getAdapterHostKey(nh)>> : nh \in J}]

freshId(h) ==
  LET used == {h.store.groups[k] : k \in DOMAIN h.store.groups}
  IN CHOOSE i \in 1 .. Cardinality(used) + 1 : i \notin used

incRefOrAddNextHopGroup(h, S) ==
  IF S \in DOMAIN h.groups THEN h
  ELSE IF \E nh \in S : intf(nh) \notin h.rifs
  THEN throw(h, "no router interface")
  ELSE LET key == groupKey(S)
           id  == IF key \in DOMAIN h.store.groups THEN h.store.groups[key]
                  ELSE freshId(h)
           added == [h EXCEPT
                       !.groups = Put(@, S, [id |-> id, joined |-> {}]),
                       !.store.groups = Put(@, key, id)]
       IN joinNextHopGroup(added, S, {nh \in S : nh.nbr \in DOMAIN h.neighbors})

(* The memberships of neighbour n in every live group join or leave it.    *)
membershipsOf(S, n) == {nh \in S : nh.nbr = n}

(* Mutant: only groups created later see the neighbour.                    *)
handleResolvedNeighborLater(h, n) == h

handleResolvedNeighbor(h, n) ==
  LET groups == [S \in DOMAIN h.groups |->
                   [h.groups[S] EXCEPT !.joined = @ \cup membershipsOf(S, n)]]
      joined == joinedMembers(groups)
  IN [h EXCEPT
        !.groups = groups,
        !.store.members = @ \cup joined,
        !.store.nexthops = @ \cup {m[2] : m \in joined}]

handleUnresolvedNeighbor(h, n) ==
  release([h EXCEPT
             !.groups = [S \in DOMAIN h.groups |->
                           [h.groups[S] EXCEPT !.joined = @ \ membershipsOf(S, n)]]])

-----------------------------------------------------------------------------
(* Neighbours.                                                             *)

(* The forwarding database entry is set before the neighbour, and shared   *)
(* by the neighbours of the interface that have the same MAC address.  An  *)
(* aggregate port fails the CHECK of phyPortID(), and a physical one must  *)
(* have a handle.                                                          *)
addFdbEntry(h, n, host) ==
  IF host.port \notin PortHandles THEN throw(h, "no port")
  ELSE [h EXCEPT !.store.fdb = Put(@, fdbKey(n, host), host.port)]

addNeighbor(h, n, e) ==
  IF IntfOf[n] \notin h.rifs THEN throw(h, "no router interface")
  ELSE IF n \in DOMAIN h.neighbors THEN throw(h, "duplicate neighbor")
  ELSE IF isPending(e) THEN [h EXCEPT !.unresolvedNeighbors = @ \cup {n}]
  ELSE IF n \in LinkLocal THEN h
  ELSE LET added == addFdbEntry(h, n, e)
           programmed == [added EXCEPT !.store.neighbors = Put(@, n, e.mac),
                                       !.neighbors = Put(@, n, e)]
       IN IF added.thrown # NoError THEN added ELSE handleResolvedNeighbor(programmed, n)

removeNeighbor(h, n) ==
  IF n \in LinkLocal THEN h
  ELSE IF IntfOf[n] \notin h.rifs THEN throw(h, "no router interface")
  ELSE IF n \in DOMAIN h.neighbors
  THEN LET left == handleUnresolvedNeighbor(h, n)
       IN release([left EXCEPT !.neighbors = Restrict(@, DOMAIN @ \ {n})])
  ELSE IF n \in h.unresolvedNeighbors
  THEN [h EXCEPT !.unresolvedNeighbors = @ \ {n}]
  ELSE throw(h, "no such neighbor")

(* Mutant: the old entry is not removed first.                             *)
changeNeighborOver(h, n, old, new) ==
  IF isPending(old) = isPending(new) THEN h ELSE addNeighbor(h, n, new)

(* A neighbour that resolves anew, to another MAC address or port, is left *)
(* as it was.                                                              *)
changeNeighbor(h, n, old, new) ==
  IF isPending(old) = isPending(new) THEN h
  ELSE LET removed == removeNeighbor(h, n)
       IN IF removed.thrown # NoError THEN removed ELSE addNeighbor(removed, n, new)

processNeighbor(h, n, old, new) ==
  IF old = NoEntry THEN addNeighbor(h, n, new)
  ELSE IF new = NoEntry THEN removeNeighbor(h, n)
  ELSE changeNeighbor(h, n, old, new)

-----------------------------------------------------------------------------
(* Routes.                                                                 *)

(* The subnet route of a /32 or /128 interface address is not programmed.  *)
validRoute(r, f) == ~(f.connected /\ r \in HostRoutes)

(* The attributes of a route object; a dropping one is given no next hop.  *)
NoNextHop == <<"none">>
CreateAttributes(action, nexthop) == [action |-> action, nexthop |-> nexthop]

(* Mutant: an object that exists is referred to and not set.               *)
setAttributesNever(old, new) == old

(* An attribute that is not given any more keeps its value in the adapter. *)
setAttributes(old, new) ==
  CreateAttributes(new.action,
                   IF new.nexthop = NoNextHop THEN old.nexthop ELSE new.nexthop)

setObject(objects, r, attributes) ==
  Put(objects, r, IF r \in DOMAIN objects THEN setAttributes(objects[r], attributes)
                  ELSE attributes)

setRoute(h, r, attributes, S) ==
  release([h EXCEPT !.store.routes = setObject(@, r, attributes),
                    !.routes = Put(@, r, S)])

addOrUpdateRoute(h, r, f) ==
  IF f.action = "NEXTHOPS" /\ ~f.connected
  THEN LET g == incRefOrAddNextHopGroup(h, f.nexthops)
           id == g.groups[f.nexthops].id
       IN IF g.thrown # NoError THEN g
          ELSE setRoute(g, r, CreateAttributes("FORWARD", <<"group", id>>), f.nexthops)
  ELSE IF f.action = "NEXTHOPS"
  THEN LET i == intf(CHOOSE nh \in f.nexthops : TRUE)
       IN IF i \notin h.rifs THEN throw(h, "no router interface")
          ELSE setRoute(h, r, CreateAttributes("FORWARD", <<"interface", i>>), NoGroup)
  ELSE IF f.action = "TO_CPU"
  THEN setRoute(h, r, CreateAttributes("FORWARD", <<"cpu">>), NoGroup)
  ELSE setRoute(h, r, CreateAttributes("DROP", NoNextHop), NoGroup)

changeRoute(h, r, f) ==
  IF r \notin DOMAIN h.routes THEN throw(h, "no such route")
  ELSE IF ~validRoute(r, f) THEN h
  ELSE addOrUpdateRoute(h, r, f)

addRoute(h, r, f) ==
  IF r \in DOMAIN h.routes THEN throw(h, "duplicate route")
  ELSE IF ~validRoute(r, f) THEN h
  ELSE addOrUpdateRoute(h, r, f)

removeRoute(h, r) ==
  IF r \notin DOMAIN h.routes THEN throw(h, "no such route")
  ELSE release([h EXCEPT !.routes = Restrict(@, DOMAIN @ \ {r})])

processRoute(h, r, old, new) ==
  IF old = Absent THEN addRoute(h, r, new)
  ELSE IF new = Absent THEN removeRoute(h, r)
  ELSE changeRoute(h, r, new)

(* Interfaces.  When one goes away with its neighbours and subnet routes,  *)
(* its router interface is the first to be removed.                        *)

entriesOn(i) == {n \in Neighbors : IntfOf[n] = i /\ sw.nbr[n] # NoEntry}

subnetRoutesOf(i) ==
  {r \in Routes : /\ sw.route[r].connected
                  /\ \E nh \in sw.route[r].nexthops : intf(nh) = i}

removeRouterInterface(h, i, nbrs, routes) ==
  IF \E n \in nbrs : n \notin LinkLocal THEN throw(h, "no router interface")
  ELSE IF \E r \in routes : r \notin DOMAIN h.routes THEN throw(h, "no such route")
  ELSE release([h EXCEPT !.rifs = @ \ {i},
                         !.routes = Restrict(@, DOMAIN @ \ routes)])

-----------------------------------------------------------------------------
(* Warm boot.  The adapter keeps its objects; a new process reloads them   *)
(* into the store, where the warm boot handles keep them, and replays the  *)
(* switch state from the empty one.                                        *)

groupIds(store) == {store.groups[k] : k \in DOMAIN store.groups}

warmBootHandles(store) ==
  [groups |-> DOMAIN store.groups, members |-> store.members,
   nexthops |-> store.nexthops, neighbors |-> DOMAIN store.neighbors,
   fdb |-> DOMAIN store.fdb, routes |-> DOMAIN store.routes]

reload(store) ==
  LET ids == groupIds(store)
      key(i) == adapterHostKey(store, i)
      loaded == [store EXCEPT !.groups = [k \in {key(i) : i \in ids} |->
                                            CHOOSE i \in ids : key(i) = k]]
  IN IF \E i, j \in ids : i # j /\ key(i) = key(j)
     THEN throw(emptyManagers(store, warmBootHandles(store)), "duplicate adapterHostKey")
     ELSE emptyManagers(loaded, warmBootHandles(loaded))

-----------------------------------------------------------------------------
Init ==
  /\ sw = [intfs |-> Interfaces, nbr |-> [n \in Neighbors |-> NoEntry],
           route |-> [r \in Routes |-> Absent]]
  /\ hw = [emptyManagers(emptyStore, nothingHeld) EXCEPT !.rifs = Interfaces]
  /\ todo = {}
  /\ boots = 0

up == hw.thrown = NoError
running == up /\ todo = {}

(* An entry can only be on an interface that exists, and a route is        *)
(* resolved over interfaces that exist.                                    *)
NeighborDelta(n, e) ==
  /\ running
  /\ e # sw.nbr[n]
  /\ e # NoEntry => IntfOf[n] \in sw.intfs
  /\ sw' = [sw EXCEPT !.nbr[n] = e]
  /\ hw' = processNeighbor(hw, n, sw.nbr[n], e)
  /\ UNCHANGED <<todo, boots>>

RouteDelta(r, f) ==
  /\ running
  /\ f # sw.route[r]
  /\ \A nh \in f.nexthops : intf(nh) \in sw.intfs
  /\ sw' = [sw EXCEPT !.route[r] = f]
  /\ hw' = processRoute(hw, r, sw.route[r], f)
  /\ UNCHANGED <<todo, boots>>

addRouterInterface(i) ==
  /\ running
  /\ i \notin sw.intfs
  /\ sw' = [sw EXCEPT !.intfs = @ \cup {i}]
  /\ hw' = [hw EXCEPT !.rifs = @ \cup {i}]
  /\ UNCHANGED <<todo, boots>>

(* Routes over the interface's next hops have been withdrawn before.       *)
InterfaceDelta(i) ==
  /\ running
  /\ i \in sw.intfs
  /\ \A r \in Routes : \A nh \in sw.route[r].nexthops :
       intf(nh) = i => sw.route[r].connected
  /\ sw' = [intfs |-> sw.intfs \ {i},
            nbr |-> [n \in Neighbors |-> IF n \in entriesOn(i) THEN NoEntry ELSE sw.nbr[n]],
            route |-> [r \in Routes |->
                         IF r \in subnetRoutesOf(i) THEN Absent ELSE sw.route[r]]]
  /\ hw' = removeRouterInterface(hw, i, entriesOn(i), subnetRoutesOf(i))
  /\ UNCHANGED <<todo, boots>>

WarmBoot ==
  /\ running
  /\ boots < MaxBoots
  /\ boots' = boots + 1
  /\ hw' = [reload(hw.store) EXCEPT !.rifs = sw.intfs]
  /\ todo' = {n \in Neighbors : sw.nbr[n] # NoEntry}
               \cup {r \in Routes : sw.route[r] # Absent}
  /\ UNCHANGED sw

ReplayNeighbor(n) ==
  /\ up
  /\ n \in todo
  /\ hw' = addNeighbor(hw, n, sw.nbr[n])
  /\ todo' = todo \ {n}
  /\ UNCHANGED <<sw, boots>>

ReplayRoute(r) ==
  /\ up
  /\ r \in todo
  /\ todo \cap Neighbors = {}
  /\ hw' = addRoute(hw, r, sw.route[r])
  /\ todo' = todo \ {r}
  /\ UNCHANGED <<sw, boots>>

Next ==
  \/ \E n \in Neighbors : \E e \in {NoEntry, Pending} \cup Reachable(n) : NeighborDelta(n, e)
  \/ \E r \in Routes : \E f \in Forward[r] \cup {Absent} : RouteDelta(r, f)
  \/ \E i \in Interfaces : addRouterInterface(i) \/ InterfaceDelta(i)
  \/ WarmBoot
  \/ \E n \in Neighbors : ReplayNeighbor(n)
  \/ \E r \in Routes : ReplayRoute(r)

Spec == Init /\ [][Next]_vars

-----------------------------------------------------------------------------
(* Properties.                                                             *)

resolved(n) == n \in DOMAIN hw.neighbors

(* A neighbour resolves and goes away, groups come and go, in any order:   *)
(* the group a next hop set is programmed to has a member for each of its  *)
(* resolved next hops, and a member whose neighbour is not resolved only   *)
(* where a warm boot handle keeps it.  Each member's next hop and          *)
(* neighbour are in the store with it.                                     *)
MembersAreResolved ==
  \A S \in DOMAIN hw.groups :
    LET id == hw.groups[S].id
        keys == adapterHostKey(hw.store, id)
    IN /\ \A nh \in S : resolved(nh.nbr) => getAdapterHostKey(nh) \in keys
       /\ \A k \in keys :
            /\ k \in hw.store.nexthops
            /\ k[1] \in DOMAIN hw.store.neighbors
            /\ resolved(k[1]) \/ <<id, k>> \in hw.held.members

addresses(S) == {nh.nbr : nh \in S}

(* What the adapter has of a route is what its forwarding information      *)
(* says.  What next hop a dropping route is left with does not matter.     *)
forwards(r, f) ==
  LET o == hw.store.routes[r]
  IN CASE f.action = "DROP" -> o.action = "DROP"
       [] f.action = "TO_CPU" -> o = CreateAttributes("FORWARD", <<"cpu">>)
       [] f.connected ->
            \A nh \in f.nexthops : o = CreateAttributes("FORWARD", <<"interface", intf(nh)>>)
       [] OTHER ->
            LET id == hw.groups[f.nexthops].id
            IN /\ hw.routes[r] = f.nexthops
               /\ o = CreateAttributes("FORWARD", <<"group", id>>)
               /\ id \in groupIds(hw.store)

(* While the agent is up and its state replayed, every route of the switch *)
(* state forwards as its information says, whatever it was before and      *)
(* whatever the warm boot reloaded: to a group that is in the store, to    *)
(* the router interface of its subnet, to the CPU, or nowhere.  Two next   *)
(* hop sets share a group only when they have the same addresses           *)
(* (SaiRouteManager::addOrUpdateRoute(), SaiObjectStore::setObject()).     *)
RoutesFollowState ==
  running =>
    /\ \A r \in Routes :
         LET f == sw.route[r]
         IN f # Absent /\ validRoute(r, f) => r \in DOMAIN hw.routes /\ forwards(r, f)
    /\ \A S, T \in DOMAIN hw.groups :
         hw.groups[S].id = hw.groups[T].id => addresses(S) = addresses(T)

(* Every next hop of the state is resolved and without labels, and no two  *)
(* sets have the same addresses.                                           *)
complete ==
  LET sets == {sw.route[r].nexthops : r \in {x \in Routes : ~sw.route[x].connected}}
  IN /\ \A S \in sets : \A nh \in S :
          /\ sw.nbr[nh.nbr].state = "reachable"
          /\ nh.nbr \notin LinkLocal
          /\ nh.label = NoLabel
     /\ \A S, T \in sets : addresses(S) = addresses(T) => S = T

(* changeRoute() left route r as it was when it became a subnet route.     *)
leftOver(r) == sw.route[r].connected /\ r \in DOMAIN hw.routes

(* The step programs neighbour n, for the first time or in a replay, over  *)
(* a port that has no handle.                                              *)
overMissingPort(n) ==
  /\ sw'.nbr[n].state = "reachable" /\ sw'.nbr[n].port \notin PortHandles
  /\ sw'.nbr[n] # sw.nbr[n] \/ n \in todo \ todo'

(* Whatever deltas a switch goes through, in whatever order, the managers  *)
(* throw in a step only if that step changes or removes the subnet route   *)
(* of a host address, which was never added (SaiRouteManager::             *)
(* validRoute()), removes an interface with a neighbour on it that is not  *)
(* link local (SaiNeighborManager::removeNeighbor()), programs a neighbour *)
(* over an aggregate or a missing port (SaiFdbManager::addFdbEntry()), or  *)
(* is a warm boot that finds next hops unresolved, labelled or in two      *)
(* sets, or the object of a route that has become such a subnet route      *)
(* (SaiObjectStore::reload()).                                             *)
OnlyKnownFailures ==
  [][hw.thrown = NoError /\ hw'.thrown # NoError =>
       \/ \E r \in HostRoutes : sw.route[r].connected /\ sw'.route[r] # sw.route[r]
       \/ \E i \in sw.intfs \ sw'.intfs : \E n \in entriesOn(i) : n \notin LinkLocal
       \/ \E n \in Neighbors \ LinkLocal : overMissingPort(n)
       \/ boots' # boots /\ (~complete \/ \E r \in HostRoutes : leftOver(r))]_vars

(* A warm boot of a switch whose next hops are all resolved finds every    *)
(* route, group and member programmed as it should be, and touches none.   *)
CompleteReplayIsHitless ==
  [][todo' # todo /\ complete =>
       /\ groupIds(hw'.store) = groupIds(hw.store)
       /\ hw'.store.members = hw.store.members
       /\ hw'.store.routes = hw.store.routes]_vars
=============================================================================
