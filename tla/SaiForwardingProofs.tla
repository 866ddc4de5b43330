------------------------------ MODULE SaiForwardingProofs ------------------------------
(***************************************************************************)
(* The members of the next hop groups are the resolved next hops, for any  *)
(* neighbours, interfaces, routes and next hop sets and any number of warm *)
(* boots.  The managers follow the switch state, throw only over the       *)
(* causes that are known, and replay a complete state after a warm boot    *)
(* without touching what the adapter forwards with.                        *)
(*                                                                         *)
(* What has to be known of the managers is a predicate of the value `h'    *)
(* that the operators of SaiForwarding pass on: memberships have joined    *)
(* exactly for the neighbours with a handle, and the store has exactly the *)
(* members that memberships and warm boot handles refer to, each with its  *)
(* next hop and its neighbour.  Each operator preserves it, except that    *)
(* between a neighbour's memberships leaving and its handle going away the *)
(* memberships are behind; `Counted' leaves them open.                     *)
(*                                                                         *)
(* A second invariant relates the switch state to the managers while no    *)
(* exception has been thrown.  It says which neighbours and routes have a  *)
(* handle, entries still to be replayed having none, and what the route    *)
(* objects that wait for their replay point at.                            *)
(***************************************************************************)
EXTENDS SaiForwarding, FiniteSetTheorems, TLAPS

\* The fields of the managers, the store and the warm boot handles.
Shape(h) ==
  /\ h = [rifs |-> h.rifs, neighbors |-> h.neighbors,
          unresolvedNeighbors |-> h.unresolvedNeighbors, routes |-> h.routes,
          groups |-> h.groups, store |-> h.store, held |-> h.held,
          thrown |-> h.thrown]
  /\ h.store = [groups |-> h.store.groups, members |-> h.store.members,
                nexthops |-> h.store.nexthops, neighbors |-> h.store.neighbors,
                fdb |-> h.store.fdb, routes |-> h.store.routes]
  /\ \A S \in DOMAIN h.groups :
       h.groups[S] = [id |-> h.groups[S].id, joined |-> h.groups[S].joined]

\* Memberships have joined exactly for the neighbours that have a handle.
Joined(h) ==
  \A S \in DOMAIN h.groups :
    h.groups[S].joined = {nh \in S : nh.nbr \in DOMAIN h.neighbors}

\* What the warm boot handles refer to is in the store, and complete.
Held(h) ==
  /\ h.held.nexthops \subseteq h.store.nexthops
  /\ h.held.neighbors \subseteq DOMAIN h.store.neighbors
  /\ \A m \in h.held.members :
       /\ m = <<m[1], m[2]>>
       /\ m[2] \in h.held.nexthops
       /\ m[2][1] \in h.held.neighbors

\* Route handles refer to group handles, neighbour handles to neighbours.
Referred(h) ==
  /\ Shape(h)
  /\ Held(h)
  /\ liveSets(h) \subseteq DOMAIN h.groups
  /\ DOMAIN h.neighbors \subseteq DOMAIN h.store.neighbors

\* The store has the members that are referred to, and their next hops.
Counted(h) ==
  /\ Referred(h)
  /\ h.store.members = joinedMembers(h.groups) \cup h.held.members
  /\ \A m \in h.store.members : m[2] \in h.store.nexthops

Inv(h) == Counted(h) /\ Joined(h)

\* Group objects have adapter keys of their own, and a group handle refers to
\* the object of its key; a route handle refers to a route object.
Ids(h) ==
  /\ IsFiniteSet(groupIds(h.store))
  /\ \A k, l \in DOMAIN h.store.groups :
       h.store.groups[k] = h.store.groups[l] => k = l
  /\ \A S \in DOMAIN h.groups :
       /\ groupKey(S) \in DOMAIN h.store.groups
       /\ h.groups[S].id = h.store.groups[groupKey(S)]
  /\ DOMAIN h.routes \subseteq DOMAIN h.store.routes

\* The warm boot handles refer to objects of the store; a group that one of
\* them keeps was reloaded under the keys of the members that others keep.
HeldObjects(h) ==
  /\ h.held.groups \subseteq DOMAIN h.store.groups
  /\ h.held.routes \subseteq DOMAIN h.store.routes
  /\ \A k \in h.held.groups :
       {m[2] : m \in {x \in h.held.members : x[1] = h.store.groups[k]}} = k
  /\ \A m \in h.held.members : \E k \in h.held.groups : m[1] = h.store.groups[k]

Objects(h) == Ids(h) /\ HeldObjects(h)

\* Every group and every route object is referred to.
Exact(h) ==
  /\ DOMAIN h.groups \subseteq liveSets(h)
  /\ DOMAIN h.store.groups \subseteq {groupKey(S) : S \in DOMAIN h.groups} \cup h.held.groups
  /\ DOMAIN h.store.routes \subseteq DOMAIN h.routes \cup h.held.routes
  /\ h.store.routes = [x \in DOMAIN h.store.routes |-> h.store.routes[x]]

\* The handles and objects of groups and routes are the same.
SameObjects(h, g) ==
  /\ g.routes = h.routes /\ g.held = h.held
  /\ g.store.groups = h.store.groups /\ g.store.routes = h.store.routes
  /\ DOMAIN g.groups = DOMAIN h.groups
  /\ \A S \in DOMAIN h.groups : g.groups[S].id = h.groups[S].id

\* What the route handles refer to is the same.
Keeps(h, g) ==
  /\ g.routes = h.routes
  /\ \A r \in DOMAIN h.routes : g.store.routes[r] = h.store.routes[r]
  /\ \A S \in liveSets(h) : g.groups[S].id = h.groups[S].id

\* An operator that leaves the routes alone preserves all this.
Stays(h, g) ==
  /\ Objects(h) => Objects(g) /\ Keeps(h, g)
  /\ Exact(h) => Exact(g)

LEMMA SameStays ==
  ASSUME NEW h, NEW g, SameObjects(h, g), liveSets(h) \subseteq DOMAIN h.groups
  PROVE  Stays(h, g)
<1>1. liveSets(g) = liveSets(h) /\ groupIds(g.store) = groupIds(h.store)
  BY DEF SameObjects, liveSets, groupIds
<1>2. Keeps(h, g)
  BY DEF Keeps, SameObjects
<1>3. Ids(h) => Ids(g)
  BY <1>1 DEF SameObjects, Ids
<1>4. HeldObjects(h) => HeldObjects(g)
  BY DEF SameObjects, HeldObjects
<1>5. Exact(h) => Exact(g)
  BY <1>1 DEF SameObjects, Exact
<1> QED BY <1>2, <1>3, <1>4, <1>5 DEF Stays, Objects

LEMMA StaysTransitive ==
  ASSUME NEW h, NEW g, NEW f, Stays(h, g), Stays(g, f)
  PROVE  Stays(h, f)
<1>1. Objects(h) => Keeps(h, f)
  BY DEF Stays, Keeps, liveSets
<1> QED BY <1>1 DEF Stays

\* A membership is a pair of a group's adapter key and a next hop's key.
LEMMA MemberPair ==
  ASSUME NEW groups, NEW m \in joinedMembers(groups)
  PROVE  \E S \in DOMAIN groups : \E nh \in groups[S].joined :
           m = <<groups[S].id, <<nh.nbr, nh.label>>>>
  BY DEF joinedMembers, getAdapterHostKey

\* The invariant implies what the run checks of the groups' members.
LEMMA InvMembers == Inv(hw) => MembersAreResolved
<1> SUFFICES ASSUME Inv(hw), NEW S \in DOMAIN hw.groups
             PROVE  /\ \A nh \in S : resolved(nh.nbr) =>
                         getAdapterHostKey(nh) \in adapterHostKey(hw.store, hw.groups[S].id)
                    /\ \A k \in adapterHostKey(hw.store, hw.groups[S].id) :
                         /\ k \in hw.store.nexthops
                         /\ k[1] \in DOMAIN hw.store.neighbors
                         /\ resolved(k[1]) \/ <<hw.groups[S].id, k>> \in hw.held.members
  BY DEF MembersAreResolved
<1> DEFINE id == hw.groups[S].id
<1>1. ASSUME NEW nh \in S, resolved(nh.nbr)
      PROVE  getAdapterHostKey(nh) \in adapterHostKey(hw.store, id)
  <2>1. nh \in hw.groups[S].joined
    BY <1>1 DEF Inv, Joined, resolved
  <2>2. <<id, getAdapterHostKey(nh)>> \in hw.store.members
    BY <2>1 DEF Inv, Counted, joinedMembers
  <2> QED BY <2>2 DEF adapterHostKey
<1>2. ASSUME NEW k \in adapterHostKey(hw.store, id)
      PROVE  /\ k \in hw.store.nexthops
             /\ k[1] \in DOMAIN hw.store.neighbors
             /\ resolved(k[1]) \/ <<id, k>> \in hw.held.members
  <2>1. PICK m \in hw.store.members : m[1] = id /\ m[2] = k
    BY <1>2 DEF adapterHostKey
  <2>2. k \in hw.store.nexthops
    BY <2>1 DEF Inv, Counted
  <2>3. CASE m \in joinedMembers(hw.groups)
    <3>1. PICK T \in DOMAIN hw.groups : \E nh \in hw.groups[T].joined :
            m = <<hw.groups[T].id, <<nh.nbr, nh.label>>>>
      BY <2>3, MemberPair
    <3>2. PICK nh \in hw.groups[T].joined : m = <<hw.groups[T].id, <<nh.nbr, nh.label>>>>
      BY <3>1
    <3>3. k[1] = nh.nbr
      BY <2>1, <3>2
    <3> QED BY <2>2, <3>2, <3>3 DEF Inv, Counted, Referred, Joined, resolved
  <2>4. CASE m \in hw.held.members
    BY <2>1, <2>2, <2>4 DEF Inv, Counted, Referred, Held
  <2> QED BY <2>1, <2>3, <2>4 DEF Inv, Counted
<1> QED BY <1>1, <1>2

\* The handles of neighbours, and what decides whether a manager throws.
SameHandles(h, g) ==
  /\ g.rifs = h.rifs
  /\ g.neighbors = h.neighbors
  /\ g.unresolvedNeighbors = h.unresolvedNeighbors
  /\ g.thrown = h.thrown

\* An exception changes nothing the invariant speaks of.
LEMMA ThrowInv ==
  ASSUME NEW h, NEW why, Inv(h)
  PROVE  /\ Inv(throw(h, why))
         /\ SameObjects(h, throw(h, why))
         /\ throw(h, why).thrown = why
         /\ throw(h, why).store = h.store
<1> DEFINE g == throw(h, why)
<1>1. Inv(g)
  BY DEF Inv, Counted, Referred, Shape, Held, Joined, liveSets, throw
<1>2. g.thrown = why /\ g.store = h.store
  BY DEF throw, Inv, Counted, Referred, Shape
<1>3. SameObjects(h, g)
  BY DEF SameObjects, throw, Inv, Counted, Referred, Shape
<1> QED BY <1>1, <1>2, <1>3

\* Neither do the router interfaces and the pending neighbours.
LEMMA SameInv ==
  ASSUME NEW h, Inv(h), NEW X
  PROVE  LET u == [h EXCEPT !.unresolvedNeighbors = X]
             v == [h EXCEPT !.rifs = X]
         IN /\ Inv(u) /\ SameObjects(h, u) /\ u.store = h.store
            /\ u.unresolvedNeighbors = X
            /\ u.rifs = h.rifs /\ u.neighbors = h.neighbors /\ u.thrown = h.thrown
            /\ Inv(v) /\ SameObjects(h, v) /\ v.store = h.store
            /\ v.rifs = X /\ v.unresolvedNeighbors = h.unresolvedNeighbors
            /\ v.neighbors = h.neighbors /\ v.thrown = h.thrown
<1> DEFINE u == [h EXCEPT !.unresolvedNeighbors = X]
           v == [h EXCEPT !.rifs = X]
<1>1. Inv(u)
  BY DEF Inv, Counted, Referred, Shape, Held, Joined, liveSets
<1>2. Inv(v)
  BY DEF Inv, Counted, Referred, Shape, Held, Joined, liveSets
<1>3. /\ SameObjects(h, u) /\ u.unresolvedNeighbors = X /\ u.store = h.store
      /\ u.rifs = h.rifs /\ u.neighbors = h.neighbors /\ u.thrown = h.thrown
  BY DEF SameObjects, Inv, Counted, Referred, Shape
<1>4. /\ SameObjects(h, v) /\ v.rifs = X /\ v.store = h.store
      /\ v.unresolvedNeighbors = h.unresolvedNeighbors
      /\ v.neighbors = h.neighbors /\ v.thrown = h.thrown
  BY DEF SameObjects, Inv, Counted, Referred, Shape
<1> QED BY <1>1, <1>2, <1>3, <1>4

\* Giving up what is not referred to keeps the handles of live groups as they
\* are, and leaves the store with exactly the members that are referred to.
LEMMA ReleaseCounted ==
  ASSUME NEW h, Referred(h)
  PROVE  /\ Counted(release(h))
         /\ Stays(h, release(h)) /\ Exact(release(h))
         /\ SameHandles(h, release(h))
         /\ release(h).routes = h.routes
         /\ release(h).held = h.held
         /\ \A k \in DOMAIN release(h).store.groups :
              /\ k \in DOMAIN h.store.groups
              /\ release(h).store.groups[k] = h.store.groups[k]
         /\ DOMAIN release(h).store.routes
              = DOMAIN h.store.routes \cap (DOMAIN h.routes \cup h.held.routes)
         /\ \A x \in DOMAIN release(h).store.routes :
              release(h).store.routes[x] = h.store.routes[x]
         /\ DOMAIN release(h).groups \subseteq DOMAIN h.groups
         /\ \A S \in DOMAIN release(h).groups : release(h).groups[S] = h.groups[S]
<1> DEFINE r == release(h)
           groups == Restrict(h.groups, liveSets(h))
           members == joinedMembers(groups) \cup h.held.members
           keep(f, S) == Restrict(f, DOMAIN f \cap S)
           store ==
             [groups    |-> keep(h.store.groups,
                                 {groupKey(S) : S \in DOMAIN groups} \cup h.held.groups),
              members   |-> members,
              nexthops  |-> {m[2] : m \in members} \cup h.held.nexthops,
              neighbors |-> keep(h.store.neighbors,
                                 DOMAIN h.neighbors \cup h.held.neighbors),
              fdb       |-> keep(h.store.fdb,
                                 {fdbKey(n, h.neighbors[n]) : n \in DOMAIN h.neighbors}
                                   \cup h.held.fdb),
              routes    |-> keep(h.store.routes, DOMAIN h.routes \cup h.held.routes)]
<1>1. /\ SameHandles(h, r) /\ r.routes = h.routes /\ r.held = h.held
      /\ r.groups = groups
      /\ r.store.groups = store.groups /\ r.store.routes = store.routes
      /\ r.store.members = members
      /\ r.store.nexthops = {m[2] : m \in members} \cup h.held.nexthops
      /\ DOMAIN r.store.neighbors
           = DOMAIN h.store.neighbors \cap (DOMAIN h.neighbors \cup h.held.neighbors)
      /\ r = [rifs |-> r.rifs, neighbors |-> r.neighbors,
              unresolvedNeighbors |-> r.unresolvedNeighbors, routes |-> r.routes,
              groups |-> r.groups, store |-> r.store, held |-> r.held,
              thrown |-> r.thrown]
      /\ r.store = [groups |-> r.store.groups, members |-> r.store.members,
                    nexthops |-> r.store.nexthops, neighbors |-> r.store.neighbors,
                    fdb |-> r.store.fdb, routes |-> r.store.routes]
  <2>1. r = [h EXCEPT !.groups = groups, !.store = store]
    BY Zenon DEF release
  <2>2. DOMAIN store.neighbors
          = DOMAIN h.store.neighbors \cap (DOMAIN h.neighbors \cup h.held.neighbors)
    BY Zenon DEF Restrict
  <2>3. /\ store.members = members
        /\ store.nexthops = {m[2] : m \in members} \cup h.held.nexthops
        /\ store = [groups |-> store.groups, members |-> store.members,
                    nexthops |-> store.nexthops, neighbors |-> store.neighbors,
                    fdb |-> store.fdb, routes |-> store.routes]
    OBVIOUS
  <2> HIDE DEF groups, store, r, members
  <2>4. h = [rifs |-> h.rifs, neighbors |-> h.neighbors,
             unresolvedNeighbors |-> h.unresolvedNeighbors, routes |-> h.routes,
             groups |-> h.groups, store |-> h.store, held |-> h.held,
             thrown |-> h.thrown]
    BY DEF Referred, Shape
  <2>5. r = [rifs |-> h.rifs, neighbors |-> h.neighbors,
             unresolvedNeighbors |-> h.unresolvedNeighbors, routes |-> h.routes,
             groups |-> groups, store |-> store, held |-> h.held,
             thrown |-> h.thrown]
    BY <2>1, <2>4, Zenon
  <2> QED BY <2>2, <2>3, <2>5 DEF SameHandles
<1>2. DOMAIN groups = liveSets(h) /\ \A S \in DOMAIN groups : groups[S] = h.groups[S]
  BY DEF Restrict
<1> DEFINE used == {groupKey(S) : S \in DOMAIN groups} \cup h.held.groups
<1>g. /\ store.groups = Restrict(h.store.groups, DOMAIN h.store.groups \cap used)
      /\ store.routes = Restrict(h.store.routes,
                                 DOMAIN h.store.routes \cap (DOMAIN h.routes \cup h.held.routes))
  BY Zenon
<1> HIDE DEF store, used
<1>k. /\ DOMAIN r.store.groups = DOMAIN h.store.groups \cap used
      /\ \A k \in DOMAIN r.store.groups : r.store.groups[k] = h.store.groups[k]
      /\ DOMAIN r.store.routes
           = DOMAIN h.store.routes \cap (DOMAIN h.routes \cup h.held.routes)
      /\ \A x \in DOMAIN r.store.routes : r.store.routes[x] = h.store.routes[x]
  BY <1>1, <1>g DEF Restrict
<1>3. Shape(r)
  BY <1>1, <1>2 DEF Shape, Referred
<1>4. Held(r)
  BY <1>1 DEF Held, Referred
<1>5. liveSets(r) = liveSets(h)
  BY <1>1, Zenon DEF liveSets
<1>6. Counted(r)
  BY <1>1, <1>2, <1>3, <1>4, <1>5, Zenon DEF Counted, Referred, SameHandles
<1>f. r.store.routes = [x \in DOMAIN r.store.routes |-> r.store.routes[x]]
  BY <1>1, <1>g, Zenon DEF Restrict
<1>7. Exact(r)
  BY <1>1, <1>2, <1>5, <1>f, <1>k DEF Exact, used
<1>8. ASSUME Ids(h)
      PROVE  Ids(r)
  <2>1. groupIds(r.store) \subseteq groupIds(h.store)
    BY <1>k DEF groupIds
  <2>2. IsFiniteSet(groupIds(r.store))
    BY <1>8, <2>1, FS_Subset, Zenon DEF Ids
  <2>3. \A S \in DOMAIN r.groups :
          /\ groupKey(S) \in DOMAIN r.store.groups
          /\ r.groups[S].id = r.store.groups[groupKey(S)]
    BY <1>1, <1>2, <1>8, <1>k DEF Ids, used, Referred
  <2>4. DOMAIN r.routes \subseteq DOMAIN r.store.routes
    BY <1>1, <1>8, <1>k, Zenon DEF Ids
  <2> QED BY <1>8, <1>k, <2>2, <2>3, <2>4 DEF Ids
<1>9. ASSUME HeldObjects(h)
      PROVE  HeldObjects(r)
  BY <1>1, <1>9, <1>k DEF HeldObjects, used
<1>10. ASSUME Ids(h)
       PROVE  Keeps(h, r)
  BY <1>1, <1>2, <1>10, <1>k DEF Keeps, Ids, Referred
<1>11. Stays(h, r)
  BY <1>7, <1>8, <1>9, <1>10 DEF Stays, Objects
<1>12. /\ DOMAIN r.groups \subseteq DOMAIN h.groups
       /\ \A S \in DOMAIN r.groups : r.groups[S] = h.groups[S]
  BY <1>1, <1>2 DEF Referred
<1> QED BY <1>1, <1>6, <1>7, <1>11, <1>12, <1>k

\* A neighbour's memberships join every live group.
LEMMA ResolvedInv ==
  ASSUME NEW h, NEW n, Counted(h), n \in DOMAIN h.neighbors,
         \A S \in DOMAIN h.groups :
           h.groups[S].joined \cup membershipsOf(S, n)
             = {nh \in S : nh.nbr \in DOMAIN h.neighbors}
  PROVE  /\ Inv(handleResolvedNeighbor(h, n))
         /\ SameObjects(h, handleResolvedNeighbor(h, n))
         /\ SameHandles(h, handleResolvedNeighbor(h, n))
<1> DEFINE groups == [S \in DOMAIN h.groups |->
                        [h.groups[S] EXCEPT !.joined = @ \cup membershipsOf(S, n)]]
           joined == joinedMembers(groups)
           r == handleResolvedNeighbor(h, n)
<1>1. r = [h EXCEPT !.groups = groups, !.store.members = @ \cup joined,
                    !.store.nexthops = @ \cup {m[2] : m \in joined}]
  BY Zenon DEF handleResolvedNeighbor
<1>2. \A S \in DOMAIN h.groups :
        /\ groups[S] = [id |-> h.groups[S].id,
                        joined |-> h.groups[S].joined \cup membershipsOf(S, n)]
        /\ h.groups[S].joined \subseteq groups[S].joined
        /\ h.groups[S].id = groups[S].id
        /\ groups[S].joined = h.groups[S].joined \cup membershipsOf(S, n)
  <2> TAKE S \in DOMAIN h.groups
  <2>1. h.groups[S] = [id |-> h.groups[S].id, joined |-> h.groups[S].joined]
    BY DEF Counted, Referred, Shape
  <2>2. groups[S] = [h.groups[S] EXCEPT !.joined = @ \cup membershipsOf(S, n)]
    BY Zenon
  <2> HIDE DEF groups
  <2>3. groups[S] = [id |-> h.groups[S].id,
                     joined |-> h.groups[S].joined \cup membershipsOf(S, n)]
    BY <2>1, <2>2, Zenon
  <2> QED BY <2>3
<1>3. DOMAIN groups = DOMAIN h.groups
  OBVIOUS
<1>4. joinedMembers(h.groups) \subseteq joined
  BY <1>2, <1>3 DEF joinedMembers
<1> HIDE DEF groups, joined, r
<1>5. /\ r = [rifs |-> h.rifs, neighbors |-> h.neighbors,
              unresolvedNeighbors |-> h.unresolvedNeighbors, routes |-> h.routes,
              groups |-> groups, store |-> r.store, held |-> h.held,
              thrown |-> h.thrown]
      /\ r.store = [groups |-> h.store.groups, members |-> h.store.members \cup joined,
                    nexthops |-> h.store.nexthops \cup {m[2] : m \in joined},
                    neighbors |-> h.store.neighbors,
                    fdb |-> h.store.fdb, routes |-> h.store.routes]
  BY <1>1, Zenon DEF Counted, Referred, Shape
<1>6. Shape(r) /\ Held(r) /\ liveSets(r) = liveSets(h)
  BY <1>2, <1>3, <1>5 DEF Shape, Held, Counted, Referred, liveSets
<1>7. Referred(r)
  BY <1>3, <1>5, <1>6 DEF Counted, Referred
<1>8. Counted(r)
  <2>1. joined = joinedMembers(groups)
    BY DEF joined
  <2>2. h.store.members = joinedMembers(h.groups) \cup h.held.members
    BY DEF Counted
  <2>3. \A m \in h.store.members : m[2] \in h.store.nexthops
    BY DEF Counted
  <2>4. /\ r.groups = groups /\ r.held = h.held
        /\ r.store.members = h.store.members \cup joined
        /\ r.store.nexthops = h.store.nexthops \cup {m[2] : m \in joined}
    BY <1>5
  <2>5. r.store.members = joinedMembers(r.groups) \cup r.held.members
    BY <1>4, <2>1, <2>2, <2>4
  <2>6. \A m \in r.store.members : m[2] \in r.store.nexthops
    BY <2>3, <2>4
  <2> QED BY <1>7, <2>5, <2>6 DEF Counted
<1>9. Joined(r)
  <2>1. r.groups = groups /\ r.neighbors = h.neighbors
    BY <1>5
  <2>2. \A S \in DOMAIN h.groups :
          groups[S].joined = h.groups[S].joined \cup membershipsOf(S, n)
    BY <1>2, Zenon
  <2> QED BY <1>3, <2>1, <2>2 DEF Joined
<1>10. SameObjects(h, r)
  <2>1. /\ r.groups = groups /\ r.routes = h.routes /\ r.held = h.held
        /\ r.store.groups = h.store.groups /\ r.store.routes = h.store.routes
    BY <1>5
  <2>2. \A S \in DOMAIN h.groups : groups[S].id = h.groups[S].id
    BY <1>2, Zenon
  <2> QED BY <1>3, <2>1, <2>2 DEF SameObjects
<1>11. SameHandles(h, r)
  BY <1>5 DEF SameHandles
<1> QED BY <1>8, <1>9, <1>10, <1>11 DEF Inv, r

\* Adding a neighbour, pending, link local or resolved.
NoPort(n, e) == ~isPending(e) /\ n \notin LinkLocal /\ e.port \notin PortHandles

LEMMA AddNeighborInv ==
  ASSUME NEW h, NEW n, NEW e, Inv(h), h.thrown = NoError
  PROVE  LET g == addNeighbor(h, n, e)
         IN /\ Inv(g)
            /\ SameObjects(h, g)
            /\ IntfOf[n] \in h.rifs /\ n \notin DOMAIN h.neighbors /\ ~NoPort(n, e) =>
                 /\ g.rifs = h.rifs
                 /\ g.thrown = h.thrown
                 /\ g.unresolvedNeighbors
                      = h.unresolvedNeighbors \cup (IF isPending(e) THEN {n} ELSE {})
                 /\ DOMAIN g.neighbors
                      = DOMAIN h.neighbors
                          \cup (IF isPending(e) \/ n \in LinkLocal THEN {} ELSE {n})
            /\ IntfOf[n] \in h.rifs /\ n \notin DOMAIN h.neighbors /\ NoPort(n, e) =>
                 g.thrown # NoError
<1> DEFINE g == addNeighbor(h, n, e)
<1>1. CASE IntfOf[n] \notin h.rifs \/ n \in DOMAIN h.neighbors
  <2>1. \E why : g = throw(h, why)
    BY <1>1, Zenon DEF addNeighbor
  <2> QED BY <1>1, <2>1, ThrowInv
<1>2. CASE IntfOf[n] \in h.rifs /\ n \notin DOMAIN h.neighbors /\ isPending(e)
  <2> DEFINE X == h.unresolvedNeighbors \cup {n}
  <2>1. addNeighbor(h, n, e) = [h EXCEPT !.unresolvedNeighbors = X]
    BY <1>2, Zenon DEF addNeighbor
  <2> HIDE DEF X
  <2> DEFINE u == [h EXCEPT !.unresolvedNeighbors = X]
  <2>u. /\ Inv(u) /\ SameObjects(h, u) /\ u.unresolvedNeighbors = X
        /\ u.rifs = h.rifs /\ u.neighbors = h.neighbors /\ u.thrown = h.thrown
    BY SameInv, Zenon
  <2>v. g = u
    BY <2>1, Zenon
  <2> HIDE DEF g, u
  <2>2. /\ Inv(g) /\ SameObjects(h, g) /\ g.unresolvedNeighbors = X
        /\ g.rifs = h.rifs /\ g.neighbors = h.neighbors /\ g.thrown = h.thrown
    BY <2>u, <2>v, Zenon
  <2>3. X = h.unresolvedNeighbors \cup (IF isPending(e) THEN {n} ELSE {})
    BY <1>2 DEF X
  <2>4. DOMAIN g.neighbors = DOMAIN h.neighbors
                               \cup (IF isPending(e) \/ n \in LinkLocal THEN {} ELSE {n})
    BY <1>2, <2>2
  <2> QED BY <1>2, <2>2, <2>3, <2>4 DEF g, NoPort
<1>3. CASE IntfOf[n] \in h.rifs /\ n \notin DOMAIN h.neighbors /\ ~isPending(e)
           /\ n \in LinkLocal
  <2>1. g = h
    BY <1>3 DEF addNeighbor
  <2> QED BY <1>3, <2>1 DEF SameObjects, NoPort
<1>5. CASE IntfOf[n] \in h.rifs /\ n \notin DOMAIN h.neighbors /\ NoPort(n, e)
  <2>1. addFdbEntry(h, n, e) = throw(h, "no port")
    BY <1>5, Zenon DEF addFdbEntry, NoPort
  <2>0. /\ Inv(throw(h, "no port")) /\ SameObjects(h, throw(h, "no port"))
        /\ throw(h, "no port").thrown = "no port"
    BY ThrowInv, Zenon
  <2>e. "no port" # NoError
    BY DEF NoError
  <2>2. throw(h, "no port").thrown # NoError
    BY <2>0, <2>e, Zenon
  <2>3. g = throw(h, "no port")
    BY <1>5, <2>1, <2>2, Zenon DEF addNeighbor, NoPort
  <2> QED BY <1>5, <2>0, <2>2, <2>3, Zenon
<1>4. CASE IntfOf[n] \in h.rifs /\ n \notin DOMAIN h.neighbors /\ ~isPending(e)
           /\ n \notin LinkLocal /\ e.port \in PortHandles
  <2> DEFINE p == [addFdbEntry(h, n, e) EXCEPT !.store.neighbors = Put(@, n, e.mac),
                                               !.neighbors = Put(@, n, e)]
             fdb == Put(h.store.fdb, fdbKey(n, e), e.port)
             neighbors == Put(h.neighbors, n, e)
             programmed == Put(h.store.neighbors, n, e.mac)
  <2>0. addFdbEntry(h, n, e) = [h EXCEPT !.store.fdb = fdb]
    <3>1. h.store.fdb = h.store.fdb
      OBVIOUS
    <3> QED BY <1>4, Zenon DEF addFdbEntry
  <2>a. [h EXCEPT !.store.fdb = fdb].thrown = NoError
    <3> HIDE DEF fdb
    <3> QED BY DEF Inv, Counted, Referred, Shape
  <2>1. addNeighbor(h, n, e) = handleResolvedNeighbor(p, n)
    BY <1>4, <2>0, <2>a, Zenon DEF addNeighbor
  <2>2. /\ DOMAIN neighbors = DOMAIN h.neighbors \cup {n}
        /\ DOMAIN programmed = DOMAIN h.store.neighbors \cup {n}
    BY DEF Put
  <2>3. /\ p = [rifs |-> h.rifs, neighbors |-> neighbors,
                unresolvedNeighbors |-> h.unresolvedNeighbors, routes |-> h.routes,
                groups |-> h.groups, store |-> p.store, held |-> h.held,
                thrown |-> h.thrown]
        /\ p.store = [groups |-> h.store.groups, members |-> h.store.members,
                      nexthops |-> h.store.nexthops, neighbors |-> programmed,
                      fdb |-> fdb, routes |-> h.store.routes]
    <3>1. p = [[h EXCEPT !.store.fdb = fdb] EXCEPT
                 !.store.neighbors = Put(@, n, e.mac), !.neighbors = Put(@, n, e)]
      BY <2>0, Zenon
    <3>2. Put([h EXCEPT !.store.fdb = fdb].store.neighbors, n, e.mac) = programmed
      BY DEF Inv, Counted, Referred, Shape
    <3>3. Put([h EXCEPT !.store.fdb = fdb].neighbors, n, e) = neighbors
      BY DEF Inv, Counted, Referred, Shape
    <3> HIDE DEF p, fdb, neighbors, programmed
    <3>4. p = [[h EXCEPT !.store.fdb = fdb] EXCEPT
                 !.store.neighbors = programmed, !.neighbors = neighbors]
      BY <3>1, <3>2, <3>3, Zenon
    <3> QED BY <3>4, Zenon DEF Inv, Counted, Referred, Shape
  <2> HIDE DEF p, fdb, neighbors, programmed
  <2>4. Counted(p)
    BY <2>2, <2>3 DEF Inv, Counted, Referred, Shape, Held, liveSets
  <2>5. \A S \in DOMAIN p.groups :
          p.groups[S].joined \cup membershipsOf(S, n)
            = {nh \in S : nh.nbr \in DOMAIN p.neighbors}
    BY <2>2, <2>3 DEF Inv, Joined, membershipsOf
  <2>6. n \in DOMAIN p.neighbors
    BY <2>2, <2>3
  <2>7. /\ Inv(g) /\ SameObjects(p, g) /\ SameHandles(p, g)
    BY <2>1, <2>4, <2>5, <2>6, ResolvedInv
  <2> HIDE DEF g
  <2>8. SameObjects(h, g)
    BY <2>3, <2>7 DEF SameObjects
  <2>9. /\ g.rifs = h.rifs /\ g.thrown = h.thrown
        /\ g.unresolvedNeighbors = h.unresolvedNeighbors
        /\ DOMAIN g.neighbors = DOMAIN h.neighbors \cup {n}
    BY <2>2, <2>3, <2>7 DEF SameHandles
  <2> QED BY <1>4, <2>7, <2>8, <2>9 DEF g, NoPort
<1> QED BY <1>1, <1>2, <1>3, <1>4, <1>5, Zenon DEF NoPort

\* Removing a neighbour: its memberships leave the groups, then its handle
\* goes, and each time what is no longer referred to is given up.
LEMMA RemoveNeighborInv ==
  ASSUME NEW h, NEW n, Inv(h)
  PROVE  LET g == removeNeighbor(h, n)
         IN /\ Inv(g)
            /\ Stays(h, g)
            /\ n \in LinkLocal => g = h
            /\ (/\ n \notin LinkLocal
                /\ IntfOf[n] \in h.rifs
                /\ n \in DOMAIN h.neighbors \cup h.unresolvedNeighbors) =>
                 /\ g.rifs = h.rifs
                 /\ g.thrown = h.thrown
                 /\ h.unresolvedNeighbors \ {n} \subseteq g.unresolvedNeighbors
                 /\ DOMAIN g.neighbors = DOMAIN h.neighbors \ {n}
<1> DEFINE g == removeNeighbor(h, n)
<1>s. \A x : SameObjects(h, x) => Stays(h, x)
  BY SameStays DEF Inv, Counted, Referred
<1>1. CASE n \in LinkLocal
  <2>1. g = h
    BY <1>1 DEF removeNeighbor
  <2>2. Stays(h, h)
    BY <1>s DEF SameObjects
  <2> HIDE DEF g
  <2>3. Inv(g) /\ Stays(h, g)
    BY <2>1, <2>2, Zenon
  <2> QED BY <1>1, <2>1, <2>3, Zenon DEF g
<1>2. CASE /\ n \notin LinkLocal
           /\ \/ IntfOf[n] \notin h.rifs
              \/ n \notin DOMAIN h.neighbors \cup h.unresolvedNeighbors
  <2>1. \E why : g = throw(h, why)
    BY <1>2, Zenon DEF removeNeighbor
  <2>2. Inv(g) /\ SameObjects(h, g)
    BY <2>1, ThrowInv, Zenon
  <2>3. Stays(h, g)
    BY <1>s, <2>2
  <2> QED BY <1>2, <2>2, <2>3, Zenon
<1>3. CASE n \notin LinkLocal /\ IntfOf[n] \in h.rifs /\ n \notin DOMAIN h.neighbors
           /\ n \in h.unresolvedNeighbors
  <2> DEFINE X == h.unresolvedNeighbors \ {n}
  <2>1. removeNeighbor(h, n) = [h EXCEPT !.unresolvedNeighbors = X]
    BY <1>3, Zenon DEF removeNeighbor
  <2> HIDE DEF X
  <2> DEFINE u == [h EXCEPT !.unresolvedNeighbors = X]
  <2>2. /\ Inv(u) /\ SameObjects(h, u) /\ u.unresolvedNeighbors = X
        /\ u.rifs = h.rifs /\ u.neighbors = h.neighbors /\ u.thrown = h.thrown
    BY SameInv, Zenon
  <2>3. g = u
    BY <2>1, Zenon
  <2> HIDE DEF u, g
  <2>4. /\ Inv(g) /\ SameObjects(h, g) /\ g.unresolvedNeighbors = X
        /\ g.rifs = h.rifs /\ g.neighbors = h.neighbors /\ g.thrown = h.thrown
    BY <2>2, <2>3, Zenon
  <2>5. DOMAIN g.neighbors = DOMAIN h.neighbors \ {n}
    BY <1>3, <2>4
  <2> QED BY <1>3, <1>s, <2>4, <2>5 DEF X, g
<1>4. CASE n \notin LinkLocal /\ IntfOf[n] \in h.rifs /\ n \in DOMAIN h.neighbors
  <2> DEFINE groups == [S \in DOMAIN h.groups |->
                          [h.groups[S] EXCEPT !.joined = @ \ membershipsOf(S, n)]]
             u == [h EXCEPT !.groups = groups]
             left == release(u)
             neighbors == Restrict(left.neighbors, DOMAIN left.neighbors \ {n})
             v == [left EXCEPT !.neighbors = neighbors]
             r == release(v)
  <2>1. removeNeighbor(h, n) = r
    <3>1. handleUnresolvedNeighbor(h, n) = left
      BY Zenon DEF handleUnresolvedNeighbor
    <3>2. removeNeighbor(h, n)
            = release([handleUnresolvedNeighbor(h, n) EXCEPT
                         !.neighbors = Restrict(@, DOMAIN @ \ {n})])
      BY <1>4, Zenon DEF removeNeighbor
    <3> HIDE DEF left
    <3> QED BY <3>1, <3>2, Zenon
  <2>2. DOMAIN groups = DOMAIN h.groups
    OBVIOUS
  <2>3. \A S \in DOMAIN h.groups :
          /\ groups[S] = [id |-> h.groups[S].id,
                          joined |-> h.groups[S].joined \ membershipsOf(S, n)]
          /\ groups[S].joined = h.groups[S].joined \ membershipsOf(S, n)
          /\ groups[S].id = h.groups[S].id
    <3> TAKE S \in DOMAIN h.groups
    <3>1. h.groups[S] = [id |-> h.groups[S].id, joined |-> h.groups[S].joined]
      BY DEF Inv, Counted, Referred, Shape
    <3>2. groups[S] = [h.groups[S] EXCEPT !.joined = @ \ membershipsOf(S, n)]
      BY Zenon
    <3> HIDE DEF groups
    <3>3. groups[S] = [id |-> h.groups[S].id,
                       joined |-> h.groups[S].joined \ membershipsOf(S, n)]
      BY <3>1, <3>2, Zenon
    <3> QED BY <3>3
  <2> HIDE DEF groups
  <2>4. u = [rifs |-> h.rifs, neighbors |-> h.neighbors,
             unresolvedNeighbors |-> h.unresolvedNeighbors, routes |-> h.routes,
             groups |-> groups, store |-> h.store, held |-> h.held,
             thrown |-> h.thrown]
    BY DEF Inv, Counted, Referred, Shape
  <2> HIDE DEF u
  <2>5. Referred(u)
    <3>1. /\ u.groups = groups /\ u.routes = h.routes /\ u.held = h.held
          /\ u.store = h.store /\ u.neighbors = h.neighbors
      BY <2>4
    <3>2. Held(u) /\ liveSets(u) = liveSets(h)
      BY <3>1 DEF Inv, Counted, Referred, Held, liveSets
    <3>3. \A S \in DOMAIN u.groups :
            u.groups[S] = [id |-> u.groups[S].id, joined |-> u.groups[S].joined]
      BY <2>2, <2>3, <3>1, Zenon
    <3>4. Shape(u)
      BY <2>4, <3>1, <3>3 DEF Inv, Counted, Referred, Shape
    <3> QED BY <2>2, <3>1, <3>2, <3>4 DEF Inv, Counted, Referred
  <2>s. SameObjects(h, u)
    <3>1. /\ u.groups = groups /\ u.routes = h.routes /\ u.held = h.held
          /\ u.store = h.store
      BY <2>4
    <3>2. \A S \in DOMAIN h.groups : groups[S].id = h.groups[S].id
      BY <2>3, Zenon
    <3> QED BY <2>2, <3>1, <3>2 DEF SameObjects
  <2>6. /\ Counted(left) /\ left.neighbors = h.neighbors
        /\ left.rifs = h.rifs /\ left.thrown = h.thrown
        /\ left.unresolvedNeighbors = h.unresolvedNeighbors
        /\ Stays(u, left)
        /\ DOMAIN left.groups \subseteq DOMAIN groups
        /\ \A S \in DOMAIN left.groups : left.groups[S] = groups[S]
    BY <2>4, <2>5, ReleaseCounted DEF SameHandles
  <2>7. DOMAIN neighbors = DOMAIN h.neighbors \ {n}
    BY <2>6 DEF Restrict
  <2> HIDE DEF left, neighbors
  <2>8. v = [rifs |-> left.rifs, neighbors |-> neighbors,
             unresolvedNeighbors |-> left.unresolvedNeighbors, routes |-> left.routes,
             groups |-> left.groups, store |-> left.store, held |-> left.held,
             thrown |-> left.thrown]
    BY <2>6 DEF Counted, Referred, Shape
  <2> HIDE DEF v
  <2>9. Referred(v)
    <3>1. /\ v.groups = left.groups /\ v.routes = left.routes /\ v.held = left.held
          /\ v.store = left.store /\ v.neighbors = neighbors
      BY <2>8
    <3>2. Held(v) /\ liveSets(v) = liveSets(left)
      BY <2>6, <3>1 DEF Counted, Referred, Held, liveSets
    <3>3. Shape(v)
      BY <2>6, <2>8, <3>1 DEF Counted, Referred, Shape
    <3> QED BY <2>6, <2>7, <3>1, <3>2, <3>3 DEF Counted, Referred
  <2>t. SameObjects(left, v)
    BY <2>8, Zenon DEF SameObjects
  <2>10. /\ Counted(r) /\ r.neighbors = neighbors
         /\ r.rifs = left.rifs /\ r.thrown = left.thrown
         /\ r.unresolvedNeighbors = left.unresolvedNeighbors
         /\ Stays(v, r)
         /\ DOMAIN r.groups \subseteq DOMAIN left.groups
         /\ \A S \in DOMAIN r.groups : r.groups[S] = left.groups[S]
    BY <2>8, <2>9, ReleaseCounted DEF SameHandles
  <2> HIDE DEF r
  <2>11. Joined(r)
    <3> SUFFICES ASSUME NEW S \in DOMAIN r.groups
                 PROVE  r.groups[S].joined = {nh \in S : nh.nbr \in DOMAIN r.neighbors}
      BY DEF Joined
    <3>1. S \in DOMAIN h.groups
      BY <2>2, <2>6, <2>10
    <3>2. r.groups[S].joined = h.groups[S].joined \ membershipsOf(S, n)
      BY <2>3, <2>6, <2>10, <3>1, Zenon
    <3>3. h.groups[S].joined = {nh \in S : nh.nbr \in DOMAIN h.neighbors}
      BY <3>1 DEF Inv, Joined
    <3> QED BY <2>7, <2>10, <3>2, <3>3 DEF membershipsOf
  <2>12. Stays(h, r)
    <3>1. Stays(h, u)
      BY <1>s, <2>s
    <3>2. Stays(left, v)
      BY <2>6, <2>t, SameStays DEF Counted, Referred
    <3>3. Stays(h, left)
      BY <2>6, <3>1, StaysTransitive
    <3>4. Stays(h, v)
      BY <3>2, <3>3, StaysTransitive
    <3> QED BY <2>10, <3>4, StaysTransitive
  <2>13. g = r
    BY <2>1
  <2> HIDE DEF g
  <2> QED BY <1>4, <2>6, <2>7, <2>10, <2>11, <2>12, <2>13 DEF Inv, g
<1> QED BY <1>1, <1>2, <1>3, <1>4

\* A neighbour's change is its removal and its addition, or nothing.
LEMMA ProcessNeighborInv ==
  ASSUME NEW h, NEW n, NEW old, NEW new, Inv(h), h.thrown = NoError
  PROVE  /\ Inv(processNeighbor(h, n, old, new))
         /\ Stays(h, processNeighbor(h, n, old, new))
<1>s. \A x, y : Inv(x) /\ SameObjects(x, y) => Stays(x, y)
  BY SameStays DEF Inv, Counted, Referred
<1> DEFINE removed == removeNeighbor(h, n)
<1>1. Inv(removed) /\ Stays(h, removed)
  BY RemoveNeighborInv
<1>2. removed.thrown = NoError =>
        Inv(addNeighbor(removed, n, new)) /\ Stays(removed, addNeighbor(removed, n, new))
  BY <1>1, <1>s, AddNeighborInv
<1>3. removed.thrown = NoError => Stays(h, addNeighbor(removed, n, new))
  BY <1>1, <1>2, StaysTransitive
<1>4. Inv(addNeighbor(h, n, new)) /\ Stays(h, addNeighbor(h, n, new))
  BY <1>s, AddNeighborInv
<1>5. Stays(h, h)
  BY <1>s DEF SameObjects
<1>6. \/ /\ processNeighbor(h, n, old, new) = addNeighbor(removed, n, new)
         /\ removed.thrown = NoError
      \/ processNeighbor(h, n, old, new) = removed
      \/ processNeighbor(h, n, old, new) = addNeighbor(h, n, new)
      \/ processNeighbor(h, n, old, new) = h
  BY Zenon DEF processNeighbor, changeNeighbor
<1> HIDE DEF removed
<1> QED BY <1>1, <1>2, <1>3, <1>4, <1>5, <1>6, Zenon

\* The routes are now `routes', their objects those of `objects' that are
\* referred to, and groups that no route refers to are gone.
Rerouted(h, g, routes, objects) ==
  /\ Inv(g) /\ Exact(g)
  /\ g.routes = routes /\ g.held = h.held
  /\ g.neighbors = h.neighbors /\ g.unresolvedNeighbors = h.unresolvedNeighbors
  /\ g.thrown = h.thrown
  /\ DOMAIN g.store.routes = DOMAIN objects \cap (DOMAIN routes \cup h.held.routes)
  /\ \A x \in DOMAIN g.store.routes : g.store.routes[x] = objects[x]
  /\ \A k \in DOMAIN g.store.groups :
       k \in DOMAIN h.store.groups /\ g.store.groups[k] = h.store.groups[k]
  /\ DOMAIN g.groups \subseteq DOMAIN h.groups
  /\ \A S \in DOMAIN g.groups : g.groups[S] = h.groups[S]
  /\ Objects(h) /\ DOMAIN routes \cup h.held.routes \subseteq DOMAIN objects => Objects(g)

\* A route handle may come, go and change, as long as the group it refers to
\* has a handle.
LEMMA ReleaseRerouted ==
  ASSUME NEW h, Inv(h), NEW u, NEW routes, NEW objects,
         u = [rifs |-> u.rifs, neighbors |-> h.neighbors,
              unresolvedNeighbors |-> h.unresolvedNeighbors, routes |-> routes,
              groups |-> h.groups, store |-> u.store, held |-> h.held,
              thrown |-> h.thrown],
         u.store = [groups |-> h.store.groups, members |-> h.store.members,
                    nexthops |-> h.store.nexthops, neighbors |-> h.store.neighbors,
                    fdb |-> h.store.fdb, routes |-> objects],
         {routes[r] : r \in DOMAIN routes} \ {NoGroup} \subseteq DOMAIN h.groups
  PROVE  /\ Rerouted(h, release(u), routes, objects)
         /\ release(u).rifs = u.rifs
<1>1. /\ u.neighbors = h.neighbors /\ u.unresolvedNeighbors = h.unresolvedNeighbors
      /\ u.routes = routes /\ u.groups = h.groups /\ u.held = h.held
      /\ u.thrown = h.thrown
      /\ u.store.groups = h.store.groups /\ u.store.members = h.store.members
      /\ u.store.nexthops = h.store.nexthops /\ u.store.neighbors = h.store.neighbors
      /\ u.store.routes = objects
  OBVIOUS
<1>2. Shape(u)
  <2>1. \A S \in DOMAIN u.groups :
          u.groups[S] = [id |-> u.groups[S].id, joined |-> u.groups[S].joined]
    BY <1>1 DEF Inv, Counted, Referred, Shape
  <2>2. u.store = [groups |-> u.store.groups, members |-> u.store.members,
                   nexthops |-> u.store.nexthops, neighbors |-> u.store.neighbors,
                   fdb |-> u.store.fdb, routes |-> u.store.routes]
    OBVIOUS
  <2>3. u = [rifs |-> u.rifs, neighbors |-> u.neighbors,
             unresolvedNeighbors |-> u.unresolvedNeighbors, routes |-> u.routes,
             groups |-> u.groups, store |-> u.store, held |-> u.held,
             thrown |-> u.thrown]
    BY <1>1
  <2> QED BY <2>1, <2>2, <2>3, Zenon DEF Shape
<1>3. Held(u) /\ Joined(u)
  BY <1>1 DEF Inv, Counted, Referred, Held, Joined
<1>4. Referred(u)
  BY <1>1, <1>2, <1>3, Zenon DEF Inv, Counted, Referred, liveSets
<1> DEFINE g == release(u)
<1>5. /\ Counted(g) /\ Stays(u, g) /\ Exact(g) /\ SameHandles(u, g)
      /\ g.routes = routes /\ g.held = h.held
      /\ \A k \in DOMAIN g.store.groups :
           k \in DOMAIN h.store.groups /\ g.store.groups[k] = h.store.groups[k]
      /\ DOMAIN g.store.routes = DOMAIN objects \cap (DOMAIN routes \cup h.held.routes)
      /\ \A x \in DOMAIN g.store.routes : g.store.routes[x] = objects[x]
      /\ DOMAIN g.groups \subseteq DOMAIN h.groups
      /\ \A S \in DOMAIN g.groups : g.groups[S] = h.groups[S]
  BY <1>1, <1>4, ReleaseCounted
<1> HIDE DEF g
<1>6. Joined(g)
  BY <1>1, <1>3, <1>5 DEF Joined, SameHandles
<1>7. ASSUME Objects(h), DOMAIN routes \cup h.held.routes \subseteq DOMAIN objects
      PROVE  Objects(g)
  <2>1. Ids(u)
    BY <1>1, <1>7 DEF Objects, Ids, groupIds
  <2>2. HeldObjects(u)
    BY <1>1, <1>7 DEF Objects, HeldObjects
  <2> QED BY <1>5, <2>1, <2>2, Zenon DEF Stays, Objects
<1>8. g.rifs = u.rifs /\ g.neighbors = h.neighbors /\ g.thrown = h.thrown
      /\ g.unresolvedNeighbors = h.unresolvedNeighbors
  BY <1>1, <1>5, Zenon DEF SameHandles
<1>9. Rerouted(h, g, routes, objects)
  BY <1>5, <1>6, <1>7, <1>8 DEF Rerouted, Inv
<1> QED BY <1>8, <1>9 DEF g

LEMMA ObjectsInv ==
  ASSUME NEW h, Inv(h), NEW routes, NEW objects,
         {routes[r] : r \in DOMAIN routes} \ {NoGroup} \subseteq DOMAIN h.groups
  PROVE  LET g == release([h EXCEPT !.store.routes = objects, !.routes = routes])
         IN Rerouted(h, g, routes, objects) /\ g.rifs = h.rifs
<1> DEFINE u == [h EXCEPT !.store.routes = objects, !.routes = routes]
<1>h. /\ h = [rifs |-> h.rifs, neighbors |-> h.neighbors,
              unresolvedNeighbors |-> h.unresolvedNeighbors, routes |-> h.routes,
              groups |-> h.groups, store |-> h.store, held |-> h.held,
              thrown |-> h.thrown]
      /\ h.store = [groups |-> h.store.groups, members |-> h.store.members,
                    nexthops |-> h.store.nexthops, neighbors |-> h.store.neighbors,
                    fdb |-> h.store.fdb, routes |-> h.store.routes]
  BY DEF Inv, Counted, Referred, Shape
<1>u. u = [h EXCEPT !.store.routes = objects, !.routes = routes]
  OBVIOUS
<1> HIDE DEF u
<1>1. /\ u = [rifs |-> u.rifs, neighbors |-> h.neighbors,
              unresolvedNeighbors |-> h.unresolvedNeighbors, routes |-> routes,
              groups |-> h.groups, store |-> u.store, held |-> h.held,
              thrown |-> h.thrown]
      /\ u.rifs = h.rifs
      /\ u.store = [groups |-> h.store.groups, members |-> h.store.members,
                    nexthops |-> h.store.nexthops, neighbors |-> h.store.neighbors,
                    fdb |-> h.store.fdb, routes |-> objects]
  BY <1>h, <1>u, Zenon
<1>2. Rerouted(h, release(u), routes, objects) /\ release(u).rifs = h.rifs
  BY <1>1, ReleaseRerouted
<1> QED BY <1>2 DEF u

LEMMA RoutesInv ==
  ASSUME NEW h, Inv(h), NEW routes,
         {routes[r] : r \in DOMAIN routes} \ {NoGroup} \subseteq DOMAIN h.groups
  PROVE  LET g == release([h EXCEPT !.routes = routes])
         IN Rerouted(h, g, routes, h.store.routes) /\ g.rifs = h.rifs
<1> DEFINE u == [h EXCEPT !.routes = routes]
<1>h. /\ h = [rifs |-> h.rifs, neighbors |-> h.neighbors,
              unresolvedNeighbors |-> h.unresolvedNeighbors, routes |-> h.routes,
              groups |-> h.groups, store |-> h.store, held |-> h.held,
              thrown |-> h.thrown]
      /\ h.store = [groups |-> h.store.groups, members |-> h.store.members,
                    nexthops |-> h.store.nexthops, neighbors |-> h.store.neighbors,
                    fdb |-> h.store.fdb, routes |-> h.store.routes]
  BY DEF Inv, Counted, Referred, Shape
<1>u. u = [h EXCEPT !.routes = routes]
  OBVIOUS
<1> HIDE DEF u
<1>1. /\ u = [rifs |-> u.rifs, neighbors |-> h.neighbors,
              unresolvedNeighbors |-> h.unresolvedNeighbors, routes |-> routes,
              groups |-> h.groups, store |-> u.store, held |-> h.held,
              thrown |-> h.thrown]
      /\ u.rifs = h.rifs
      /\ u.store = [groups |-> h.store.groups, members |-> h.store.members,
                    nexthops |-> h.store.nexthops, neighbors |-> h.store.neighbors,
                    fdb |-> h.store.fdb, routes |-> h.store.routes]
  BY <1>h, <1>u
<1>2. Rerouted(h, release(u), routes, h.store.routes) /\ release(u).rifs = h.rifs
  BY <1>1, ReleaseRerouted
<1> QED BY <1>2 DEF u

LEMMA SetRouteInv ==
  ASSUME NEW h, Inv(h), NEW r, NEW target, NEW S,
         S = NoGroup \/ S \in DOMAIN h.groups
  PROVE  LET g == setRoute(h, r, target, S)
         IN /\ Rerouted(h, g, Put(h.routes, r, S), setObject(h.store.routes, r, target))
            /\ g.rifs = h.rifs
<1> DEFINE routes == Put(h.routes, r, S)
           objects == setObject(h.store.routes, r, target)
<1>1. setRoute(h, r, target, S)
        = release([h EXCEPT !.store.routes = objects, !.routes = routes])
  BY Zenon DEF setRoute
<1>2. {routes[x] : x \in DOMAIN routes} \ {NoGroup} \subseteq DOMAIN h.groups
  <2>1. DOMAIN routes = DOMAIN h.routes \cup {r}
    BY DEF Put
  <2>2. \A x \in DOMAIN routes :
          routes[x] = S \/ (x \in DOMAIN h.routes /\ routes[x] = h.routes[x])
    BY DEF Put
  <2> HIDE DEF routes
  <2> QED BY <2>1, <2>2 DEF Inv, Counted, Referred, liveSets
<1> HIDE DEF routes, objects
<1> DEFINE g == release([h EXCEPT !.store.routes = objects, !.routes = routes])
<1>3. Rerouted(h, g, routes, objects) /\ g.rifs = h.rifs
  BY <1>2, ObjectsInv, Zenon
<1>4. setRoute(h, r, target, S) = g
  BY <1>1, Zenon
<1> HIDE DEF g
<1> QED BY <1>3, <1>4, Zenon DEF routes, objects

LEMMA RemoveRouteInv ==
  ASSUME NEW h, NEW r, Inv(h)
  PROVE  LET g == removeRoute(h, r)
         IN IF r \in DOMAIN h.routes
            THEN /\ Rerouted(h, g, Restrict(h.routes, DOMAIN h.routes \ {r}), h.store.routes)
                 /\ g.rifs = h.rifs
            ELSE g = throw(h, "no such route")
<1>1. CASE r \notin DOMAIN h.routes
  BY <1>1, Zenon DEF removeRoute
<1>2. CASE r \in DOMAIN h.routes
  <2> DEFINE routes == Restrict(h.routes, DOMAIN h.routes \ {r})
             g == release([h EXCEPT !.routes = routes])
  <2>1. removeRoute(h, r) = g
    BY <1>2, Zenon DEF removeRoute
  <2>2. {routes[x] : x \in DOMAIN routes} \ {NoGroup} \subseteq DOMAIN h.groups
    BY Zenon DEF Restrict, Inv, Counted, Referred, liveSets
  <2> HIDE DEF routes
  <2>3. Rerouted(h, g, routes, h.store.routes) /\ g.rifs = h.rifs
    BY <2>2, RoutesInv
  <2> HIDE DEF g
  <2> QED BY <1>2, <2>1, <2>3, Zenon DEF routes
<1> QED BY <1>1, <1>2, Zenon

\* A router interface goes with the subnet routes of its interface, unless
\* neighbours are still on it or a route of it was never programmed.
InterfaceRemoved(h, g, i, nbrs, gone) ==
  IF nbrs \subseteq LinkLocal /\ gone \subseteq DOMAIN h.routes
  THEN /\ Rerouted(h, g, Restrict(h.routes, DOMAIN h.routes \ gone), h.store.routes)
       /\ g.rifs = h.rifs \ {i}
  ELSE \E why : why # NoError /\ g = throw(h, why)

LEMMA RemoveInterfaceInv ==
  ASSUME NEW h, NEW i, NEW nbrs, NEW gone, Inv(h)
  PROVE  InterfaceRemoved(h, removeRouterInterface(h, i, nbrs, gone), i, nbrs, gone)
<1> USE DEF InterfaceRemoved
<1>1. CASE (\E n \in nbrs : n \notin LinkLocal) \/ \E r \in gone : r \notin DOMAIN h.routes
  <2>1. \/ removeRouterInterface(h, i, nbrs, gone) = throw(h, "no router interface")
        \/ removeRouterInterface(h, i, nbrs, gone) = throw(h, "no such route")
    BY <1>1, Zenon DEF removeRouterInterface
  <2>2. "no router interface" # NoError /\ "no such route" # NoError
    BY DEF NoError
  <2> QED BY <1>1, <2>1, <2>2, Zenon
<1>2. CASE ~((\E n \in nbrs : n \notin LinkLocal) \/ \E r \in gone : r \notin DOMAIN h.routes)
  <2> DEFINE routes == Restrict(h.routes, DOMAIN h.routes \ gone)
             rifs == h.rifs \ {i}
             u == [h EXCEPT !.rifs = rifs, !.routes = routes]
             g == release(u)
  <2>1. removeRouterInterface(h, i, nbrs, gone) = g
    BY <1>2, Zenon DEF removeRouterInterface
  <2>2. {routes[x] : x \in DOMAIN routes} \ {NoGroup} \subseteq DOMAIN h.groups
    BY Zenon DEF Restrict, Inv, Counted, Referred, liveSets
  <2> HIDE DEF routes, rifs
  <2>h. /\ h = [rifs |-> h.rifs, neighbors |-> h.neighbors,
                unresolvedNeighbors |-> h.unresolvedNeighbors, routes |-> h.routes,
                groups |-> h.groups, store |-> h.store, held |-> h.held,
                thrown |-> h.thrown]
        /\ h.store = [groups |-> h.store.groups, members |-> h.store.members,
                      nexthops |-> h.store.nexthops, neighbors |-> h.store.neighbors,
                      fdb |-> h.store.fdb, routes |-> h.store.routes]
    BY DEF Inv, Counted, Referred, Shape
  <2>v. u = [h EXCEPT !.rifs = rifs, !.routes = routes]
    OBVIOUS
  <2> HIDE DEF u
  <2>u. /\ u = [rifs |-> u.rifs, neighbors |-> h.neighbors,
                unresolvedNeighbors |-> h.unresolvedNeighbors, routes |-> routes,
                groups |-> h.groups, store |-> u.store, held |-> h.held,
                thrown |-> h.thrown]
        /\ u.rifs = rifs /\ u.store = h.store
    BY <2>h, <2>v, Zenon
  <2>3. Rerouted(h, g, routes, h.store.routes) /\ g.rifs = rifs
    BY <2>2, <2>h, <2>u, ReleaseRerouted
  <2>4. nbrs \subseteq LinkLocal /\ gone \subseteq DOMAIN h.routes
    BY <1>2
  <2> HIDE DEF g
  <2> QED BY <2>1, <2>3, <2>4, Zenon DEF routes, rifs
<1> QED BY <1>1, <1>2, Zenon

\* Among one number more than there are groups, one is no group's adapter key.
LEMMA FreshId ==
  ASSUME NEW h, IsFiniteSet(groupIds(h.store))
  PROVE  freshId(h) \notin groupIds(h.store)
<1> DEFINE used == groupIds(h.store)
           c == Cardinality(used)
<1>1. c \in Nat
  BY FS_CardinalityType
<1>2. Cardinality(1 .. c + 1) = c + 1
  BY <1>1, FS_Interval
<1>3. ASSUME 1 .. c + 1 \subseteq used
      PROVE  FALSE
  <2>1. Cardinality(1 .. c + 1) =< c
    BY <1>3, FS_Subset, Zenon
  <2> HIDE DEF c
  <2> QED BY <1>1, <1>2, <2>1
<1>4. \E i \in 1 .. c + 1 : i \notin used
  BY <1>3
<1>5. freshId(h) = CHOOSE i \in 1 .. c + 1 : i \notin used
  BY Zenon DEF freshId, groupIds
<1> HIDE DEF c, used
<1>6. freshId(h) \notin used
  BY <1>4, <1>5, Zenon
<1> QED BY <1>6 DEF used

\* The set has a handle, and its key a group object.
GroupAdded(h, g, S) ==
  /\ Inv(g) /\ SameHandles(h, g)
  /\ S \in DOMAIN g.groups
  /\ g.routes = h.routes /\ g.held = h.held /\ g.store.routes = h.store.routes
  /\ DOMAIN h.store.groups \subseteq DOMAIN g.store.groups
  /\ DOMAIN g.store.groups \subseteq DOMAIN h.store.groups \cup {groupKey(S)}
  /\ \A k \in DOMAIN h.store.groups : g.store.groups[k] = h.store.groups[k]
  /\ Keeps(h, g)
  /\ Objects(h) => Objects(g)

\* A group that is new is created with the memberships of its resolved
\* next hops.
LEMMA AddGroupInv ==
  ASSUME NEW h, NEW S, Inv(h)
  PROVE  LET g == incRefOrAddNextHopGroup(h, S)
         IN \/ GroupAdded(h, g, S)
            \/ /\ \E nh \in S : intf(nh) \notin h.rifs
               /\ g = throw(h, "no router interface")
<1> DEFINE g == incRefOrAddNextHopGroup(h, S)
<1>1. CASE S \in DOMAIN h.groups
  <2>1. g = h
    BY <1>1, Zenon DEF incRefOrAddNextHopGroup
  <2>2. GroupAdded(h, h, S)
    BY <1>1 DEF GroupAdded, SameHandles, Keeps
  <2> QED BY <2>1, <2>2, Zenon
<1>2. CASE S \notin DOMAIN h.groups /\ \E nh \in S : intf(nh) \notin h.rifs
  <2>1. g = throw(h, "no router interface")
    BY <1>2, Zenon DEF incRefOrAddNextHopGroup
  <2> QED BY <1>2, <2>1, Zenon
<1>3. CASE S \notin DOMAIN h.groups /\ ~ \E nh \in S : intf(nh) \notin h.rifs
  <2> DEFINE key == groupKey(S)
             id == IF key \in DOMAIN h.store.groups THEN h.store.groups[key] ELSE freshId(h)
             J == {nh \in S : nh.nbr \in DOMAIN h.neighbors}
             created == Put(h.groups, S, [id |-> id, joined |-> {}])
             objects == Put(h.store.groups, key, id)
             added == [h EXCEPT !.groups = created, !.store.groups = objects]
             new == {<<id, getAdapterHostKey(nh)>> : nh \in J}
             keys == {getAdapterHostKey(nh) : nh \in J}
             groups == Put(h.groups, S, [id |-> id, joined |-> J])
  <2>1. g = joinNextHopGroup(added, S, J)
    BY <1>3, Zenon DEF incRefOrAddNextHopGroup
  <2>2. added = [rifs |-> h.rifs, neighbors |-> h.neighbors,
                 unresolvedNeighbors |-> h.unresolvedNeighbors, routes |-> h.routes,
                 groups |-> created,
                 store |-> [groups |-> objects, members |-> h.store.members,
                            nexthops |-> h.store.nexthops,
                            neighbors |-> h.store.neighbors,
                            fdb |-> h.store.fdb, routes |-> h.store.routes],
                 held |-> h.held, thrown |-> h.thrown]
    <3>1. added = [h EXCEPT !.groups = created, !.store.groups = objects]
      BY Zenon
    <3> HIDE DEF created, objects, added
    <3> QED BY <3>1, Zenon DEF Inv, Counted, Referred, Shape
  <2>3. created[S] = [id |-> id, joined |-> {}] /\ DOMAIN created = DOMAIN h.groups \cup {S}
    BY DEF Put
  <2>4. [created EXCEPT ![S].joined = @ \cup J] = groups
    <3> DEFINE f == [created EXCEPT ![S].joined = @ \cup J]
    <3>1. DOMAIN f = DOMAIN h.groups \cup {S} /\ DOMAIN groups = DOMAIN h.groups \cup {S}
      BY <2>3 DEF Put
    <3>2. f[S] = [created[S] EXCEPT !.joined = @ \cup J]
      BY <2>3, Zenon
    <3>3. f[S] = [id |-> id, joined |-> J]
      <4> HIDE DEF J, f, id, created
      <4> QED BY <2>3, <3>2
    <3>4. \A x \in DOMAIN h.groups \cup {S} : f[x] = groups[x]
      BY <2>3, <3>3 DEF Put
    <3>5. f = [x \in DOMAIN f |-> f[x]] /\ groups = [x \in DOMAIN groups |-> groups[x]]
      BY Zenon DEF Put
    <3> HIDE DEF f, groups
    <3>6. f = groups
      BY <3>1, <3>4, <3>5
    <3> QED BY <3>6, Zenon DEF f
  <2>5. added.groups[S].id = id
    BY <2>2, <2>3
  <2> HIDE DEF added, created, objects, groups, J, id, key
  <2> DEFINE joining == {<<added.groups[S].id, getAdapterHostKey(nh)>> : nh \in J}
  <2>6. g = [added EXCEPT !.groups[S].joined = @ \cup J,
                          !.store.nexthops = @ \cup keys,
                          !.store.members = @ \cup joining]
    BY <2>1, Zenon DEF joinNextHopGroup
  <2>7. joining = new
    BY <2>5
  <2> HIDE DEF new, keys, g, joining
  <2>8. g = [rifs |-> h.rifs, neighbors |-> h.neighbors,
             unresolvedNeighbors |-> h.unresolvedNeighbors, routes |-> h.routes,
             groups |-> groups,
             store |-> [groups |-> objects, members |-> h.store.members \cup new,
                        nexthops |-> h.store.nexthops \cup keys,
                        neighbors |-> h.store.neighbors,
                        fdb |-> h.store.fdb, routes |-> h.store.routes],
             held |-> h.held, thrown |-> h.thrown]
    <3>1. added.groups = created
      BY <2>2, Zenon
    <3>2. g = [added EXCEPT !.groups = [added.groups EXCEPT ![S].joined = @ \cup J],
                            !.store.nexthops = @ \cup keys,
                            !.store.members = @ \cup joining]
      BY <2>6
    <3>3. g = [added EXCEPT !.groups = groups,
                            !.store.nexthops = @ \cup keys,
                            !.store.members = @ \cup new]
      BY <2>4, <2>7, <3>1, <3>2, Zenon
    <3> QED BY <2>2, <3>3, Zenon, SMT
  <2>9. /\ DOMAIN groups = DOMAIN h.groups \cup {S}
        /\ groups[S] = [id |-> id, joined |-> J]
        /\ \A T \in DOMAIN h.groups : groups[T] = h.groups[T]
    BY <1>3 DEF groups, Put
  <2>10. groups[S].joined = J /\ groups[S].id = id
    BY <2>9
  <2>11. joinedMembers(groups) = joinedMembers(h.groups) \cup new
    BY <2>9, <2>10 DEF joinedMembers, new
  <2>12. \A m \in new : m[2] \in keys
    BY DEF new, keys
  <2>13. /\ g.groups = groups /\ g.neighbors = h.neighbors /\ g.routes = h.routes
         /\ g.held = h.held /\ g.store.members = h.store.members \cup new
         /\ g.store.nexthops = h.store.nexthops \cup keys
         /\ g.store.neighbors = h.store.neighbors
         /\ g.store.groups = objects /\ g.store.routes = h.store.routes
    BY <2>8, Zenon
  <2>h. SameHandles(h, g)
    BY <2>8, Zenon DEF SameHandles
  <2>14. \A T \in DOMAIN groups : groups[T] = [id |-> groups[T].id, joined |-> groups[T].joined]
    BY <2>9, <2>10 DEF Inv, Counted, Referred, Shape
  <2>15. Shape(g)
    BY <2>8, <2>13, <2>14, Zenon DEF Shape
  <2>16. Held(g) /\ liveSets(g) = liveSets(h)
    BY <2>13 DEF Inv, Counted, Referred, Held, liveSets
  <2>17. Referred(g)
    BY <2>9, <2>13, <2>15, <2>16, Zenon DEF Inv, Counted, Referred
  <2>18. Counted(g)
    BY <2>11, <2>12, <2>13, <2>17, Zenon DEF Inv, Counted
  <2>19. Joined(g)
    BY <2>9, <2>10, <2>13 DEF Inv, Joined, J
  <2>20. /\ DOMAIN objects = DOMAIN h.store.groups \cup {key}
         /\ objects[key] = id
         /\ \A k \in DOMAIN h.store.groups : k # key => objects[k] = h.store.groups[k]
    BY DEF objects, Put
  <2>21. key \in DOMAIN h.store.groups => id = h.store.groups[key]
    BY DEF id
  <2>22. \A k \in DOMAIN h.store.groups : objects[k] = h.store.groups[k]
    BY <2>20, <2>21, Zenon
  <2>23. Ids(h) => Ids(g)
    <3> SUFFICES ASSUME Ids(h) PROVE Ids(g)
      BY Zenon
    <3>1. groupIds(g.store) \subseteq groupIds(h.store) \cup {id}
      BY <2>13, <2>20, <2>22, Zenon DEF groupIds
    <3>2. IsFiniteSet(groupIds(h.store) \cup {id})
      BY FS_AddElement, Zenon DEF Ids
    <3>3. IsFiniteSet(groupIds(g.store))
      BY <3>1, <3>2, FS_Subset, Zenon
    <3>4. key \notin DOMAIN h.store.groups => \A k \in DOMAIN h.store.groups : objects[k] # id
      <4> SUFFICES ASSUME key \notin DOMAIN h.store.groups
                   PROVE  \A k \in DOMAIN h.store.groups : objects[k] # id
        OBVIOUS
      <4>1. id = freshId(h)
        BY Zenon DEF id
      <4>2. id \notin groupIds(h.store)
        BY <4>1, FreshId, Zenon DEF Ids
      <4> QED BY <2>22, <4>2, Zenon DEF groupIds
    <3>5. \A k, l \in DOMAIN objects : objects[k] = objects[l] => k = l
      BY <2>20, <2>22, <3>4 DEF Ids
    <3>6. \A T \in DOMAIN groups :
            /\ groupKey(T) \in DOMAIN objects
            /\ groups[T].id = objects[groupKey(T)]
      <4> TAKE T \in DOMAIN groups
      <4>1. CASE T = S
        BY <2>10, <2>20, <4>1, Zenon DEF key
      <4>2. CASE T # S
        BY <2>9, <2>20, <2>22, <4>2, Zenon DEF Ids
      <4> QED BY <4>1, <4>2
    <3> QED BY <2>13, <3>3, <3>5, <3>6 DEF Ids
  <2>24. HeldObjects(h) => HeldObjects(g)
    BY <2>13, <2>20, <2>22 DEF HeldObjects
  <2>25. Keeps(h, g)
    BY <2>9, <2>13, Zenon DEF Keeps, Inv, Counted, Referred
  <2>26. GroupAdded(h, g, S)
    BY <2>9, <2>13, <2>18, <2>19, <2>20, <2>22, <2>23, <2>24, <2>25, <2>h
       DEF GroupAdded, Inv, Objects, key
  <2> QED BY <2>26 DEF g
<1> QED BY <1>1, <1>2, <1>3, Zenon

\* A route whose traffic goes to a next hop group.
ViaGroup(f) == f.action = "NEXTHOPS" /\ ~f.connected

\* The attributes that the route object of forwarding information `f' is given.
Target(h, f) ==
  IF ViaGroup(f) THEN CreateAttributes("FORWARD", <<"group", h.groups[f.nexthops].id>>)
  ELSE IF f.action = "NEXTHOPS"
  THEN CreateAttributes("FORWARD", <<"interface", intf(CHOOSE nh \in f.nexthops : TRUE)>>)
  ELSE IF f.action = "TO_CPU" THEN CreateAttributes("FORWARD", <<"cpu">>)
  ELSE CreateAttributes("DROP", NoNextHop)

\* An object that was given the attributes t, the last or the first time.
Does(o, t) ==
  /\ o = CreateAttributes(o.action, o.nexthop)
  /\ o.action = t.action
  /\ t.nexthop # NoNextHop => o = t

LEMMA SetDoes ==
  ASSUME NEW a, NEW x, NEW o
  PROVE  LET t == CreateAttributes(a, x)
         IN /\ Does(t, t) /\ Does(setAttributes(o, t), t)
            /\ Does(o, t) => setAttributes(o, t) = o
<1> DEFINE t == CreateAttributes(a, x)
           u == setAttributes(o, t)
           y == IF x = NoNextHop THEN o.nexthop ELSE x
<1>1. t = [action |-> a, nexthop |-> x] /\ t.action = a /\ t.nexthop = x
  BY DEF CreateAttributes
<1>2. u = CreateAttributes(a, y)
  BY <1>1, Zenon DEF setAttributes
<1> HIDE DEF y, u
<1>3. u = [action |-> a, nexthop |-> y] /\ u.action = a /\ u.nexthop = y
  BY <1>2 DEF CreateAttributes
<1>4. Does(t, t)
  BY <1>1, Zenon DEF Does
<1>5. x # NoNextHop => u = t
  BY <1>1, <1>3, Zenon DEF y
<1> HIDE DEF t
<1>6. u = CreateAttributes(u.action, u.nexthop)
  BY <1>2, <1>3, Zenon
<1>7. Does(u, t)
  BY <1>1, <1>3, <1>5, <1>6, Zenon DEF Does
<1>8. Does(o, t) => u = o
  <2> SUFFICES ASSUME Does(o, t) PROVE u = o
    BY Zenon
  <2>1. CASE x = NoNextHop
    BY <1>1, <1>2, <2>1, Zenon DEF Does, y
  <2>2. CASE x # NoNextHop
    BY <1>1, <1>5, <2>2, Zenon DEF Does
  <2> QED BY <2>1, <2>2, Zenon
<1> QED BY <1>4, <1>7, <1>8, Zenon DEF t, u

LEMMA GivenDoes ==
  ASSUME NEW o, NEW a, NEW x, x # NoNextHop, Does(o, CreateAttributes(a, x))
  PROVE  o = CreateAttributes(a, x)
<1>1. CreateAttributes(a, x).nexthop = x
  BY DEF CreateAttributes
<1> QED BY <1>1, Zenon DEF Does

LEMMA GroupDoes ==
  ASSUME NEW o, NEW i, Does(o, CreateAttributes("FORWARD", <<"group", i>>))
  PROVE  o = CreateAttributes("FORWARD", <<"group", i>>)
<1>1. <<"group", i>> # NoNextHop
  BY DEF NoNextHop
<1> QED BY <1>1, GivenDoes, Zenon

LEMMA TargetDoes ==
  ASSUME NEW h, NEW f, NEW o
  PROVE  LET t == Target(h, f)
         IN /\ Does(t, t) /\ Does(setAttributes(o, t), t)
            /\ Does(o, t) => setAttributes(o, t) = o
<1> DEFINE t == Target(h, f)
<1>1. \E a, x : t = CreateAttributes(a, x)
  BY Zenon DEF Target
<1> HIDE DEF t
<1>2. PICK a, x : t = CreateAttributes(a, x)
  BY <1>1, Zenon
<1>3. LET u == CreateAttributes(a, x)
      IN /\ Does(u, u) /\ Does(setAttributes(o, u), u)
         /\ Does(o, u) => setAttributes(o, u) = o
  BY SetDoes, Zenon
<1>4. /\ Does(t, t) /\ Does(setAttributes(o, t), t)
      /\ Does(o, t) => setAttributes(o, t) = o
  BY <1>2, <1>3, Zenon
<1> QED BY <1>4 DEF t

\* The route has a handle and an object that do what `f' says.
Programmed(h, r, f) ==
  /\ r \in DOMAIN h.routes
  /\ h.routes[r] = IF ViaGroup(f) THEN f.nexthops ELSE NoGroup
  /\ Does(h.store.routes[r], Target(h, f))

\* The routes other than those of X, and what they refer to, are the same.
KeepsBut(h, g, X) ==
  \A x \in DOMAIN h.routes \ X :
    /\ x \in DOMAIN g.routes
    /\ g.routes[x] = h.routes[x]
    /\ g.store.routes[x] = h.store.routes[x]
    /\ h.routes[x] # NoGroup => g.groups[h.routes[x]].id = h.groups[h.routes[x]].id

LEMMA ProgrammedStays ==
  ASSUME NEW h, NEW g, NEW X, KeepsBut(h, g, X), NEW r, r \notin X, NEW f,
         ViaGroup(f) => f.nexthops # NoGroup, Programmed(h, r, f)
  PROVE  Programmed(g, r, f)
<1>1. CASE ViaGroup(f)
  BY <1>1, Zenon DEF KeepsBut, Programmed, Target
<1>2. CASE ~ViaGroup(f)
  BY <1>2, Zenon DEF KeepsBut, Programmed, Target
<1> QED BY <1>1, <1>2, Zenon

LEMMA StaysKeepsBut ==
  ASSUME NEW h, NEW g, Stays(h, g), Objects(h)
  PROVE  KeepsBut(h, g, {})
  BY Zenon DEF Stays, Keeps, KeepsBut, liveSets

LEMMA ReroutedKeepsBut ==
  ASSUME NEW h, NEW g, NEW routes, NEW objects, Rerouted(h, g, routes, objects), NEW X,
         \A x \in DOMAIN h.routes \ X :
           /\ x \in DOMAIN routes /\ routes[x] = h.routes[x]
           /\ x \in DOMAIN objects /\ objects[x] = h.store.routes[x]
  PROVE  KeepsBut(h, g, X)
<1> SUFFICES ASSUME NEW x \in DOMAIN h.routes \ X
             PROVE  /\ x \in DOMAIN g.routes
                    /\ g.routes[x] = h.routes[x]
                    /\ g.store.routes[x] = h.store.routes[x]
                    /\ h.routes[x] # NoGroup =>
                         g.groups[h.routes[x]].id = h.groups[h.routes[x]].id
  BY Zenon DEF KeepsBut
<1>1. x \in DOMAIN g.routes /\ g.routes[x] = h.routes[x]
  BY DEF Rerouted
<1>2. x \in DOMAIN g.store.routes /\ g.store.routes[x] = h.store.routes[x]
  BY Zenon DEF Rerouted
<1>3. h.routes[x] # NoGroup => h.routes[x] \in DOMAIN g.groups
  BY <1>1, Zenon DEF Rerouted, Inv, Counted, Referred, liveSets
<1>4. h.routes[x] # NoGroup => g.groups[h.routes[x]].id = h.groups[h.routes[x]].id
  BY <1>3, Zenon DEF Rerouted
<1> QED BY <1>1, <1>2, <1>4, Zenon

\* Route r was programmed as `f' says, and no other route changed.
RouteSet(h, g, r, f) ==
  /\ Inv(g) /\ Exact(g) /\ SameHandles(h, g) /\ g.held = h.held
  /\ DOMAIN g.routes = DOMAIN h.routes \cup {r}
  /\ DOMAIN g.store.routes
       = (DOMAIN h.store.routes \cup {r}) \cap (DOMAIN g.routes \cup h.held.routes)
  /\ \A x \in DOMAIN g.store.routes \ {r} : g.store.routes[x] = h.store.routes[x]
  /\ \A k \in DOMAIN g.store.groups :
       \/ k \in DOMAIN h.store.groups /\ g.store.groups[k] = h.store.groups[k]
       \/ ViaGroup(f) /\ k = groupKey(f.nexthops)
  /\ \A k \in DOMAIN g.store.groups \cap DOMAIN h.store.groups :
       g.store.groups[k] = h.store.groups[k]
  /\ Objects(h) => Objects(g)
  /\ Objects(h) /\ (ViaGroup(f) => f.nexthops # NoGroup) =>
       Programmed(g, r, f) /\ KeepsBut(h, g, {r})
  /\ r \in DOMAIN h.store.routes /\ ~ViaGroup(f) =>
       g.store.routes[r] = setAttributes(h.store.routes[r], Target(h, f))

LEMMA SetRouteSet ==
  ASSUME NEW h, Inv(h), NEW r, NEW f, NEW target, NEW S,
         S = NoGroup \/ S \in DOMAIN h.groups,
         S = IF ViaGroup(f) THEN f.nexthops ELSE NoGroup,
         target = Target(h, f)
  PROVE  RouteSet(h, setRoute(h, r, target, S), r, f)
<1> DEFINE g == setRoute(h, r, target, S)
           routes == Put(h.routes, r, S)
           object == IF r \in DOMAIN h.store.routes
                     THEN setAttributes(h.store.routes[r], target) ELSE target
           objects == setObject(h.store.routes, r, target)
<1>1. Rerouted(h, g, routes, objects) /\ g.rifs = h.rifs
  BY SetRouteInv
<1>o. objects = Put(h.store.routes, r, object)
  BY Zenon DEF setObject
<1>t. Does(object, target)
  BY TargetDoes, Zenon
<1>i. r \in DOMAIN h.store.routes => object = setAttributes(h.store.routes[r], target)
  OBVIOUS
<1> HIDE DEF g, objects, object
<1>2. /\ DOMAIN routes = DOMAIN h.routes \cup {r} /\ routes[r] = S
      /\ \A x \in DOMAIN h.routes : x # r => routes[x] = h.routes[x]
      /\ DOMAIN objects = DOMAIN h.store.routes \cup {r} /\ objects[r] = object
      /\ \A x \in DOMAIN h.store.routes : x # r => objects[x] = h.store.routes[x]
  BY <1>o DEF Put
<1> HIDE DEF routes
<1>3. Objects(h) => h.held.routes \subseteq DOMAIN h.store.routes
                    /\ DOMAIN h.routes \subseteq DOMAIN h.store.routes
  BY Zenon DEF Objects, Ids, HeldObjects
<1>4. Objects(h) => Objects(g)
  BY <1>1, <1>2, <1>3, Zenon DEF Rerouted
<1>5. Objects(h) => KeepsBut(h, g, {r})
  <2> SUFFICES ASSUME Objects(h) PROVE KeepsBut(h, g, {r})
    BY Zenon
  <2>1. \A x \in DOMAIN h.routes \ {r} :
          /\ x \in DOMAIN routes /\ routes[x] = h.routes[x]
          /\ x \in DOMAIN objects /\ objects[x] = h.store.routes[x]
    BY <1>2, <1>3
  <2> QED BY <1>1, <2>1, ReroutedKeepsBut, Zenon
<1>6. (ViaGroup(f) => f.nexthops # NoGroup) => Programmed(g, r, f)
  <2> SUFFICES ASSUME ViaGroup(f) => f.nexthops # NoGroup PROVE Programmed(g, r, f)
    BY Zenon
  <2>1. r \in DOMAIN g.routes /\ g.routes[r] = S
    BY <1>1, <1>2, Zenon DEF Rerouted
  <2>2. Does(g.store.routes[r], target)
    BY <1>1, <1>2, <1>t, Zenon DEF Rerouted
  <2>3. CASE ViaGroup(f)
    <3>1. S \in DOMAIN g.groups
      BY <1>1, <2>1, <2>3, Zenon DEF Rerouted, Inv, Counted, Referred, liveSets
    <3>2. g.groups[S] = h.groups[S]
      BY <1>1, <3>1 DEF Rerouted
    <3> QED BY <2>1, <2>2, <2>3, <3>2, Zenon DEF Programmed, Target
  <2>4. CASE ~ViaGroup(f)
    BY <2>1, <2>2, <2>4, Zenon DEF Programmed, Target
  <2> QED BY <2>3, <2>4
<1>7. DOMAIN g.routes = DOMAIN h.routes \cup {r}
  BY <1>1, <1>2, Zenon DEF Rerouted
<1>8. DOMAIN g.store.routes
        = (DOMAIN h.store.routes \cup {r}) \cap (DOMAIN g.routes \cup h.held.routes)
  BY <1>1, <1>2, Zenon DEF Rerouted
<1>9. \A x \in DOMAIN g.store.routes \ {r} : g.store.routes[x] = h.store.routes[x]
  BY <1>1, <1>2, <1>8, Zenon DEF Rerouted
<1>s. r \in DOMAIN h.store.routes =>
        g.store.routes[r] = setAttributes(h.store.routes[r], Target(h, f))
  BY <1>1, <1>2, <1>7, <1>8, <1>i, Zenon DEF Rerouted
<1>10. RouteSet(h, g, r, f)
  BY <1>1, <1>4, <1>5, <1>6, <1>7, <1>8, <1>9, <1>s DEF RouteSet, Rerouted, SameHandles
<1> QED BY <1>10, Zenon DEF g

\* A route is programmed, unless a router interface is missing.
LEMMA AddOrUpdateRoute ==
  ASSUME NEW h, NEW r, NEW f, Inv(h), h.thrown = NoError
  PROVE  LET g == addOrUpdateRoute(h, r, f)
         IN \/ RouteSet(h, g, r, f)
            \/ /\ f.action = "NEXTHOPS"
               /\ f.nexthops = {} \/ \E nh \in f.nexthops : intf(nh) \notin h.rifs
               /\ g = throw(h, "no router interface")
<1> DEFINE g == addOrUpdateRoute(h, r, f)
           S == f.nexthops
<1>1. CASE ViaGroup(f)
  <2> DEFINE a == incRefOrAddNextHopGroup(h, S)
  <2>1. \/ GroupAdded(h, a, S)
        \/ (\E nh \in S : intf(nh) \notin h.rifs) /\ a = throw(h, "no router interface")
    BY AddGroupInv, Zenon
  <2>2. g = IF a.thrown # NoError THEN a
            ELSE setRoute(a, r, CreateAttributes("FORWARD", <<"group", a.groups[S].id>>), S)
    BY <1>1, Zenon DEF addOrUpdateRoute, ViaGroup
  <2> HIDE DEF a, g, S
  <2>3. CASE GroupAdded(h, a, S)
    <3>1. a.thrown = NoError /\ Inv(a) /\ S \in DOMAIN a.groups
      BY <2>3 DEF GroupAdded, SameHandles
    <3>2. g = setRoute(a, r, CreateAttributes("FORWARD", <<"group", a.groups[S].id>>), S)
      BY <2>2, <3>1
    <3>3. S = IF ViaGroup(f) THEN f.nexthops ELSE NoGroup
      BY <1>1 DEF S
    <3>4. CreateAttributes("FORWARD", <<"group", a.groups[S].id>>) = Target(a, f)
      BY <1>1, Zenon DEF S, Target
    <3>5. RouteSet(a, g, r, f)
      BY <3>1, <3>2, <3>3, <3>4, SetRouteSet, Zenon
    <3>6. Objects(h) => Objects(g) /\ Objects(a)
      BY <2>3, <3>5, Zenon DEF GroupAdded, RouteSet
    <3>7. KeepsBut(a, g, {r}) => KeepsBut(h, g, {r})
      BY <2>3 DEF GroupAdded, KeepsBut, Keeps, liveSets
    <3>8. \A k \in DOMAIN g.store.groups :
            \/ k \in DOMAIN h.store.groups /\ g.store.groups[k] = h.store.groups[k]
            \/ ViaGroup(f) /\ k = groupKey(f.nexthops)
      BY <1>1, <2>3, <3>5, Zenon DEF GroupAdded, RouteSet, S
    <3>c. \A k \in DOMAIN g.store.groups \cap DOMAIN h.store.groups :
            g.store.groups[k] = h.store.groups[k]
      BY <2>3, <3>5 DEF GroupAdded, RouteSet
    <3>a. a.routes = h.routes /\ a.held = h.held /\ a.store.routes = h.store.routes
      BY <2>3, Zenon DEF GroupAdded
    <3>b. Inv(g) /\ Exact(g) /\ SameHandles(h, g) /\ g.held = h.held
      BY <2>3, <3>5, <3>a, Zenon DEF GroupAdded, RouteSet, SameHandles
    <3>9. /\ DOMAIN g.routes = DOMAIN h.routes \cup {r}
          /\ DOMAIN g.store.routes
               = (DOMAIN h.store.routes \cup {r}) \cap (DOMAIN g.routes \cup h.held.routes)
          /\ \A x \in DOMAIN g.store.routes \ {r} : g.store.routes[x] = h.store.routes[x]
      BY <3>5, <3>a, Zenon DEF RouteSet
    <3>10. RouteSet(h, g, r, f)
      BY <1>1, <3>5, <3>6, <3>7, <3>8, <3>9, <3>b, <3>c DEF RouteSet
    <3> QED BY <3>10 DEF g
  <2>4. CASE (\E nh \in S : intf(nh) \notin h.rifs) /\ a = throw(h, "no router interface")
    <3>t. throw(h, "no router interface").thrown = "no router interface"
      BY ThrowInv, Zenon
    <3>1. a.thrown # NoError
      BY <2>4, <3>t, Zenon DEF NoError
    <3>2. g = throw(h, "no router interface")
      BY <2>2, <2>4, <3>1, Zenon
    <3> QED BY <1>1, <2>4, <3>2, Zenon DEF g, S, ViaGroup
  <2> QED BY <2>1, <2>3, <2>4, Zenon
<1>2. CASE f.action = "NEXTHOPS" /\ ~ViaGroup(f)
  <2> DEFINE nh == CHOOSE x \in S : TRUE
             i == intf(nh)
  <2>1. g = IF i \notin h.rifs THEN throw(h, "no router interface")
            ELSE setRoute(h, r, CreateAttributes("FORWARD", <<"interface", i>>), NoGroup)
    BY <1>2, Zenon DEF addOrUpdateRoute, ViaGroup
  <2>2. S = {} \/ nh \in S
    BY Zenon
  <2>3. CreateAttributes("FORWARD", <<"interface", i>>) = Target(h, f)
    BY <1>2 DEF Target
  <2> HIDE DEF nh, i, g
  <2>4. RouteSet(h, setRoute(h, r, CreateAttributes("FORWARD", <<"interface", i>>), NoGroup),
                 r, f)
    BY <1>2, <2>3, SetRouteSet
  <2>5. CASE i \in h.rifs
    BY <2>1, <2>4, <2>5, Zenon DEF g
  <2>6. CASE i \notin h.rifs
    BY <1>2, <2>1, <2>2, <2>6, Zenon DEF g, i
  <2> QED BY <2>5, <2>6, Zenon
<1>3. CASE f.action # "NEXTHOPS"
  <2>1. g = setRoute(h, r, Target(h, f), NoGroup) /\ ~ViaGroup(f)
    BY <1>3, Zenon DEF addOrUpdateRoute, Target, ViaGroup
  <2>3. RouteSet(h, setRoute(h, r, Target(h, f), NoGroup), r, f)
    BY <2>1, SetRouteSet
  <2> QED BY <2>1, <2>3
<1> QED BY <1>1, <1>2, <1>3, Zenon

LEMMA ProcessRouteInv ==
  ASSUME NEW h, NEW r, NEW old, NEW f, Inv(h), h.thrown = NoError
  PROVE  Inv(addRoute(h, r, f)) /\ Inv(processRoute(h, r, old, f))
<1>1. Inv(addOrUpdateRoute(h, r, f))
  <2> DEFINE g == addOrUpdateRoute(h, r, f)
  <2>1. RouteSet(h, g, r, f) \/ g = throw(h, "no router interface")
    BY AddOrUpdateRoute, Zenon
  <2>2. Inv(throw(h, "no router interface"))
    BY ThrowInv, Zenon
  <2> HIDE DEF g
  <2>3. Inv(g)
    BY <2>1, <2>2, Zenon DEF RouteSet
  <2> QED BY <2>3 DEF g
<1>2. Inv(throw(h, "no such route")) /\ Inv(throw(h, "duplicate route"))
  BY ThrowInv, Zenon
<1>3. Inv(addRoute(h, r, f))
  BY <1>1, <1>2, Zenon DEF addRoute
<1>4. Inv(changeRoute(h, r, f))
  BY <1>1, <1>2, Zenon DEF changeRoute
<1>5. Inv(removeRoute(h, r))
  BY <1>2, RemoveRouteInv, Zenon DEF Rerouted
<1> QED BY <1>3, <1>4, <1>5, Zenon DEF processRoute

\* Managers without handles, over any store whose members are complete.
LEMMA EmptyInv ==
  ASSUME NEW store, NEW held,
         store = [groups |-> store.groups, members |-> store.members,
                  nexthops |-> store.nexthops, neighbors |-> store.neighbors,
                  fdb |-> store.fdb, routes |-> store.routes],
         held.members = store.members,
         held.nexthops = store.nexthops,
         held.neighbors = DOMAIN store.neighbors,
         \A m \in store.members : /\ m = <<m[1], m[2]>>
                                  /\ m[2] \in store.nexthops
                                  /\ m[2][1] \in DOMAIN store.neighbors
  PROVE  Inv(emptyManagers(store, held))
<1> DEFINE h == emptyManagers(store, held)
<1>1. h = [rifs |-> {}, neighbors |-> <<>>, unresolvedNeighbors |-> {},
           routes |-> <<>>, groups |-> <<>>, store |-> store, held |-> held,
           thrown |-> NoError]
  BY Zenon DEF emptyManagers
<1> HIDE DEF h
<1>2. /\ h.neighbors = <<>> /\ h.routes = <<>> /\ h.groups = <<>>
      /\ h.store = store /\ h.held = held
  BY <1>1, Zenon
<1>3. DOMAIN h.neighbors = {} /\ DOMAIN h.routes = {} /\ DOMAIN h.groups = {}
  BY <1>2
<1>4. Shape(h)
  BY <1>1, <1>2, <1>3, Zenon DEF Shape
<1>5. Held(h)
  BY <1>2, Zenon DEF Held
<1>6. liveSets(h) = {} /\ joinedMembers(h.groups) = {}
  BY <1>3, Zenon DEF liveSets, joinedMembers
<1>7. Counted(h)
  BY <1>2, <1>3, <1>4, <1>5, <1>6, Zenon DEF Counted, Referred
<1>8. Joined(h)
  BY <1>3 DEF Joined
<1> QED BY <1>7, <1>8, Zenon DEF Inv, h

\* Every member of the store is a pair, and its next hop and neighbour exist.
LEMMA InvComplete ==
  ASSUME NEW h, Inv(h), NEW m \in h.store.members
  PROVE  /\ m = <<m[1], m[2]>>
         /\ m[2] \in h.store.nexthops
         /\ m[2][1] \in DOMAIN h.store.neighbors
<1>1. m[2] \in h.store.nexthops
  BY DEF Inv, Counted
<1>2. CASE m \in h.held.members
  BY <1>1, <1>2 DEF Inv, Counted, Referred, Held
<1>3. CASE m \in joinedMembers(h.groups)
  <2>1. PICK T \in DOMAIN h.groups : \E nh \in h.groups[T].joined :
          m = <<h.groups[T].id, <<nh.nbr, nh.label>>>>
    BY <1>3, MemberPair
  <2>2. PICK nh \in h.groups[T].joined : m = <<h.groups[T].id, <<nh.nbr, nh.label>>>>
    BY <2>1, Zenon
  <2>3. nh.nbr \in DOMAIN h.store.neighbors
    BY <2>2 DEF Inv, Counted, Referred, Joined
  <2> QED BY <1>1, <2>2, <2>3
<1> QED BY <1>2, <1>3 DEF Inv, Counted

\* A warm boot: what the store is reloaded with is held as a whole.
LEMMA ReloadInv ==
  ASSUME NEW h, Inv(h)
  PROVE  Inv(reload(h.store))
<1> DEFINE store == h.store
           ids == groupIds(store)
           key(i) == adapterHostKey(store, i)
           groups == [k \in {key(i) : i \in ids} |-> CHOOSE i \in ids : key(i) = k]
           loaded == [store EXCEPT !.groups = groups]
           fatal == emptyManagers(store, warmBootHandles(store))
<1>1. store = [groups |-> store.groups, members |-> store.members,
               nexthops |-> store.nexthops, neighbors |-> store.neighbors,
               fdb |-> store.fdb, routes |-> store.routes]
  BY DEF Inv, Counted, Referred, Shape
<1>2. \A m \in store.members : /\ m = <<m[1], m[2]>>
                               /\ m[2] \in store.nexthops
                               /\ m[2][1] \in DOMAIN store.neighbors
  BY InvComplete
<1>3. \/ reload(store) = throw(fatal, "duplicate adapterHostKey")
      \/ reload(store) = emptyManagers(loaded, warmBootHandles(loaded))
  BY Zenon DEF reload
<1>4. loaded = [store EXCEPT !.groups = groups]
  OBVIOUS
<1> HIDE DEF store, groups, loaded
<1>5. loaded = [groups |-> groups, members |-> store.members,
                nexthops |-> store.nexthops, neighbors |-> store.neighbors,
                fdb |-> store.fdb, routes |-> store.routes]
  BY <1>1, <1>4, Zenon
<1>6. Inv(fatal)
  <2>1. /\ warmBootHandles(store).members = store.members
        /\ warmBootHandles(store).nexthops = store.nexthops
        /\ warmBootHandles(store).neighbors = DOMAIN store.neighbors
    BY Zenon DEF warmBootHandles
  <2> QED BY <1>1, <1>2, <2>1, EmptyInv
<1>7. Inv(emptyManagers(loaded, warmBootHandles(loaded)))
  <2>1. /\ warmBootHandles(loaded).members = loaded.members
        /\ warmBootHandles(loaded).nexthops = loaded.nexthops
        /\ warmBootHandles(loaded).neighbors = DOMAIN loaded.neighbors
    BY DEF warmBootHandles
  <2>2. loaded.members = store.members /\ loaded.nexthops = store.nexthops
        /\ loaded.neighbors = store.neighbors
    BY <1>5, Zenon
  <2>3. loaded = [groups |-> loaded.groups, members |-> loaded.members,
                  nexthops |-> loaded.nexthops, neighbors |-> loaded.neighbors,
                  fdb |-> loaded.fdb, routes |-> loaded.routes]
    BY <1>5
  <2> QED BY <1>2, <2>1, <2>2, <2>3, EmptyInv, Zenon
<1> HIDE DEF fatal
<1>8. Inv(throw(fatal, "duplicate adapterHostKey"))
  BY <1>6, ThrowInv, Zenon
<1>9. Inv(reload(store))
  BY <1>3, <1>7, <1>8, Zenon
<1> QED BY <1>9, Zenon DEF store

\* The managers start without handles and the store empty.
LEMMA InitInv == Init => Inv(hw)
<1> SUFFICES ASSUME Init PROVE Inv(hw)
  BY Zenon
<1> DEFINE empty == emptyManagers(emptyStore, nothingHeld)
<1>1. Inv(empty)
  <2>1. /\ nothingHeld.members = emptyStore.members
        /\ nothingHeld.nexthops = emptyStore.nexthops
        /\ nothingHeld.neighbors = DOMAIN emptyStore.neighbors
        /\ emptyStore.members = {}
    BY SMTT(20) DEF emptyStore, nothingHeld
  <2>2. emptyStore = [groups |-> emptyStore.groups, members |-> emptyStore.members,
                      nexthops |-> emptyStore.nexthops,
                      neighbors |-> emptyStore.neighbors,
                      fdb |-> emptyStore.fdb, routes |-> emptyStore.routes]
    BY DEF emptyStore
  <2> QED BY <2>1, <2>2, EmptyInv, Zenon
<1>2. hw = [empty EXCEPT !.rifs = Interfaces]
  BY Zenon DEF Init
<1> HIDE DEF empty
<1> QED BY <1>1, <1>2, SameInv, Zenon

\* Every entry of a delta, every warm boot and every replayed entry.
LEMMA NextInv ==
  ASSUME Inv(hw), [Next]_vars
  PROVE  Inv(hw')
<1>1. ASSUME NEW n \in Neighbors, NEW e \in {NoEntry, Pending} \cup Reachable(n),
             NeighborDelta(n, e)
      PROVE  Inv(hw')
  BY <1>1, ProcessNeighborInv DEF NeighborDelta, running, up
<1>2. ASSUME NEW r \in Routes, NEW f \in Forward[r] \cup {Absent}, RouteDelta(r, f)
      PROVE  Inv(hw')
  BY <1>2, ProcessRouteInv DEF RouteDelta, running, up
<1>3. ASSUME NEW i \in Interfaces, addRouterInterface(i)
      PROVE  Inv(hw')
  <2> DEFINE X == hw.rifs \cup {i}
  <2>1. hw' = [hw EXCEPT !.rifs = X]
    BY <1>3, Zenon DEF addRouterInterface
  <2> HIDE DEF X
  <2>2. Inv([hw EXCEPT !.rifs = X])
    BY SameInv, Zenon
  <2> QED BY <2>1, <2>2, Zenon
<1>4. ASSUME NEW i \in Interfaces, InterfaceDelta(i)
      PROVE  Inv(hw')
  <2> DEFINE nbrs == entriesOn(i)
             gone == subnetRoutesOf(i)
             g == removeRouterInterface(hw, i, nbrs, gone)
  <2>1. hw' = g
    BY <1>4, Zenon DEF InterfaceDelta
  <2> HIDE DEF nbrs, gone
  <2>2. InterfaceRemoved(hw, g, i, nbrs, gone)
    BY RemoveInterfaceInv
  <2>3. \A why : Inv(throw(hw, why))
    BY ThrowInv, Zenon
  <2> HIDE DEF g
  <2>4. Inv(g)
    BY <2>2, <2>3 DEF Rerouted, InterfaceRemoved
  <2> QED BY <2>1, <2>4
<1>5. CASE WarmBoot
  <2> DEFINE h == reload(hw.store)
  <2>1. hw' = [h EXCEPT !.rifs = sw.intfs]
    BY <1>5, Zenon DEF WarmBoot
  <2>2. Inv(h)
    BY ReloadInv
  <2> HIDE DEF h
  <2>3. Inv([h EXCEPT !.rifs = sw.intfs])
    BY <2>2, SameInv, Zenon
  <2> QED BY <2>1, <2>3, Zenon
<1>6. ASSUME NEW n \in Neighbors, ReplayNeighbor(n)
      PROVE  Inv(hw')
  BY <1>6, AddNeighborInv, Zenon DEF ReplayNeighbor, up
<1>7. ASSUME NEW r \in Routes, ReplayRoute(r)
      PROVE  Inv(hw')
  BY <1>7, ProcessRouteInv DEF ReplayRoute, up
<1>8. CASE UNCHANGED vars
  <2>1. hw' = hw
    BY <1>8 DEF vars
  <2> QED BY <2>1, Zenon
<1> QED BY <1>1, <1>2, <1>3, <1>4, <1>5, <1>6, <1>7, <1>8 DEF Next

\* Neighbours resolve and go away, routes and interfaces come and go, and the
\* agent is warm booted any number of times: the SAI next hop group of every
\* next hop set has a member for each resolved next hop, every other member is
\* kept by a warm boot handle, and no member is without its next hop object
\* and its neighbour entry (SaiNextHopGroupManager, SaiStore).
THEOREM MembersResolved == Spec => []MembersAreResolved
<1>1. Init => Inv(hw)
  BY InitInv
<1>2. Inv(hw) /\ [Next]_vars => Inv(hw')
  BY NextInv
<1>3. Inv(hw) => MembersAreResolved
  BY InvMembers
<1> DEFINE I == Inv(hw)
<1>4. Init => I
  BY <1>1
<1>5. I /\ [Next]_vars => I'
  BY <1>2
<1>6. I => MembersAreResolved
  BY <1>3
<1> HIDE DEF I
<1> QED BY <1>4, <1>5, <1>6, PTL DEF Spec

-----------------------------------------------------------------------------
(* What a process starts with.                                             *)

\* Managers without handles.
Empty(h) ==
  /\ h.rifs = {} /\ DOMAIN h.neighbors = {} /\ h.unresolvedNeighbors = {}
  /\ DOMAIN h.routes = {} /\ DOMAIN h.groups = {}

\* Two groups of the adapter have the same members.
Duplicates(store) ==
  \E i, j \in groupIds(store) :
    i # j /\ adapterHostKey(store, i) = adapterHostKey(store, j)

\* The store is reloaded as it was, groups under the keys of their members,
\* and held as a whole.
Reloaded(store, g) ==
  /\ Empty(g) /\ g.thrown = NoError
  /\ Objects(g) /\ Exact(g)
  /\ g.store.members = store.members /\ g.store.routes = store.routes
  /\ groupIds(g.store) = groupIds(store)
  /\ g.held.routes = DOMAIN store.routes
  /\ g.held.groups = DOMAIN g.store.groups
  /\ \A i \in groupIds(store) :
       /\ adapterHostKey(store, i) \in DOMAIN g.store.groups
       /\ g.store.groups[adapterHostKey(store, i)] = i

\* Every member of the store is in one of its groups.
LEMMA MemberGroups ==
  ASSUME NEW h, Inv(h), Objects(h), NEW m \in h.store.members
  PROVE  m[1] \in groupIds(h.store)
<1>1. CASE m \in h.held.members
  BY <1>1, Zenon DEF Objects, HeldObjects, groupIds
<1>2. CASE m \in joinedMembers(h.groups)
  <2>1. PICK S \in DOMAIN h.groups : \E nh \in h.groups[S].joined :
          m = <<h.groups[S].id, <<nh.nbr, nh.label>>>>
    BY <1>2, MemberPair
  <2>2. m[1] = h.groups[S].id
    BY <2>1
  <2> QED BY <2>2 DEF Objects, Ids, groupIds
<1> QED BY <1>1, <1>2 DEF Inv, Counted

LEMMA ReloadEffect ==
  ASSUME NEW h, Inv(h), Objects(h), Exact(h)
  PROVE  LET g == reload(h.store)
         IN IF Duplicates(h.store)
            THEN g.thrown # NoError /\ g.store = h.store
            ELSE Reloaded(h.store, g)
<1> DEFINE store == h.store
           ids == groupIds(store)
           key(i) == adapterHostKey(store, i)
           groups == [k \in {key(i) : i \in ids} |-> CHOOSE i \in ids : key(i) = k]
           loaded == [store EXCEPT !.groups = groups]
           fatal == emptyManagers(store, warmBootHandles(store))
           g == reload(store)
<1>1. store = [groups |-> store.groups, members |-> store.members,
               nexthops |-> store.nexthops, neighbors |-> store.neighbors,
               fdb |-> store.fdb, routes |-> store.routes]
  BY DEF Inv, Counted, Referred, Shape
<1>2. CASE Duplicates(store)
  <2>1. g = throw(fatal, "duplicate adapterHostKey")
    BY <1>2, Zenon DEF reload, Duplicates
  <2>2. g.thrown = "duplicate adapterHostKey" /\ g.store = store
    <3>1. throw(fatal, "duplicate adapterHostKey").thrown = "duplicate adapterHostKey"
      BY DEF throw, emptyManagers
    <3>2. throw(fatal, "duplicate adapterHostKey").store = store
      BY DEF throw, emptyManagers
    <3> QED BY <2>1, <3>1, <3>2, Zenon
  <2> QED BY <1>2, <2>2, Zenon DEF NoError
<1>3. CASE ~Duplicates(store)
  <2>1. g = emptyManagers(loaded, warmBootHandles(loaded))
    BY <1>3, Zenon DEF reload, Duplicates
  <2>2. /\ DOMAIN groups = {key(i) : i \in ids}
        /\ \A k \in DOMAIN groups : groups[k] = CHOOSE i \in ids : key(i) = k
    OBVIOUS
  <2>3. loaded = [store EXCEPT !.groups = groups]
    OBVIOUS
  <2> HIDE DEF store, groups, loaded, g
  <2>4. /\ loaded.groups = groups /\ loaded.members = store.members
        /\ loaded.routes = store.routes
    BY <1>1, <2>3
  <2>5. \A k \in DOMAIN groups : groups[k] \in ids /\ key(groups[k]) = k
    <3> TAKE k \in DOMAIN groups
    <3>1. \E i \in ids : key(i) = k
      BY <2>2, Zenon
    <3> QED BY <2>2, <3>1, Zenon
  <2>6. \A i \in ids : key(i) \in DOMAIN groups /\ groups[key(i)] = i
    BY <1>3, <2>2, <2>5 DEF Duplicates
  <2>7. g = [rifs |-> {}, neighbors |-> <<>>, unresolvedNeighbors |-> {},
             routes |-> <<>>, groups |-> <<>>, store |-> loaded,
             held |-> warmBootHandles(loaded), thrown |-> NoError]
    BY <2>1, Zenon DEF emptyManagers
  <2>8. /\ g.rifs = {} /\ g.neighbors = <<>> /\ g.unresolvedNeighbors = {}
        /\ g.routes = <<>> /\ g.groups = <<>> /\ g.store = loaded
        /\ g.held = warmBootHandles(loaded) /\ g.thrown = NoError
    BY <2>7, Zenon
  <2>9. Empty(g)
    BY <2>8 DEF Empty
  <2>10. /\ g.held.groups = DOMAIN groups /\ g.held.members = store.members
         /\ g.held.routes = DOMAIN store.routes
    BY <2>4, <2>8 DEF warmBootHandles
  <2>11. /\ g.store.groups = groups /\ g.store.members = store.members
         /\ g.store.routes = store.routes
    BY <2>4, <2>8, Zenon
  <2>12. groupIds(g.store) = ids
    BY <2>5, <2>6, <2>11, Zenon DEF groupIds
  <2>13. Ids(g)
    <3>1. IsFiniteSet(groupIds(g.store))
      BY <2>12 DEF Objects, Ids, store
    <3>2. \A k, l \in DOMAIN groups : groups[k] = groups[l] => k = l
      BY <2>5, Zenon
    <3> QED BY <2>9, <2>11, <3>1, <3>2, Zenon DEF Ids, Empty
  <2>14. HeldObjects(g)
    <3>1. \A k \in DOMAIN groups :
            {m[2] : m \in {x \in store.members : x[1] = groups[k]}} = k
      BY <2>5, Zenon DEF adapterHostKey
    <3>2. \A m \in store.members : \E k \in DOMAIN groups : m[1] = groups[k]
      <4> TAKE m \in store.members
      <4>1. m[1] \in ids
        BY MemberGroups, Zenon DEF store
      <4> QED BY <2>6, <4>1, Zenon
    <3> QED BY <2>10, <2>11, <3>1, <3>2 DEF HeldObjects
  <2>15. Exact(g)
    BY <2>9, <2>10, <2>11, Zenon DEF Exact, Empty, store
  <2>16. Reloaded(store, g)
    BY <2>6, <2>8, <2>9, <2>10, <2>11, <2>12, <2>13, <2>14, <2>15 DEF Reloaded, Objects
  <2> QED BY <1>3, <2>16 DEF g, store
<1> QED BY <1>2, <1>3, Zenon

-----------------------------------------------------------------------------
(* A neighbour's entry changes.                                            *)

\* What tells entries apart.
Entry(e) ==
  /\ e.state \in {"none", "pending", "reachable"}
  /\ e.state = "none" <=> e = NoEntry
  /\ e.state = "pending" <=> e = Pending

LEMMA EntryStates ==
  ASSUME NEW n, NEW e \in {NoEntry, Pending} \cup Reachable(n)
  PROVE  Entry(e)
<1>1. NoEntry.state = "none" /\ Pending.state = "pending"
  BY DEF NoEntry, Pending
<1>2. CASE e \in Reachable(n)
  <2>1. e.state = "reachable"
    BY <1>2 DEF Reachable
  <2> QED BY <1>1, <2>1, Zenon DEF Entry
<1>3. CASE e \in {NoEntry, Pending}
  BY <1>1, <1>3, Zenon DEF Entry
<1> QED BY <1>2, <1>3

\* The handles a neighbour with entry `e' has.
Handled(h, n, e) ==
  /\ n \in DOMAIN h.neighbors <=> e.state = "reachable" /\ n \notin LinkLocal
  /\ e.state = "pending" /\ n \notin LinkLocal => n \in h.unresolvedNeighbors

\* The neighbour's handles changed, and no other's.
NeighborSet(h, g, n, e) ==
  /\ g.thrown = NoError /\ g.rifs = h.rifs
  /\ DOMAIN g.neighbors \ {n} = DOMAIN h.neighbors \ {n}
  /\ h.unresolvedNeighbors \ {n} \subseteq g.unresolvedNeighbors
  /\ Handled(g, n, e)

LEMMA AddNeighborSet ==
  ASSUME NEW h, NEW n, NEW e, Inv(h), h.thrown = NoError, IntfOf[n] \in h.rifs,
         n \notin DOMAIN h.neighbors, Entry(e), e # NoEntry, ~NoPort(n, e)
  PROVE  NeighborSet(h, addNeighbor(h, n, e), n, e)
<1> DEFINE g == addNeighbor(h, n, e)
<1>1. /\ g.rifs = h.rifs
      /\ g.thrown = h.thrown
      /\ g.unresolvedNeighbors
           = h.unresolvedNeighbors \cup (IF isPending(e) THEN {n} ELSE {})
      /\ DOMAIN g.neighbors
           = DOMAIN h.neighbors \cup (IF isPending(e) \/ n \in LinkLocal THEN {} ELSE {n})
  BY AddNeighborInv
<1> HIDE DEF g
<1>2. isPending(e) <=> e.state = "pending"
  BY DEF isPending
<1>3. ~isPending(e) <=> e.state = "reachable"
  BY <1>2, Zenon DEF Entry
<1>4. NeighborSet(h, g, n, e)
  BY <1>1, <1>2, <1>3, Zenon DEF NeighborSet, Handled
<1> QED BY <1>4, Zenon DEF g

LEMMA RemoveNeighborSet ==
  ASSUME NEW h, NEW n, NEW old, Inv(h), h.thrown = NoError, IntfOf[n] \in h.rifs,
         Entry(old), old # NoEntry, Handled(h, n, old)
  PROVE  NeighborSet(h, removeNeighbor(h, n), n, NoEntry)
<1> DEFINE g == removeNeighbor(h, n)
<1>n. NoEntry.state = "none"
  BY DEF NoEntry
<1>1. CASE n \in LinkLocal
  <2>1. g = h
    BY <1>1, RemoveNeighborInv
  <2> HIDE DEF g
  <2>2. NeighborSet(h, g, n, NoEntry)
    BY <1>1, <1>n, <2>1 DEF NeighborSet, Handled
  <2> QED BY <2>2, Zenon DEF g
<1>2. CASE n \notin LinkLocal
  <2>1. n \in DOMAIN h.neighbors \cup h.unresolvedNeighbors
    BY <1>2, Zenon DEF Handled, Entry
  <2>2. /\ g.rifs = h.rifs /\ g.thrown = h.thrown
        /\ h.unresolvedNeighbors \ {n} \subseteq g.unresolvedNeighbors
        /\ DOMAIN g.neighbors = DOMAIN h.neighbors \ {n}
    BY <1>2, <2>1, RemoveNeighborInv
  <2> HIDE DEF g
  <2>3. NeighborSet(h, g, n, NoEntry)
    BY <1>n, <2>2, Zenon DEF NeighborSet, Handled
  <2> QED BY <2>3 DEF g
<1> QED BY <1>1, <1>2

LEMMA ProcessNeighborSet ==
  ASSUME NEW h, NEW n, NEW old, NEW new, Inv(h), h.thrown = NoError,
         IntfOf[n] \in h.rifs, Entry(old), Entry(new), old # new, Handled(h, n, old)
  PROVE  LET g == processNeighbor(h, n, old, new)
         IN \/ NeighborSet(h, g, n, new)
            \/ NoPort(n, new) /\ new # NoEntry /\ g.thrown # NoError
<1> DEFINE g == processNeighbor(h, n, old, new)
           removed == removeNeighbor(h, n)
<1>1. CASE old = NoEntry
  <2>1. g = addNeighbor(h, n, new)
    BY <1>1, Zenon DEF processNeighbor
  <2>2. n \notin DOMAIN h.neighbors
    BY <1>1, Zenon DEF Handled, Entry
  <2>3. IF NoPort(n, new) THEN addNeighbor(h, n, new).thrown # NoError
        ELSE NeighborSet(h, addNeighbor(h, n, new), n, new)
    BY <1>1, <2>2, AddNeighborSet, AddNeighborInv, Zenon
  <2> QED BY <1>1, <2>1, <2>3, Zenon
<1>2. CASE old # NoEntry /\ new = NoEntry
  <2>1. g = removed
    BY <1>2, Zenon DEF processNeighbor
  <2>2. NeighborSet(h, removed, n, new)
    BY <1>2, RemoveNeighborSet
  <2> QED BY <2>1, <2>2, Zenon
<1>3. CASE old # NoEntry /\ new # NoEntry /\ isPending(old) = isPending(new)
  <2>1. g = h
    BY <1>3, Zenon DEF processNeighbor, changeNeighbor
  <2>2. old.state = "reachable" /\ new.state = "reachable"
    BY <1>3 DEF Entry, isPending
  <2>3. NeighborSet(h, h, n, new)
    BY <2>2, Zenon DEF NeighborSet, Handled
  <2> QED BY <2>1, <2>3, Zenon
<1>4. CASE old # NoEntry /\ new # NoEntry /\ isPending(old) # isPending(new)
  <2>1. NeighborSet(h, removed, n, NoEntry) /\ Inv(removed)
    BY <1>4, RemoveNeighborSet, RemoveNeighborInv
  <2>2. g = IF removed.thrown # NoError THEN removed ELSE addNeighbor(removed, n, new)
    BY <1>4, Zenon DEF processNeighbor, changeNeighbor
  <2> HIDE DEF removed, g
  <2>3. /\ g = addNeighbor(removed, n, new) /\ removed.thrown = NoError
        /\ removed.rifs = h.rifs
    BY <2>1, <2>2, Zenon DEF NeighborSet
  <2>4. n \notin DOMAIN removed.neighbors
    BY <2>1, Zenon DEF NeighborSet, Handled, NoEntry
  <2>5. IF NoPort(n, new) THEN g.thrown # NoError ELSE NeighborSet(removed, g, n, new)
    BY <1>4, <2>1, <2>3, <2>4, AddNeighborSet, AddNeighborInv, Zenon
  <2>6. NeighborSet(removed, g, n, new) => NeighborSet(h, g, n, new)
    BY <2>1 DEF NeighborSet
  <2> QED BY <1>4, <2>5, <2>6, Zenon DEF g
<1> QED BY <1>1, <1>2, <1>3, <1>4

-----------------------------------------------------------------------------
(* The invariant.                                                          *)

\* The switch state is one the program can have.
SwInv ==
  /\ sw = [intfs |-> sw.intfs, nbr |-> sw.nbr, route |-> sw.route]
  /\ sw.nbr = [n \in Neighbors |-> sw.nbr[n]]
  /\ sw.route = [r \in Routes |-> sw.route[r]]
  /\ \A n \in Neighbors :
       /\ sw.nbr[n] \in {NoEntry, Pending} \cup Reachable(n)
       /\ sw.nbr[n] # NoEntry => IntfOf[n] \in sw.intfs
  /\ \A r \in Routes :
       /\ sw.route[r] \in Forward[r] \cup {Absent}
       /\ \A nh \in sw.route[r].nexthops : intf(nh) \in sw.intfs

\* Router interfaces and neighbour handles follow it.
NbrInv ==
  /\ hw.rifs = sw.intfs
  /\ DOMAIN hw.neighbors \subseteq Neighbors \ todo
  /\ \A n \in Neighbors \ todo : Handled(hw, n, sw.nbr[n])
  /\ \A n \in Neighbors \cap todo : sw.nbr[n] # NoEntry

\* So do the routes; no route is replayed before the neighbours are.
RouteInv ==
  /\ todo \subseteq Neighbors \cup Routes
  /\ DOMAIN hw.routes \subseteq Routes \ todo
  /\ \A r \in DOMAIN hw.routes : \E f \in Forward[r] : validRoute(r, f)
  /\ \A r \in Routes \ todo :
       /\ sw.route[r] = Absent => r \notin DOMAIN hw.routes
       /\ sw.route[r] # Absent /\ validRoute(r, sw.route[r]) =>
            Programmed(hw, r, sw.route[r])
  /\ \A r \in Routes \cap todo : sw.route[r] # Absent
  /\ todo \cap Neighbors # {} => DOMAIN hw.routes = {}

Follows == up => Objects(hw) /\ Exact(hw) /\ SwInv /\ NbrInv /\ RouteInv

\* Forwarding information with next hops has at least one.
LEMMA Forwarding ==
  ASSUME NEW r \in Routes, NEW f \in Forward[r] \cup {Absent}
  PROVE  /\ f.action = "NEXTHOPS" => f.nexthops # {}
         /\ ViaGroup(f) => f.nexthops # NoGroup
         /\ \A nh \in f.nexthops : nh.nbr \in Neighbors
<1>1. CASE f = Absent
  <2>1. f.action = "none" /\ f.nexthops = {}
    BY <1>1, Zenon DEF Absent
  <2> QED BY <2>1, Zenon DEF ViaGroup
<1>2. CASE f \in Forward[r]
  BY <1>2, SetsAssumption, Zenon DEF ViaGroup, NoGroup
<1> QED BY <1>1, <1>2, Zenon

\* The invariant implies what the run checks of the routes.
LEMMA FollowsRoutes == Inv(hw) /\ Follows => RoutesFollowState
<1> SUFFICES ASSUME Inv(hw), Follows, running
             PROVE  /\ \A r \in Routes :
                         LET f == sw.route[r]
                         IN f # Absent /\ validRoute(r, f) =>
                              r \in DOMAIN hw.routes /\ forwards(r, f)
                    /\ \A S, T \in DOMAIN hw.groups :
                         hw.groups[S].id = hw.groups[T].id => addresses(S) = addresses(T)
  BY Zenon DEF RoutesFollowState
<1>1. Objects(hw) /\ Exact(hw) /\ SwInv /\ RouteInv /\ todo = {}
  BY DEF Follows, running
<1>2. ASSUME NEW r \in Routes, sw.route[r] # Absent, validRoute(r, sw.route[r])
      PROVE  r \in DOMAIN hw.routes /\ forwards(r, sw.route[r])
  <2> DEFINE f == sw.route[r]
             o == hw.store.routes[r]
  <2>1. Programmed(hw, r, f)
    BY <1>1, <1>2, Zenon DEF RouteInv
  <2>2. f \in Forward[r]
    BY <1>1, <1>2, Zenon DEF SwInv
  <2>f. /\ f.action \in {"NEXTHOPS", "TO_CPU", "DROP"}
        /\ f.action = "NEXTHOPS" => f.nexthops # NoGroup
        /\ f.connected => f.action = "NEXTHOPS" /\ \E nh \in f.nexthops : f.nexthops = {nh}
    BY <2>2, SetsAssumption, Zenon DEF NoGroup
  <2> HIDE DEF f
  <2>0. r \in DOMAIN hw.routes /\ Does(o, Target(hw, f))
    BY <2>1, Zenon DEF Programmed
  <2>a. \A a, x : CreateAttributes(a, x).action = a /\ CreateAttributes(a, x).nexthop = x
    BY DEF CreateAttributes
  <2>3. CASE ViaGroup(f)
    <3> DEFINE id == hw.groups[f.nexthops].id
    <3>1. f.nexthops # NoGroup /\ f.action = "NEXTHOPS" /\ ~f.connected
      BY <2>3, <2>f, Zenon DEF ViaGroup
    <3>2. hw.routes[r] = f.nexthops
      BY <2>1, <2>3, Zenon DEF Programmed
    <3>3. f.nexthops \in DOMAIN hw.groups
      BY <2>0, <3>1, <3>2, Zenon DEF Inv, Counted, Referred, liveSets
    <3>4. id \in groupIds(hw.store)
      BY <1>1, <3>3, Zenon DEF Objects, Ids, groupIds
    <3> HIDE DEF id
    <3>5. Target(hw, f) = CreateAttributes("FORWARD", <<"group", id>>)
      BY <2>3, Zenon DEF Target, id
    <3>6. <<"group", id>> # NoNextHop
      BY DEF NoNextHop
    <3>7. o = CreateAttributes("FORWARD", <<"group", id>>)
      BY <2>0, <3>5, <3>6, GivenDoes, Zenon
    <3> QED BY <2>0, <3>1, <3>2, <3>4, <3>7 DEF f, forwards, id
  <2>4. CASE f.action = "NEXTHOPS" /\ f.connected
    <3>1. PICK nh \in f.nexthops : f.nexthops = {nh}
      BY <2>4, <2>f, Zenon
    <3>2. (CHOOSE x \in f.nexthops : TRUE) = nh
      BY <3>1
    <3>3. Target(hw, f) = CreateAttributes("FORWARD", <<"interface", intf(nh)>>)
      BY <2>4, <3>2, Zenon DEF Target, ViaGroup
    <3>4. <<"interface", intf(nh)>> # NoNextHop
      BY DEF NoNextHop
    <3>5. o = CreateAttributes("FORWARD", <<"interface", intf(nh)>>)
      BY <2>0, <3>3, <3>4, GivenDoes, Zenon
    <3>6. \A x \in f.nexthops : o = CreateAttributes("FORWARD", <<"interface", intf(x)>>)
      BY <3>1, <3>5, Zenon
    <3> QED BY <2>0, <2>4, <3>6 DEF f, forwards
  <2>5. CASE f.action = "TO_CPU"
    <3>1. Target(hw, f) = CreateAttributes("FORWARD", <<"cpu">>)
      BY <2>5, Zenon DEF Target, ViaGroup
    <3>2. <<"cpu">> # NoNextHop
      BY DEF NoNextHop
    <3>3. o = CreateAttributes("FORWARD", <<"cpu">>)
      BY <2>0, <3>1, <3>2, GivenDoes, Zenon
    <3> QED BY <2>0, <2>5, <2>f, <3>3 DEF f, forwards
  <2>6. CASE f.action = "DROP"
    <3>1. Target(hw, f) = CreateAttributes("DROP", NoNextHop)
      BY <2>6, Zenon DEF Target, ViaGroup
    <3>2. o.action = "DROP"
      BY <2>0, <2>a, <3>1, Zenon DEF Does
    <3> QED BY <2>0, <2>6, <2>f, <3>2 DEF f, forwards
  <2> QED BY <2>f, <2>3, <2>4, <2>5, <2>6, Zenon DEF ViaGroup, f
<1>3. ASSUME NEW S \in DOMAIN hw.groups, NEW T \in DOMAIN hw.groups,
             hw.groups[S].id = hw.groups[T].id
      PROVE  addresses(S) = addresses(T)
  <2>1. groupKey(S) = groupKey(T)
    BY <1>1, <1>3, Zenon DEF Objects, Ids
  <2>2. ASSUME NEW a, NEW U
        PROVE  a \in addresses(U) <=> <<a, NoLabel>> \in groupKey(U)
    BY DEF addresses, groupKey
  <2>3. ASSUME NEW a
        PROVE  a \in addresses(S) <=> a \in addresses(T)
    <3>1. a \in addresses(S) <=> <<a, NoLabel>> \in groupKey(S)
      BY <2>2
    <3>2. a \in addresses(T) <=> <<a, NoLabel>> \in groupKey(T)
      BY <2>2, Zenon
    <3> QED BY <2>1, <3>1, <3>2
  <2> QED BY <2>3, Zenon DEF addresses
<1> QED BY <1>2, <1>3, Zenon

\* Routes whose handles and objects a step leaves alone still follow.
LEMMA RoutesKept ==
  ASSUME SwInv, RouteInv, KeepsBut(hw, hw', {}), DOMAIN hw'.routes = DOMAIN hw.routes,
         sw'.route = sw.route, todo' \subseteq todo, todo' \cap Routes = todo \cap Routes
  PROVE  RouteInv'
<1>1. ASSUME NEW r \in Routes, r \notin todo', sw.route[r] # Absent,
             validRoute(r, sw.route[r])
      PROVE  Programmed(hw', r, sw.route[r])
  <2>1. Programmed(hw, r, sw.route[r])
    BY <1>1, Zenon DEF RouteInv
  <2>2. ViaGroup(sw.route[r]) => sw.route[r].nexthops # NoGroup
    BY <1>1, Forwarding DEF SwInv
  <2> QED BY <2>1, <2>2, ProgrammedStays
<1> QED BY <1>1, Zenon DEF RouteInv

-----------------------------------------------------------------------------
(* Every step preserves the invariant, or fails over a known cause.        *)

Known ==
  \/ \E r \in HostRoutes : sw.route[r].connected /\ sw'.route[r] # sw.route[r]
  \/ \E i \in sw.intfs \ sw'.intfs : \E n \in entriesOn(i) : n \notin LinkLocal
  \/ \E n \in Neighbors \ LinkLocal : overMissingPort(n)
  \/ boots' # boots /\ (~complete \/ \E r \in HostRoutes : leftOver(r))

Step == Follows' /\ (hw'.thrown # NoError => Known)

LEMMA NeighborDeltaStep ==
  ASSUME Inv(hw), Follows, NEW n \in Neighbors,
         NEW e \in {NoEntry, Pending} \cup Reachable(n), NeighborDelta(n, e)
  PROVE  Step
<1> DEFINE old == sw.nbr[n]
<1>1. /\ hw.thrown = NoError /\ todo = {} /\ todo' = todo
      /\ e # old
      /\ e # NoEntry => IntfOf[n] \in sw.intfs
      /\ sw' = [sw EXCEPT !.nbr[n] = e]
      /\ hw' = processNeighbor(hw, n, old, e)
  BY DEF NeighborDelta, running, up
<1>2. Objects(hw) /\ Exact(hw) /\ SwInv /\ NbrInv /\ RouteInv
  BY <1>1 DEF Follows, up
<1>3. Entry(old) /\ Entry(e) /\ Handled(hw, n, old)
  BY <1>1, <1>2, EntryStates DEF SwInv, NbrInv
<1>4. IntfOf[n] \in hw.rifs
  BY <1>1, <1>2 DEF SwInv, NbrInv
<1>0. NeighborSet(hw, hw', n, e) \/ (NoPort(n, e) /\ e # NoEntry /\ hw'.thrown # NoError)
  BY <1>1, <1>3, <1>4, ProcessNeighborSet
<1>6. Stays(hw, hw')
  BY <1>1, ProcessNeighborInv, Zenon
<1>7. Objects(hw') /\ Exact(hw') /\ KeepsBut(hw, hw', {}) /\ hw'.routes = hw.routes
  BY <1>2, <1>6, StaysKeepsBut DEF Stays, Keeps
<1>8. /\ sw' = [intfs |-> sw.intfs, nbr |-> [sw.nbr EXCEPT ![n] = e], route |-> sw.route]
  BY <1>1, <1>2, Zenon DEF SwInv
<1>9. /\ sw'.intfs = sw.intfs /\ sw'.route = sw.route
      /\ sw'.nbr = [sw.nbr EXCEPT ![n] = e]
  BY <1>8, Zenon
<1>10. /\ sw'.nbr = [m \in Neighbors |-> sw'.nbr[m]]
       /\ sw'.nbr[n] = e
       /\ \A m \in Neighbors : m # n => sw'.nbr[m] = sw.nbr[m]
  BY <1>2, <1>9 DEF SwInv
<1>a. CASE NoPort(n, e) /\ e # NoEntry /\ hw'.thrown # NoError
  <2>1. e.state = "reachable"
    BY <1>3, <1>a, Zenon DEF NoPort, Entry, isPending
  <2>2. overMissingPort(n)
    BY <1>1, <1>10, <1>a, <2>1 DEF overMissingPort, NoPort
  <2>3. Known
    BY <1>a, <2>2, Zenon DEF Known, NoPort
  <2> QED BY <1>a, <2>3 DEF Step, Follows, up
<1> SUFFICES ASSUME NeighborSet(hw, hw', n, e) PROVE Step
  BY <1>0, <1>a, Zenon
<1>5. NeighborSet(hw, hw', n, e)
  OBVIOUS
<1>11. SwInv'
  BY <1>1, <1>2, <1>8, <1>9, <1>10 DEF SwInv
<1>12. NbrInv'
  <2>1. hw'.rifs = sw'.intfs
    BY <1>2, <1>5, <1>9 DEF NbrInv, NeighborSet
  <2>2. DOMAIN hw'.neighbors \subseteq Neighbors \ todo'
    BY <1>1, <1>2, <1>5 DEF NbrInv, NeighborSet
  <2>3. ASSUME NEW m \in Neighbors
        PROVE  Handled(hw', m, sw'.nbr[m])
    <3>1. CASE m = n
      BY <1>5, <1>10, <3>1, Zenon DEF NeighborSet
    <3>2. CASE m # n
      <4>1. Handled(hw, m, sw.nbr[m])
        BY <1>1, <1>2 DEF NbrInv
      <4> QED BY <1>5, <1>10, <3>2, <4>1 DEF NeighborSet, Handled
    <3> QED BY <3>1, <3>2, Zenon
  <2> QED BY <1>1, <2>1, <2>2, <2>3, Zenon DEF NbrInv
<1>13. RouteInv'
  BY <1>1, <1>2, <1>7, <1>9, RoutesKept
<1>14. hw'.thrown = NoError
  BY <1>5 DEF NeighborSet
<1> QED BY <1>7, <1>11, <1>12, <1>13, <1>14 DEF Step, Follows

LEMMA ReplayNeighborStep ==
  ASSUME Inv(hw), Follows, NEW n \in Neighbors, ReplayNeighbor(n)
  PROVE  /\ Step
         /\ SameObjects(hw, hw')
<1> DEFINE e == sw.nbr[n]
<1>1. /\ hw.thrown = NoError /\ n \in todo /\ todo' = todo \ {n}
      /\ sw' = sw
      /\ hw' = addNeighbor(hw, n, e)
  BY DEF ReplayNeighbor, up
<1>2. Objects(hw) /\ Exact(hw) /\ SwInv /\ NbrInv /\ RouteInv
  BY <1>1, Zenon DEF Follows, up
<1>3. Entry(e) /\ e # NoEntry
  BY <1>1, <1>2, EntryStates, Zenon DEF SwInv, NbrInv
<1>4. IntfOf[n] \in hw.rifs /\ n \notin DOMAIN hw.neighbors
  BY <1>1, <1>2, <1>3, Zenon DEF SwInv, NbrInv
<1>6. SameObjects(hw, hw')
  BY <1>1, AddNeighborInv, Zenon
<1>a. CASE NoPort(n, e)
  <2>1. hw'.thrown # NoError
    BY <1>1, <1>4, <1>a, AddNeighborInv, Zenon
  <2>2. e.state = "reachable"
    BY <1>3, <1>a, Zenon DEF NoPort, Entry, isPending
  <2>3. overMissingPort(n)
    BY <1>1, <1>a, <2>2 DEF overMissingPort, NoPort
  <2>4. Known
    BY <1>a, <2>3, Zenon DEF Known, NoPort
  <2> QED BY <1>6, <2>1, <2>4 DEF Step, Follows, up
<1> SUFFICES ASSUME ~NoPort(n, e) PROVE Step /\ SameObjects(hw, hw')
  BY <1>a, Zenon
<1>5. NeighborSet(hw, hw', n, e)
  BY <1>1, <1>3, <1>4, AddNeighborSet, Zenon
<1>7. Stays(hw, hw')
  BY <1>6, SameStays, Zenon DEF Inv, Counted, Referred
<1>8. Objects(hw') /\ Exact(hw') /\ KeepsBut(hw, hw', {}) /\ hw'.routes = hw.routes
  BY <1>2, <1>7, StaysKeepsBut, Zenon DEF Stays, Keeps
<1>9. SwInv'
  BY <1>1, <1>2 DEF SwInv
<1>10. NbrInv'
  <2>1. hw'.rifs = sw'.intfs
    BY <1>1, <1>2, <1>5, Zenon DEF NbrInv, NeighborSet
  <2>2. DOMAIN hw'.neighbors \subseteq Neighbors \ todo'
    BY <1>1, <1>2, <1>5 DEF NbrInv, NeighborSet
  <2>3. ASSUME NEW m \in Neighbors \ todo'
        PROVE  Handled(hw', m, sw'.nbr[m])
    <3>1. CASE m = n
      BY <1>1, <1>5, <3>1, Zenon DEF NeighborSet
    <3>2. CASE m # n
      <4>1. Handled(hw, m, sw.nbr[m])
        BY <1>1, <1>2, <3>2, Zenon DEF NbrInv
      <4> QED BY <1>1, <1>5, <3>2, <4>1, Zenon DEF NeighborSet, Handled
    <3> QED BY <3>1, <3>2, Zenon
  <2>4. \A m \in Neighbors \cap todo' : sw'.nbr[m] # NoEntry
    BY <1>1, <1>2, Zenon DEF NbrInv
  <2> QED BY <2>1, <2>2, <2>3, <2>4, Zenon DEF NbrInv
<1>11. todo' \cap Routes = todo \cap Routes
  BY <1>1, SetsAssumption
<1>12. RouteInv'
  BY <1>1, <1>2, <1>8, <1>11, RoutesKept, Zenon
<1>13. hw'.thrown = NoError
  BY <1>5, Zenon DEF NeighborSet
<1> QED BY <1>6, <1>8, <1>9, <1>10, <1>12, <1>13 DEF Step, Follows

\* A throw leaves nothing to show but its cause.
LEMMA ThrowStep ==
  ASSUME Inv(hw), NEW why, why # NoError, hw' = throw(hw, why), Known
  PROVE  Step
<1>1. hw'.thrown = why
  BY ThrowInv
<1> QED BY <1>1 DEF Step, Follows, up

\* Router interfaces and neighbours are not concerned by a route.
LEMMA NeighborsKept ==
  ASSUME NbrInv, hw'.rifs = hw.rifs, hw'.neighbors = hw.neighbors,
         hw'.unresolvedNeighbors = hw.unresolvedNeighbors,
         sw'.intfs = sw.intfs, sw'.nbr = sw.nbr,
         todo' \subseteq todo, todo' \cap Neighbors = todo \cap Neighbors
  PROVE  NbrInv'
  BY Zenon DEF NbrInv, Handled

\* A route that is programmed, by a delta or by the replay.
LEMMA RouteSetFollows ==
  ASSUME Inv(hw), Objects(hw), SwInv, NbrInv, RouteInv, NEW r \in Routes,
         RouteSet(hw, hw', r, sw'.route[r]),
         sw'.route[r] \in Forward[r] \cup {Absent}, sw'.route[r] # Absent,
         validRoute(r, sw'.route[r]),
         \A x \in Routes : x # r => sw'.route[x] = sw.route[x],
         sw'.intfs = sw.intfs, sw'.nbr = sw.nbr,
         todo' = todo \ {r}, todo \cap Neighbors = {}
  PROVE  Objects(hw') /\ Exact(hw') /\ NbrInv' /\ RouteInv'
<1> DEFINE f == sw'.route[r]
<1>1. ViaGroup(f) => f.nexthops # NoGroup
  BY Forwarding
<1>2. /\ Objects(hw') /\ Exact(hw') /\ Programmed(hw', r, f) /\ KeepsBut(hw, hw', {r})
      /\ SameHandles(hw, hw') /\ DOMAIN hw'.routes = DOMAIN hw.routes \cup {r}
  BY <1>1, Zenon DEF RouteSet
<1>3. NbrInv'
  BY <1>2, NeighborsKept, Zenon DEF SameHandles
<1>4. ASSUME NEW x \in Routes, x \notin todo'
      PROVE  /\ sw'.route[x] = Absent => x \notin DOMAIN hw'.routes
             /\ sw'.route[x] # Absent /\ validRoute(x, sw'.route[x]) =>
                  Programmed(hw', x, sw'.route[x])
  <2>1. CASE x = r
    BY <1>2, <2>1
  <2>2. CASE x # r
    <3>1. sw'.route[x] = sw.route[x] /\ x \notin todo
      BY <1>4, <2>2, Zenon
    <3>2. ViaGroup(sw.route[x]) => sw.route[x].nexthops # NoGroup
      BY <1>4, Forwarding, Zenon DEF SwInv
    <3>3. Programmed(hw, x, sw.route[x]) => Programmed(hw', x, sw.route[x])
      BY <1>2, <2>2, <3>2, ProgrammedStays
    <3> QED BY <1>2, <1>4, <2>2, <3>1, <3>3, Zenon DEF RouteInv
  <2> QED BY <2>1, <2>2, Zenon
<1>5. DOMAIN hw'.routes \subseteq Routes \ todo'
  BY <1>2, Zenon DEF RouteInv
<1>6. \A x \in Routes \cap todo' : sw'.route[x] # Absent
  BY Zenon DEF RouteInv
<1>7. \A x \in DOMAIN hw'.routes : \E g \in Forward[x] : validRoute(x, g)
  BY <1>2, Zenon DEF RouteInv
<1>8. RouteInv'
  BY <1>4, <1>5, <1>6, <1>7, Zenon DEF RouteInv
<1> QED BY <1>2, <1>3, <1>8, Zenon

LEMMA RouteDeltaStep ==
  ASSUME Inv(hw), Follows, NEW r \in Routes, NEW f \in Forward[r] \cup {Absent},
         RouteDelta(r, f)
  PROVE  Step
<1> DEFINE old == sw.route[r]
<1>1. /\ hw.thrown = NoError /\ todo = {} /\ todo' = todo
      /\ f # old
      /\ \A nh \in f.nexthops : intf(nh) \in sw.intfs
      /\ sw' = [sw EXCEPT !.route[r] = f]
      /\ hw' = processRoute(hw, r, old, f)
  BY DEF RouteDelta, running, up
<1>2. Objects(hw) /\ Exact(hw) /\ SwInv /\ NbrInv /\ RouteInv
  BY <1>1 DEF Follows, up
<1>3. sw' = [intfs |-> sw.intfs, nbr |-> sw.nbr, route |-> [sw.route EXCEPT ![r] = f]]
  BY <1>1, <1>2, Zenon DEF SwInv
<1>4. /\ sw'.intfs = sw.intfs /\ sw'.nbr = sw.nbr
      /\ sw'.route = [sw.route EXCEPT ![r] = f]
  BY <1>3, Zenon
<1>5. /\ sw'.route = [x \in Routes |-> sw'.route[x]]
      /\ sw'.route[r] = f
      /\ \A x \in Routes : x # r => sw'.route[x] = sw.route[x]
  BY <1>2, <1>4 DEF SwInv
<1>6. SwInv'
  BY <1>1, <1>2, <1>3, <1>4, <1>5 DEF SwInv
<1>7. f.action = "NEXTHOPS" => f.nexthops # {} /\ \A nh \in f.nexthops : intf(nh) \in hw.rifs
  BY <1>1, <1>2, Forwarding DEF NbrInv
<1>8. RouteSet(hw, addOrUpdateRoute(hw, r, f), r, f)
  BY <1>1, <1>7, AddOrUpdateRoute, Zenon
<1>9. old # Absent /\ r \notin DOMAIN hw.routes => Known
  <2> SUFFICES ASSUME old # Absent, r \notin DOMAIN hw.routes
               PROVE  \E x \in HostRoutes : sw.route[x].connected /\ sw'.route[x] # sw.route[x]
    BY DEF Known
  <2>1. ~validRoute(r, old)
    BY <1>1, <1>2 DEF RouteInv, Programmed
  <2> QED BY <1>1, <1>5, <2>1, Zenon DEF validRoute
<1>10. old = Absent => r \notin DOMAIN hw.routes
  BY <1>1, <1>2 DEF RouteInv
<1>11. \/ hw' = hw /\ f # Absent /\ ~validRoute(r, f)
       \/ hw' = addOrUpdateRoute(hw, r, f) /\ f # Absent /\ validRoute(r, f)
       \/ hw' = removeRoute(hw, r) /\ f = Absent /\ r \in DOMAIN hw.routes
       \/ hw' = throw(hw, "no such route") /\ Known
  <2>1. CASE old = Absent
    <3>1. hw' = addRoute(hw, r, f) /\ f # Absent
      BY <1>1, <2>1, Zenon DEF processRoute
    <3> QED BY <1>10, <2>1, <3>1, Zenon DEF addRoute
  <2>2. CASE old # Absent /\ f = Absent
    <3>1. hw' = removeRoute(hw, r)
      BY <1>1, <2>2, Zenon DEF processRoute
    <3> QED BY <1>9, <2>2, <3>1, Zenon DEF removeRoute
  <2>3. CASE old # Absent /\ f # Absent
    <3>1. hw' = changeRoute(hw, r, f)
      BY <1>1, <2>3, Zenon DEF processRoute
    <3> QED BY <1>9, <2>3, <3>1, Zenon DEF changeRoute
  <2> QED BY <2>1, <2>2, <2>3, Zenon
<1>12. CASE hw' = hw /\ f # Absent /\ ~validRoute(r, f)
  <2>1. NbrInv'
    BY <1>1, <1>2, <1>4, <1>12, NeighborsKept
  <2>2. RouteInv'
    BY <1>1, <1>2, <1>5, <1>12 DEF RouteInv
  <2>3. hw'.thrown = NoError /\ Objects(hw') /\ Exact(hw')
    BY <1>1, <1>2, <1>12, Zenon
  <2> QED BY <1>6, <2>1, <2>2, <2>3 DEF Step, Follows
<1>13. CASE hw' = addOrUpdateRoute(hw, r, f) /\ f # Absent /\ validRoute(r, f)
  <2>1. RouteSet(hw, hw', r, sw'.route[r])
    BY <1>5, <1>8, <1>13
  <2>2. Objects(hw') /\ Exact(hw') /\ NbrInv' /\ RouteInv'
    BY <1>1, <1>2, <1>4, <1>5, <1>13, <2>1, RouteSetFollows, Zenon
  <2>3. hw'.thrown = NoError
    BY <1>1, <2>1, Zenon DEF RouteSet, SameHandles
  <2> QED BY <1>6, <2>2, <2>3, Zenon DEF Step, Follows
<1>14. CASE hw' = removeRoute(hw, r) /\ f = Absent /\ r \in DOMAIN hw.routes
  <2> DEFINE routes == Restrict(hw.routes, DOMAIN hw.routes \ {r})
  <2>1. Rerouted(hw, hw', routes, hw.store.routes) /\ hw'.rifs = hw.rifs
    BY <1>14, RemoveRouteInv, Zenon
  <2>2. DOMAIN routes = DOMAIN hw.routes \ {r} /\ \A x \in DOMAIN routes : routes[x] = hw.routes[x]
    BY Zenon DEF Restrict
  <2> HIDE DEF routes
  <2>3. hw.held.routes \cup DOMAIN hw.routes \subseteq DOMAIN hw.store.routes
    BY <1>2, Zenon DEF Objects, Ids, HeldObjects
  <2>4. Objects(hw') /\ Exact(hw') /\ DOMAIN hw'.routes = DOMAIN hw.routes \ {r}
    BY <1>2, <2>1, <2>2, <2>3 DEF Rerouted
  <2>5. KeepsBut(hw, hw', {r})
    BY <2>1, <2>2, <2>3, ReroutedKeepsBut, Zenon
  <2>6. NbrInv'
    BY <1>1, <1>2, <1>4, <2>1, NeighborsKept DEF Rerouted
  <2>7. ASSUME NEW x \in Routes
        PROVE  /\ sw'.route[x] = Absent => x \notin DOMAIN hw'.routes
               /\ sw'.route[x] # Absent /\ validRoute(x, sw'.route[x]) =>
                    Programmed(hw', x, sw'.route[x])
    <3>1. CASE x = r
      BY <1>5, <1>14, <2>4, <3>1, Zenon
    <3>2. CASE x # r
      <4>1. sw'.route[x] = sw.route[x]
        BY <1>5, <3>2, Zenon
      <4>2. ViaGroup(sw.route[x]) => sw.route[x].nexthops # NoGroup
        BY <1>2, Forwarding, Zenon DEF SwInv
      <4>3. Programmed(hw, x, sw.route[x]) => Programmed(hw', x, sw.route[x])
        BY <2>5, <3>2, <4>2, ProgrammedStays
      <4> QED BY <1>1, <1>2, <2>4, <4>1, <4>3, Zenon DEF RouteInv
    <3> QED BY <3>1, <3>2, Zenon
  <2>8. RouteInv'
    BY <1>1, <1>2, <2>4, <2>7, Zenon DEF RouteInv
  <2>9. hw'.thrown = NoError
    BY <1>1, <2>1 DEF Rerouted
  <2> QED BY <1>6, <2>4, <2>6, <2>8, <2>9 DEF Step, Follows
<1>15. CASE hw' = throw(hw, "no such route") /\ Known
  <2>1. "no such route" # NoError
    BY Zenon DEF NoError
  <2> QED BY <1>15, <2>1, ThrowStep, Zenon
<1> QED BY <1>11, <1>12, <1>13, <1>14, <1>15, Zenon

LEMMA AddInterfaceStep ==
  ASSUME Inv(hw), Follows, NEW i \in Interfaces, addRouterInterface(i)
  PROVE  Step
<1> DEFINE X == hw.rifs \cup {i}
           v == [hw EXCEPT !.rifs = X]
<1>1. /\ hw.thrown = NoError /\ todo = {} /\ todo' = todo
      /\ sw' = [sw EXCEPT !.intfs = @ \cup {i}]
      /\ hw' = v
  BY DEF addRouterInterface, running, up
<1>2. Objects(hw) /\ Exact(hw) /\ SwInv /\ NbrInv /\ RouteInv
  BY <1>1 DEF Follows, up
<1>3. sw' = [intfs |-> sw.intfs \cup {i}, nbr |-> sw.nbr, route |-> sw.route]
  BY <1>1, <1>2, Zenon DEF SwInv
<1>4. sw'.intfs = sw.intfs \cup {i} /\ sw'.nbr = sw.nbr /\ sw'.route = sw.route
  BY <1>3, Zenon
<1> HIDE DEF X
<1>5. /\ SameObjects(hw, v) /\ v.rifs = X /\ v.thrown = hw.thrown
      /\ v.neighbors = hw.neighbors /\ v.unresolvedNeighbors = hw.unresolvedNeighbors
  BY SameInv, Zenon, SMT
<1>v. hw' = v
  BY <1>1
<1> HIDE DEF v
<1>6. Stays(hw, hw')
  BY <1>5, <1>v, SameStays DEF Inv, Counted, Referred
<1>7. Objects(hw') /\ Exact(hw') /\ KeepsBut(hw, hw', {}) /\ hw'.routes = hw.routes
  BY <1>2, <1>6, StaysKeepsBut DEF Stays, Keeps
<1>8. SwInv'
  BY <1>2, <1>3, <1>4, Zenon DEF SwInv
<1>9. NbrInv'
  BY <1>1, <1>2, <1>4, <1>5, <1>v DEF NbrInv, Handled, X
<1>10. RouteInv'
  BY <1>1, <1>2, <1>4, <1>7, RoutesKept
<1>11. hw'.thrown = NoError
  BY <1>1, <1>5, <1>v
<1> QED BY <1>7, <1>8, <1>9, <1>10, <1>11 DEF Step, Follows

LEMMA InterfaceDeltaStep ==
  ASSUME Inv(hw), Follows, NEW i \in Interfaces, InterfaceDelta(i)
  PROVE  Step
<1> DEFINE nbrs == entriesOn(i)
           gone == subnetRoutesOf(i)
<1>1. /\ hw.thrown = NoError /\ todo = {} /\ todo' = todo /\ i \in sw.intfs
      /\ \A r \in Routes : \A nh \in sw.route[r].nexthops :
           intf(nh) = i => sw.route[r].connected
      /\ sw' = [intfs |-> sw.intfs \ {i},
                nbr |-> [n \in Neighbors |-> IF n \in nbrs THEN NoEntry ELSE sw.nbr[n]],
                route |-> [r \in Routes |-> IF r \in gone THEN Absent ELSE sw.route[r]]]
      /\ hw' = removeRouterInterface(hw, i, nbrs, gone)
  BY DEF InterfaceDelta, running, up
<1>2. Objects(hw) /\ Exact(hw) /\ SwInv /\ NbrInv /\ RouteInv
  BY <1>1, Zenon DEF Follows, up
<1>3. /\ sw' = [intfs |-> sw'.intfs, nbr |-> sw'.nbr, route |-> sw'.route]
      /\ sw'.intfs = sw.intfs \ {i}
      /\ sw'.nbr = [n \in Neighbors |-> IF n \in nbrs THEN NoEntry ELSE sw.nbr[n]]
      /\ sw'.route = [r \in Routes |-> IF r \in gone THEN Absent ELSE sw.route[r]]
  BY <1>1, Zenon
<1>4. /\ \A n \in Neighbors : sw'.nbr[n] = IF n \in nbrs THEN NoEntry ELSE sw.nbr[n]
      /\ \A r \in Routes : sw'.route[r] = IF r \in gone THEN Absent ELSE sw.route[r]
      /\ sw'.nbr = [n \in Neighbors |-> sw'.nbr[n]]
      /\ sw'.route = [r \in Routes |-> sw'.route[r]]
  BY <1>3, Zenon
<1>5. InterfaceRemoved(hw, hw', i, nbrs, gone)
  BY <1>1, RemoveInterfaceInv
<1>6. CASE ~(nbrs \subseteq LinkLocal /\ gone \subseteq DOMAIN hw.routes)
  <2>1. PICK why : why # NoError /\ hw' = throw(hw, why)
    BY <1>5, <1>6 DEF InterfaceRemoved
  <2>2. CASE ~(nbrs \subseteq LinkLocal)
    <3>1. (\E n \in nbrs : n \notin LinkLocal) /\ i \in sw.intfs \ sw'.intfs
      BY <1>1, <1>3, <2>2, Zenon
    <3>2. Known
      BY <3>1 DEF Known
    <3> QED BY <2>1, <3>2, ThrowStep, Zenon
  <2>3. CASE ~(gone \subseteq DOMAIN hw.routes)
    <3>1. PICK r \in gone : r \notin DOMAIN hw.routes
      BY <2>3, Zenon
    <3>2. r \in Routes /\ sw.route[r].connected
      BY Zenon DEF subnetRoutesOf
    <3>3. sw.route[r] # Absent
      BY <3>2 DEF Absent
    <3>4. ~validRoute(r, sw.route[r])
      BY <1>1, <1>2, <3>1, <3>2, <3>3, Zenon DEF RouteInv, Programmed
    <3>6. sw'.route[r] # sw.route[r]
      BY <1>4, <3>1, <3>2, <3>3, Zenon
    <3>5. Known
      BY <3>2, <3>4, <3>6 DEF Known, validRoute
    <3> QED BY <2>1, <3>5, ThrowStep
  <2> QED BY <1>6, <2>2, <2>3, Zenon
<1>7. CASE nbrs \subseteq LinkLocal /\ gone \subseteq DOMAIN hw.routes
  <2> DEFINE routes == Restrict(hw.routes, DOMAIN hw.routes \ gone)
  <2>1. Rerouted(hw, hw', routes, hw.store.routes) /\ hw'.rifs = hw.rifs \ {i}
    BY <1>5, <1>7 DEF InterfaceRemoved
  <2>2. DOMAIN routes = DOMAIN hw.routes \ gone /\ \A x \in DOMAIN routes : routes[x] = hw.routes[x]
    BY Zenon DEF Restrict
  <2>n. \A n \in Neighbors : n \in nbrs <=> IntfOf[n] = i /\ sw.nbr[n] # NoEntry
    BY Zenon DEF entriesOn
  <2>g. \A r \in Routes : r \in gone <=>
          sw.route[r].connected /\ \E nh \in sw.route[r].nexthops : intf(nh) = i
    BY Zenon DEF subnetRoutesOf
  <2> HIDE DEF routes, nbrs, gone
  <2>3. hw.held.routes \cup DOMAIN hw.routes \subseteq DOMAIN hw.store.routes
    BY <1>2, Zenon DEF Objects, Ids, HeldObjects
  <2>4. Objects(hw') /\ Exact(hw') /\ DOMAIN hw'.routes = DOMAIN hw.routes \ gone
    BY <1>2, <2>1, <2>2, <2>3, Zenon DEF Rerouted
  <2>5. KeepsBut(hw, hw', gone)
    BY <2>1, <2>2, <2>3, ReroutedKeepsBut, Zenon
  <2>6. SwInv'
    <3>1. ASSUME NEW n \in Neighbors
          PROVE  /\ sw'.nbr[n] \in {NoEntry, Pending} \cup Reachable(n)
                 /\ sw'.nbr[n] # NoEntry => IntfOf[n] \in sw'.intfs
      BY <1>2, <1>3, <1>4, <2>n, Zenon DEF SwInv
    <3>2. ASSUME NEW r \in Routes
          PROVE  /\ sw'.route[r] \in Forward[r] \cup {Absent}
                 /\ \A nh \in sw'.route[r].nexthops : intf(nh) \in sw'.intfs
      <4>1. CASE r \in gone
        BY <1>4, <4>1 DEF Absent
      <4>2. CASE r \notin gone
        BY <1>1, <1>2, <1>3, <1>4, <2>g, <4>2, Zenon, SMT DEF SwInv
      <4> QED BY <4>1, <4>2, Zenon
    <3> QED BY <1>3, <1>4, <3>1, <3>2, Zenon DEF SwInv
  <2>7. NbrInv'
    <3>1. ASSUME NEW n \in Neighbors
          PROVE  Handled(hw', n, sw'.nbr[n])
      <4>1. Handled(hw, n, sw.nbr[n]) /\ NoEntry.state = "none"
        BY <1>1, <1>2, Zenon DEF NbrInv, NoEntry
      <4>2. CASE n \in nbrs
        BY <1>4, <1>7, <2>1, <4>1, <4>2, Zenon, SMT DEF Rerouted, Handled
      <4>3. CASE n \notin nbrs
        BY <1>4, <2>1, <4>1, <4>3 DEF Rerouted, Handled
      <4> QED BY <4>2, <4>3
    <3>2. DOMAIN hw'.neighbors \subseteq Neighbors \ todo' /\ hw'.rifs = sw'.intfs
      BY <1>1, <1>2, <1>3, <2>1, Zenon DEF NbrInv, Rerouted
    <3> QED BY <1>1, <3>1, <3>2 DEF NbrInv
  <2>8. ASSUME NEW x \in Routes
        PROVE  /\ sw'.route[x] = Absent => x \notin DOMAIN hw'.routes
               /\ sw'.route[x] # Absent /\ validRoute(x, sw'.route[x]) =>
                    Programmed(hw', x, sw'.route[x])
    <3>1. CASE x \in gone
      BY <1>4, <2>4, <3>1
    <3>2. CASE x \notin gone
      <4>1. sw'.route[x] = sw.route[x]
        BY <1>4, <3>2, Zenon
      <4>2. ViaGroup(sw.route[x]) => sw.route[x].nexthops # NoGroup
        BY <1>2, Forwarding, Zenon DEF SwInv
      <4>3. Programmed(hw, x, sw.route[x]) => Programmed(hw', x, sw.route[x])
        BY <2>5, <3>2, <4>2, ProgrammedStays
      <4> QED BY <1>1, <1>2, <2>4, <4>1, <4>3, Zenon DEF RouteInv
    <3> QED BY <3>1, <3>2, Zenon
  <2>9. RouteInv'
    BY <1>1, <1>2, <2>4, <2>8, Zenon DEF RouteInv
  <2>10. hw'.thrown = NoError
    BY <1>1, <2>1, Zenon DEF Rerouted
  <2> QED BY <2>4, <2>6, <2>7, <2>9, <2>10, Zenon DEF Step, Follows
<1> QED BY <1>6, <1>7, Zenon, SMT

LEMMA ReplayRouteStep ==
  ASSUME Inv(hw), Follows, NEW r \in Routes, ReplayRoute(r)
  PROVE  /\ Step
         /\ IF validRoute(r, sw.route[r]) THEN RouteSet(hw, hw', r, sw.route[r])
            ELSE hw' = hw
<1> DEFINE f == sw.route[r]
<1>1. /\ hw.thrown = NoError /\ r \in todo /\ todo \cap Neighbors = {}
      /\ todo' = todo \ {r} /\ sw' = sw
      /\ hw' = addRoute(hw, r, f)
  BY DEF ReplayRoute, up
<1>2. Objects(hw) /\ Exact(hw) /\ SwInv /\ NbrInv /\ RouteInv
  BY <1>1, Zenon DEF Follows, up
<1>3. r \notin DOMAIN hw.routes /\ f # Absent /\ f \in Forward[r] \cup {Absent}
  BY <1>1, <1>2 DEF RouteInv, SwInv
<1>4. hw' = IF validRoute(r, f) THEN addOrUpdateRoute(hw, r, f) ELSE hw
  BY <1>1, <1>3, Zenon DEF addRoute
<1>5. SwInv'
  BY <1>1, <1>2, Zenon DEF SwInv
<1>6. CASE validRoute(r, f)
  <2>1. f.action = "NEXTHOPS" => f.nexthops # {} /\ \A nh \in f.nexthops : intf(nh) \in hw.rifs
    BY <1>2, <1>3, Forwarding DEF NbrInv, SwInv
  <2>2. RouteSet(hw, addOrUpdateRoute(hw, r, f), r, f)
    BY <1>1, <2>1, AddOrUpdateRoute, Zenon
  <2>3. RouteSet(hw, hw', r, f)
    BY <1>4, <1>6, <2>2
  <2>4. Objects(hw') /\ Exact(hw') /\ NbrInv' /\ RouteInv'
    BY <1>1, <1>2, <1>3, <1>6, <2>3, RouteSetFollows, Zenon
  <2>5. hw'.thrown = NoError
    BY <1>1, <2>3, Zenon DEF RouteSet, SameHandles
  <2> QED BY <1>5, <1>6, <2>3, <2>4, <2>5, Zenon DEF Step, Follows
<1>7. CASE ~validRoute(r, f)
  <2>1. hw' = hw
    BY <1>4, <1>7
  <2>2. NbrInv'
    BY <1>1, <1>2, <2>1, NeighborsKept
  <2>3. RouteInv'
    BY <1>1, <1>2, <1>3, <1>7, <2>1, Zenon DEF RouteInv
  <2>4. hw'.thrown = NoError /\ Objects(hw') /\ Exact(hw')
    BY <1>1, <1>2, <2>1, Zenon
  <2> QED BY <1>5, <1>7, <2>1, <2>2, <2>3, <2>4 DEF Step, Follows
<1> QED BY <1>6, <1>7, Zenon

\* The next hops of a complete state's routes, and their group handles.
LEMMA CompleteSets ==
  ASSUME Inv(hw), up, Follows, complete, NEW S \in DOMAIN hw.groups,
         \A r \in DOMAIN hw.routes : validRoute(r, sw.route[r])
  PROVE  \A nh \in S : nh.label = NoLabel /\ nh \in hw.groups[S].joined
<1>1. Objects(hw) /\ Exact(hw) /\ SwInv /\ NbrInv /\ RouteInv
  BY Zenon DEF Follows
<1>2. PICK r \in DOMAIN hw.routes : S = hw.routes[r] /\ S # NoGroup
  BY <1>1 DEF Exact, liveSets
<1>3. r \in Routes \ todo /\ sw.route[r] # Absent /\ todo \cap Neighbors = {}
  BY <1>1, Zenon DEF RouteInv
<1>4. ViaGroup(sw.route[r]) /\ S = sw.route[r].nexthops
  BY <1>1, <1>2, <1>3, Zenon DEF RouteInv, Programmed
<1>5. ~sw.route[r].connected
  BY <1>4, Zenon DEF ViaGroup
<1>6. \A nh \in S : /\ sw.nbr[nh.nbr].state = "reachable"
                    /\ nh.nbr \notin LinkLocal /\ nh.label = NoLabel
  BY <1>3, <1>4, <1>5, Zenon DEF complete
<1>7. \A nh \in S : nh.nbr \in Neighbors
  BY <1>1, <1>3, <1>4, Forwarding, Zenon DEF SwInv
<1>8. \A nh \in S : nh.nbr \in DOMAIN hw.neighbors
  BY <1>1, <1>3, <1>6, <1>7, Zenon DEF NbrInv, Handled
<1> QED BY <1>6, <1>8, Zenon DEF Inv, Joined

\* The groups of a complete state have in the adapter the members they were
\* created for.
LEMMA CompleteKeys ==
  ASSUME Inv(hw), up, Follows, complete,
         \A r \in DOMAIN hw.routes : validRoute(r, sw.route[r]),
         NEW k \in DOMAIN hw.store.groups
  PROVE  adapterHostKey(hw.store, hw.store.groups[k]) = k
<1> DEFINE i == hw.store.groups[k]
           K == adapterHostKey(hw.store, i)
<1>1. Objects(hw) /\ Exact(hw)
  BY Zenon DEF Follows
<1>2. hw.store.members = joinedMembers(hw.groups) \cup hw.held.members
  BY Zenon DEF Inv, Counted
<1>3. \A x : x \in K <=> \E m \in hw.store.members : m[1] = i /\ m[2] = x
  BY Zenon DEF adapterHostKey
<1>4. ASSUME NEW x \in K PROVE x \in k
  <2>1. PICK m \in hw.store.members : m[1] = i /\ m[2] = x
    BY <1>3, Zenon
  <2>2. CASE m \in hw.held.members
    <3>1. PICK l \in hw.held.groups : m[1] = hw.store.groups[l]
      BY <1>1, <2>2 DEF Objects, HeldObjects
    <3>2. l = k
      BY <1>1, <2>1, <3>1, Zenon DEF Objects, Ids, HeldObjects
    <3>3. {n[2] : n \in {y \in hw.held.members : y[1] = hw.store.groups[l]}} = l
      BY <1>1, Zenon DEF Objects, HeldObjects
    <3>4. m \in {y \in hw.held.members : y[1] = hw.store.groups[l]}
      BY <2>2, <3>1, Zenon
    <3> QED BY <2>1, <3>2, <3>3, <3>4, Zenon
  <2>3. CASE m \in joinedMembers(hw.groups)
    <3>1. PICK S \in DOMAIN hw.groups : \E nh \in hw.groups[S].joined :
            m = <<hw.groups[S].id, <<nh.nbr, nh.label>>>>
      BY <2>3, MemberPair, Zenon
    <3>2. PICK nh \in hw.groups[S].joined : m = <<hw.groups[S].id, <<nh.nbr, nh.label>>>>
      BY <3>1, Zenon
    <3>3. groupKey(S) = k
      BY <1>1, <2>1, <3>2, Zenon DEF Objects, Ids
    <3>4. nh \in S
      BY Zenon DEF Inv, Joined
    <3>5. nh.label = NoLabel
      BY <3>4, CompleteSets, Zenon
    <3> QED BY <2>1, <3>2, <3>3, <3>4, <3>5, Zenon DEF groupKey
  <2> QED BY <1>2, <2>2, <2>3, Zenon
<1>5. ASSUME NEW x \in k PROVE x \in K
  <2>1. CASE k \in hw.held.groups
    <3>1. {n[2] : n \in {y \in hw.held.members : y[1] = i}} = k
      BY <1>1, <2>1, Zenon DEF Objects, HeldObjects
    <3>2. PICK n \in hw.held.members : n[1] = i /\ n[2] = x
      BY <3>1, Zenon
    <3> QED BY <1>2, <1>3, <3>2
  <2>2. CASE k \notin hw.held.groups
    <3>1. PICK S \in DOMAIN hw.groups : k = groupKey(S)
      BY <1>1, <2>2, Zenon DEF Exact
    <3>2. PICK nh \in S : x = <<nh.nbr, NoLabel>>
      BY <3>1, Zenon DEF groupKey
    <3>3. nh.label = NoLabel /\ nh \in hw.groups[S].joined
      BY CompleteSets, Zenon
    <3>4. hw.groups[S].id = i
      BY <1>1, <3>1, Zenon DEF Objects, Ids
    <3>5. <<hw.groups[S].id, getAdapterHostKey(nh)>> \in joinedMembers(hw.groups)
      BY <3>3 DEF joinedMembers
    <3>6. <<i, x>> \in hw.store.members
      BY <1>2, <3>2, <3>3, <3>4, <3>5, Zenon DEF getAdapterHostKey
    <3>7. <<i, x>>[1] = i /\ <<i, x>>[2] = x
      BY Zenon
    <3> QED BY <1>3, <3>6, <3>7, Zenon
  <2> QED BY <2>1, <2>2, Zenon
<1> QED BY <1>4, <1>5, <1>3 DEF adapterHostKey

\* So a warm boot of a complete state finds no two groups with one key.
LEMMA CompleteReload ==
  ASSUME Inv(hw), up, Follows, complete,
         \A r \in DOMAIN hw.routes : validRoute(r, sw.route[r])
  PROVE  ~Duplicates(hw.store)
<1> SUFFICES ASSUME NEW i \in groupIds(hw.store), NEW j \in groupIds(hw.store), i # j,
                    adapterHostKey(hw.store, i) = adapterHostKey(hw.store, j)
             PROVE  FALSE
  BY Zenon DEF Duplicates
<1>1. PICK k \in DOMAIN hw.store.groups : i = hw.store.groups[k]
  BY Zenon DEF groupIds
<1>2. PICK l \in DOMAIN hw.store.groups : j = hw.store.groups[l]
  BY Zenon DEF groupIds
<1>3. k = l
  BY <1>1, <1>2, CompleteKeys
<1> QED BY <1>1, <1>2, <1>3, Zenon

\* A process starts without handles, over the store as it was.
Started ==
  /\ hw'.store.members = hw.store.members /\ hw'.store.routes = hw.store.routes
  /\ groupIds(hw'.store) = groupIds(hw.store)
  /\ ~Duplicates(hw.store) =>
       /\ hw'.held.routes = DOMAIN hw.store.routes
       /\ \A i \in groupIds(hw.store) :
            /\ adapterHostKey(hw.store, i) \in hw'.held.groups
            /\ hw'.store.groups[adapterHostKey(hw.store, i)] = i

LEMMA WarmBootStep ==
  ASSUME Inv(hw), Follows, boots \in Nat, WarmBoot
  PROVE  Step /\ Started
<1> DEFINE g == reload(hw.store)
           X == sw.intfs
           v == [g EXCEPT !.rifs = X]
<1>1. /\ hw.thrown = NoError /\ todo = {} /\ boots' # boots /\ sw' = sw
      /\ hw' = v
      /\ todo' = {n \in Neighbors : sw.nbr[n] # NoEntry}
                   \cup {r \in Routes : sw.route[r] # Absent}
  BY DEF WarmBoot, running, up
<1>2. Objects(hw) /\ Exact(hw) /\ SwInv /\ NbrInv /\ RouteInv
  BY <1>1 DEF Follows, up
<1>3. Inv(g)
  BY ReloadInv, Zenon
<1>4. IF Duplicates(hw.store) THEN g.thrown # NoError /\ g.store = hw.store
      ELSE Reloaded(hw.store, g)
  BY <1>2, ReloadEffect
<1> HIDE DEF g, X
<1>5. /\ SameObjects(g, v) /\ v.rifs = X /\ v.thrown = g.thrown /\ v.store = g.store
      /\ v.neighbors = g.neighbors /\ v.unresolvedNeighbors = g.unresolvedNeighbors
  BY <1>3, SameInv, Zenon, SMT
<1>v. hw' = v
  BY <1>1
<1> HIDE DEF v
<1>6. CASE Duplicates(hw.store)
  <2>1. hw'.thrown # NoError /\ hw'.store = hw.store
    BY <1>4, <1>5, <1>6, <1>v, Zenon
  <2>2. ~complete \/ \E r \in HostRoutes : leftOver(r)
    BY <1>1, <1>6, CompleteReload DEF validRoute, up, leftOver
  <2>3. Known
    BY <1>1, <2>2, Zenon DEF Known
  <2>4. Started
    BY <1>6, <2>1, Zenon DEF Started
  <2> QED BY <2>1, <2>3, <2>4 DEF Step, Follows, up
<1>7. CASE ~Duplicates(hw.store)
  <2>1. Reloaded(hw.store, g)
    BY <1>4, <1>7, Zenon
  <2>2. Objects(hw') /\ Exact(hw')
    <3>1. Stays(g, v)
      BY <1>3, <1>5, SameStays, Zenon DEF Inv, Counted, Referred
    <3> QED BY <1>v, <2>1, <3>1 DEF Stays, Reloaded
  <2>3. /\ hw'.rifs = sw.intfs /\ DOMAIN hw'.neighbors = {}
        /\ DOMAIN hw'.routes = {} /\ hw'.thrown = NoError
    BY <1>5, <1>v, <2>1, Zenon DEF Reloaded, Empty, SameObjects, X
  <2>4. SwInv'
    BY <1>1, <1>2, Zenon DEF SwInv
  <2>5. NbrInv'
    <3>1. \A n \in Neighbors \ todo' : sw.nbr[n] = NoEntry
      BY <1>1, Zenon
    <3>2. NoEntry.state = "none"
      BY Zenon DEF NoEntry
    <3>3. \A n \in Neighbors \cap todo' : sw.nbr[n] # NoEntry
      BY <1>1, SetsAssumption, Zenon
    <3> QED BY <1>1, <2>3, <3>1, <3>2, <3>3, Zenon DEF NbrInv, Handled
  <2>6. RouteInv'
    <3>1. \A r \in Routes \ todo' : sw.route[r] = Absent
      BY <1>1, Zenon
    <3>2. \A r \in Routes \cap todo' : sw.route[r] # Absent
      BY <1>1, SetsAssumption, Zenon
    <3>3. todo' \subseteq Neighbors \cup Routes
      BY <1>1
    <3> QED BY <1>1, <2>3, <3>1, <3>2, <3>3, Zenon DEF RouteInv
  <2>7. Started
    BY <1>5, <1>v, <2>1, Zenon DEF Started, Reloaded, SameObjects
  <2> QED BY <2>2, <2>3, <2>4, <2>5, <2>6, <2>7 DEF Step, Follows
<1> QED BY <1>6, <1>7

LEMMA InitFollows == Init => Follows
<1> SUFFICES ASSUME Init PROVE Follows
  BY Zenon
<1> DEFINE empty == emptyManagers(emptyStore, nothingHeld)
<1>1. empty = [rifs |-> {}, neighbors |-> <<>>, unresolvedNeighbors |-> {},
               routes |-> <<>>, groups |-> <<>>, store |-> emptyStore,
               held |-> nothingHeld, thrown |-> NoError]
  BY DEF emptyManagers
<1>2. hw = [empty EXCEPT !.rifs = Interfaces]
  BY DEF Init
<1> HIDE DEF empty
<1>3. /\ hw.rifs = Interfaces /\ hw.neighbors = <<>> /\ hw.routes = <<>>
      /\ hw.groups = <<>> /\ hw.store = emptyStore /\ hw.held = nothingHeld
  BY <1>1, <1>2, Zenon
<1>4. /\ DOMAIN hw.neighbors = {} /\ DOMAIN hw.routes = {} /\ DOMAIN hw.groups = {}
      /\ DOMAIN hw.store.groups = {} /\ DOMAIN hw.store.routes = {}
      /\ hw.held.groups = {} /\ hw.held.members = {} /\ hw.held.routes = {}
  BY <1>3 DEF emptyStore, nothingHeld
<1>5. Objects(hw)
  <2>1. groupIds(hw.store) = {}
    BY <1>4 DEF groupIds
  <2>2. IsFiniteSet(groupIds(hw.store))
    BY <2>1, FS_EmptySet, Zenon
  <2> QED BY <1>4, <2>2 DEF Objects, Ids, HeldObjects
<1>6. Exact(hw)
  <2>1. hw.store.routes = <<>>
    BY <1>3 DEF emptyStore
  <2>2. <<>> = [x \in DOMAIN <<>> |-> <<>>[x]]
    OBVIOUS
  <2> QED BY <1>4, <2>1, <2>2, Zenon DEF Exact
<1>7. /\ sw.intfs = Interfaces /\ sw.nbr = [n \in Neighbors |-> NoEntry]
      /\ sw.route = [r \in Routes |-> Absent] /\ todo = {}
      /\ sw = [intfs |-> sw.intfs, nbr |-> sw.nbr, route |-> sw.route]
  BY Zenon DEF Init
<1>8. Absent.nexthops = {} /\ NoEntry.state = "none"
  BY Zenon DEF Absent, NoEntry
<1>9. SwInv
  BY <1>7, <1>8, Zenon DEF SwInv
<1>10. NbrInv
  BY <1>3, <1>4, <1>7, <1>8, Zenon DEF NbrInv, Handled
<1>11. RouteInv
  BY <1>4, <1>7 DEF RouteInv
<1> QED BY <1>5, <1>6, <1>9, <1>10, <1>11 DEF Follows

LEMMA NextStep ==
  ASSUME Inv(hw), Follows, boots \in Nat, Next
  PROVE  Step /\ boots' \in Nat
<1>1. boots' \in Nat
  BY SMTT(20) DEF Next, NeighborDelta, RouteDelta, addRouterInterface, InterfaceDelta, WarmBoot,
         ReplayNeighbor, ReplayRoute
<1>2. Step
  BY NeighborDeltaStep, RouteDeltaStep, AddInterfaceStep, InterfaceDeltaStep,
     WarmBootStep, ReplayNeighborStep, ReplayRouteStep DEF Next
<1> QED BY <1>1, <1>2

\* All that the steps preserve, and what it is for.
Following == Inv(hw) /\ Follows /\ boots \in Nat

LEMMA FollowingInvariant ==
  /\ Init => Following
  /\ Following /\ [Next]_vars => Following'
<1>1. Init => Following
  BY InitInv, InitFollows DEF Following, Init
<1>2. ASSUME Following, [Next]_vars PROVE Following'
  <2>1. Inv(hw')
    BY <1>2, NextInv DEF Following
  <2>2. CASE Next
    BY <1>2, <2>1, <2>2, NextStep DEF Following, Step
  <2>3. CASE UNCHANGED vars
    <3>1. sw' = sw /\ hw' = hw /\ todo' = todo /\ boots' = boots
      BY <2>3, Zenon DEF vars
    <3>2. Follows'
      BY <1>2, <3>1 DEF Following, Follows, up, SwInv, NbrInv, RouteInv
    <3> QED BY <1>2, <2>1, <3>1, <3>2 DEF Following
  <2> QED BY <1>2, <2>2, <2>3
<1> QED BY <1>1, <1>2

\* Neighbours, routes and interfaces come, change and go, over any number of
\* warm boots: while the agent is up and its state replayed, every route of
\* the switch state has a SAI route object that forwards, traps or drops as its
\* information says, and two next hop sets share a group only when they have the
\* same addresses (SaiRouteManager::addOrUpdateRoute, SaiObject::setAttributes).
THEOREM RoutesFollow == Spec => []RoutesFollowState
<1>1. Following => RoutesFollowState
  BY FollowsRoutes DEF Following
<1> QED BY <1>1, FollowingInvariant, PTL DEF Spec

\* The managers throw, and take the agent down, only in a step that changes the
\* subnet route of a host address, removes an interface with a neighbour on it,
\* programs a neighbour over a port without a handle, or boots from a state that is
\* not complete or in which a host route has become a subnet route
\* (SaiRouteManager, SaiNeighborManager, SaiFdbManager, SaiStore).
THEOREM FailuresKnown == Spec => OnlyKnownFailures
<1> DEFINE A == hw.thrown = NoError /\ hw'.thrown # NoError => Known
<1>1. Following /\ [Next]_vars => [A]_vars
  BY NextStep, Zenon DEF Following, Step
<1>2. [A]_vars => [hw.thrown = NoError /\ hw'.thrown # NoError =>
       \/ \E r \in HostRoutes : sw.route[r].connected /\ sw'.route[r] # sw.route[r]
       \/ \E i \in sw.intfs \ sw'.intfs : \E n \in entriesOn(i) : n \notin LinkLocal
       \/ \E n \in Neighbors \ LinkLocal : overMissingPort(n)
       \/ boots' # boots /\ (~complete \/ \E r \in HostRoutes : leftOver(r))]_vars
  BY Zenon DEF Known
<1> QED BY <1>1, <1>2, FollowingInvariant, PTL DEF Spec, OnlyKnownFailures

-----------------------------------------------------------------------------
(* The replay of a complete state.                                         *)

\* No prefix is the subnet route of a host address at one time and a route
\* over other next hops at another.
SubnetRoutesApart ==
  \A r \in HostRoutes : \A f, g \in Forward[r] : f.connected = g.connected

\* The route's object of the last process is kept, with its group, and points
\* where `f' says.
Stored(h, r, f) ==
  /\ r \in h.held.routes
  /\ ViaGroup(f) =>
       /\ groupKey(f.nexthops) \in h.held.groups
       /\ h.store.routes[r]
            = CreateAttributes("FORWARD", <<"group", h.store.groups[groupKey(f.nexthops)]>>)
  /\ ~ViaGroup(f) => Does(h.store.routes[r], Target(h, f))

\* While a complete state is replayed this holds of all its routes.
ReplayInv ==
  up /\ todo # {} /\ complete =>
    \A r \in Routes : sw.route[r] # Absent /\ validRoute(r, sw.route[r]) =>
                        Stored(hw, r, sw.route[r])

\* Then only routes that are to be programmed have a handle.
LEMMA ValidHandles ==
  ASSUME SubnetRoutesApart, up, Follows
  PROVE  \A r \in DOMAIN hw.routes :
           /\ r \in Routes \ todo /\ sw.route[r] # Absent /\ validRoute(r, sw.route[r])
           /\ Programmed(hw, r, sw.route[r])
<1> SUFFICES ASSUME NEW r \in DOMAIN hw.routes
             PROVE  /\ r \in Routes \ todo /\ sw.route[r] # Absent
                    /\ validRoute(r, sw.route[r]) /\ Programmed(hw, r, sw.route[r])
  OBVIOUS
<1>1. SwInv /\ RouteInv
  BY Zenon DEF Follows
<1>2. r \in Routes \ todo /\ sw.route[r] # Absent
  BY <1>1, Zenon DEF RouteInv
<1>3. sw.route[r] \in Forward[r]
  BY <1>1, <1>2, Zenon DEF SwInv
<1>4. PICK f \in Forward[r] : validRoute(r, f)
  BY <1>1, Zenon DEF RouteInv
<1>5. validRoute(r, sw.route[r])
  BY <1>3, <1>4, Zenon DEF SubnetRoutesApart, validRoute
<1> QED BY <1>1, <1>2, <1>5, Zenon DEF RouteInv

\* Groups that are kept under the keys of their next hops have no members but
\* those that are kept.
LEMMA HeldMembers ==
  ASSUME NEW h, Inv(h), Objects(h),
         \A S \in DOMAIN h.groups :
           groupKey(S) \in h.held.groups /\ \A nh \in S : nh.label = NoLabel
  PROVE  h.store.members = h.held.members
<1>1. h.store.members = joinedMembers(h.groups) \cup h.held.members
  BY Zenon DEF Inv, Counted
<1>2. ASSUME NEW m \in joinedMembers(h.groups) PROVE m \in h.held.members
  <2>1. PICK S \in DOMAIN h.groups : \E nh \in h.groups[S].joined :
          m = <<h.groups[S].id, <<nh.nbr, nh.label>>>>
    BY MemberPair
  <2>2. PICK nh \in h.groups[S].joined : m = <<h.groups[S].id, <<nh.nbr, nh.label>>>>
    BY <2>1, Zenon
  <2> DEFINE k == groupKey(S)
  <2>3. k \in h.held.groups /\ h.groups[S].id = h.store.groups[k]
    BY Zenon DEF Objects, Ids
  <2>4. nh \in S
    BY Zenon DEF Inv, Joined
  <2>5. <<nh.nbr, nh.label>> \in k
    BY <2>4, Zenon DEF groupKey
  <2> HIDE DEF k
  <2>6. {n[2] : n \in {x \in h.held.members : x[1] = h.store.groups[k]}} = k
    BY <2>3, Zenon DEF Objects, HeldObjects
  <2>7. PICK n \in h.held.members : n[1] = h.store.groups[k] /\ n[2] = <<nh.nbr, nh.label>>
    BY <2>5, <2>6
  <2>8. n = <<n[1], n[2]>>
    BY Zenon DEF Inv, Counted, Referred, Held
  <2>9. n = m
    BY <2>2, <2>3, <2>7, <2>8, Zenon
  <2> QED BY <2>9, Zenon
<1> QED BY <1>1, <1>2, Zenon

\* So it is while the routes are replayed.
LEMMA ReplayMembers ==
  ASSUME NEW h, Inv(h), Objects(h), Exact(h), complete, DOMAIN h.routes \subseteq Routes,
         \A r \in DOMAIN h.routes :
           Programmed(h, r, sw.route[r]) /\ Stored(h, r, sw.route[r])
  PROVE  h.store.members = h.held.members
<1>1. ASSUME NEW S \in DOMAIN h.groups
      PROVE  groupKey(S) \in h.held.groups /\ \A nh \in S : nh.label = NoLabel
  <2>1. PICK r \in DOMAIN h.routes : S = h.routes[r] /\ S # NoGroup
    BY Zenon DEF Exact, liveSets
  <2>2. r \in Routes /\ ViaGroup(sw.route[r]) /\ S = sw.route[r].nexthops
    BY <2>1, Zenon DEF Programmed
  <2>3. ~sw.route[r].connected
    BY <2>2, Zenon DEF ViaGroup
  <2>4. \A nh \in S : nh.label = NoLabel
    BY <2>2, <2>3, Zenon DEF complete
  <2> QED BY <2>2, <2>4, Zenon DEF Stored
<1> QED BY <1>1, HeldMembers, Zenon

\* What the adapter forwards with.
Untouched(h, g) ==
  /\ groupIds(g.store) = groupIds(h.store)
  /\ g.store.members = h.store.members
  /\ g.store.routes = h.store.routes

Replayed == ReplayInv' /\ (todo' # todo /\ complete => Untouched(hw, hw'))

LEMMA StoredStays ==
  ASSUME NEW h, NEW g, g.held = h.held, g.store.routes = h.store.routes,
         \A k \in h.held.groups : g.store.groups[k] = h.store.groups[k],
         NEW r, NEW f, Stored(h, r, f)
  PROVE  Stored(g, r, f)
<1> DEFINE t == IF f.action = "NEXTHOPS"
                THEN CreateAttributes("FORWARD",
                                      <<"interface", intf(CHOOSE nh \in f.nexthops : TRUE)>>)
                ELSE IF f.action = "TO_CPU" THEN CreateAttributes("FORWARD", <<"cpu">>)
                ELSE CreateAttributes("DROP", NoNextHop)
<1>0. ASSUME NEW k, ~ViaGroup(f) PROVE Target(k, f) = t
  <2>1. CASE f.action = "NEXTHOPS"
    BY <1>0, <2>1 DEF Target
  <2>2. CASE f.action # "NEXTHOPS" /\ f.action = "TO_CPU"
    BY <1>0, <2>2 DEF Target
  <2>3. CASE f.action # "NEXTHOPS" /\ f.action # "TO_CPU"
    BY <1>0, <2>3 DEF Target
  <2> QED BY <2>1, <2>2, <2>3
<1>1. ~ViaGroup(f) => Target(g, f) = Target(h, f)
  BY <1>0, Zenon
<1> QED BY <1>1, Zenon DEF Stored

LEMMA WarmBootReplay ==
  ASSUME SubnetRoutesApart, Inv(hw), Follows, Started, WarmBoot
  PROVE  Replayed
<1>1. up /\ todo = {} /\ sw' = sw
  BY DEF WarmBoot, running
<1>2. Objects(hw) /\ RouteInv /\ SwInv
  BY <1>1, Zenon DEF Follows
<1>3. \A r \in DOMAIN hw.routes : validRoute(r, sw.route[r])
  BY <1>1, ValidHandles, Zenon
<1>4. complete' <=> complete
  BY <1>1, Zenon, SMT DEF complete
<1>5. ASSUME complete, NEW r \in Routes, sw.route[r] # Absent, validRoute(r, sw.route[r])
      PROVE  Stored(hw', r, sw.route[r])
  <2> DEFINE f == sw.route[r]
  <2>1. ~Duplicates(hw.store)
    BY <1>1, <1>3, <1>5, CompleteReload, Zenon
  <2>2. Programmed(hw, r, f)
    BY <1>1, <1>2, <1>5, Zenon DEF RouteInv
  <2>3. r \in hw'.held.routes
    BY <1>2, <2>1, <2>2, Zenon DEF Started, Programmed, Objects, Ids
  <2>4. Does(hw'.store.routes[r], Target(hw, f))
    BY <2>2, Zenon DEF Started, Programmed
  <2>5. CASE ViaGroup(f)
    <3> DEFINE S == f.nexthops
               k == groupKey(S)
               i == hw.groups[S].id
    <3>1. S # NoGroup
      BY <1>2, <2>5, Forwarding, Zenon DEF SwInv
    <3>2. S \in DOMAIN hw.groups
      BY <2>2, <2>5, <3>1, Zenon DEF Programmed, Inv, Counted, Referred, liveSets
    <3>3. k \in DOMAIN hw.store.groups /\ i = hw.store.groups[k]
      BY <1>2, <3>2 DEF Objects, Ids
    <3>4. adapterHostKey(hw.store, i) = k
      BY <1>1, <1>3, <1>5, <3>3, CompleteKeys, Zenon
    <3>5. k \in hw'.held.groups /\ hw'.store.groups[k] = i
      BY <2>1, <3>3, <3>4, Zenon DEF Started, groupIds
    <3>6. Target(hw, f) = CreateAttributes("FORWARD", <<"group", i>>)
      BY <2>5, Zenon DEF Target
    <3>7. hw'.store.routes[r] = CreateAttributes("FORWARD", <<"group", i>>)
      BY <2>4, <3>6, GroupDoes, Zenon
    <3> QED BY <2>3, <2>5, <3>5, <3>7, Zenon DEF Stored
  <2>6. CASE ~ViaGroup(f)
    BY <2>3, <2>4, <2>6, Zenon DEF Stored, Target
  <2> QED BY <2>5, <2>6, Zenon
<1>6. ReplayInv'
  BY <1>1, <1>4, <1>5, Zenon DEF ReplayInv
<1>7. Untouched(hw, hw')
  BY DEF Started, Untouched
<1> QED BY <1>6, <1>7 DEF Replayed

LEMMA NeighborReplay ==
  ASSUME Inv(hw), Inv(hw'), Follows, ReplayInv, SameObjects(hw, hw'),
         NEW n \in Neighbors, ReplayNeighbor(n)
  PROVE  Replayed
<1>1. up /\ n \in todo /\ sw' = sw
  BY Zenon DEF ReplayNeighbor
<1>2. complete' <=> complete
  BY <1>1 DEF complete
<1>3. DOMAIN hw.groups = {}
  BY <1>1, Zenon DEF Follows, RouteInv, Exact, liveSets
<1>4. DOMAIN hw'.groups = {} /\ hw'.held = hw.held
  BY <1>3, Zenon DEF SameObjects
<1>5. joinedMembers(hw.groups) = {} /\ joinedMembers(hw'.groups) = {}
  BY <1>3, <1>4, Zenon DEF joinedMembers
<1>6. hw'.store.members = hw.store.members
  BY <1>4, <1>5, Zenon DEF Inv, Counted
<1>7. Untouched(hw, hw')
  BY <1>6, Zenon DEF Untouched, SameObjects, groupIds
<1>8. \A r, f : Stored(hw, r, f) => Stored(hw', r, f)
  BY StoredStays, Zenon DEF SameObjects
<1>9. ReplayInv'
  BY <1>1, <1>2, <1>8, Zenon DEF ReplayInv
<1> QED BY <1>7, <1>9 DEF Replayed

LEMMA RouteReplay ==
  ASSUME SubnetRoutesApart, Inv(hw), Follows, ReplayInv, NEW r \in Routes, ReplayRoute(r),
         IF validRoute(r, sw.route[r]) THEN RouteSet(hw, hw', r, sw.route[r])
         ELSE hw' = hw
  PROVE  Replayed
<1> DEFINE f == sw.route[r]
<1>1. up /\ r \in todo /\ sw' = sw
  BY DEF ReplayRoute
<1>2. complete' <=> complete
  BY <1>1 DEF complete
<1>3. Objects(hw) /\ Exact(hw) /\ SwInv /\ RouteInv
  BY <1>1, Zenon DEF Follows
<1>4. CASE ~validRoute(r, f)
  BY <1>1, <1>2, <1>4, Zenon DEF Replayed, ReplayInv, Untouched, up
<1>5. CASE ~complete
  BY <1>2, <1>5, Zenon DEF Replayed, ReplayInv
<1>6. CASE validRoute(r, f) /\ complete
  <2>1. /\ f # Absent /\ r \notin DOMAIN hw.routes
        /\ ViaGroup(f) => f.nexthops # NoGroup
    BY <1>1, <1>3, Forwarding, Zenon DEF RouteInv, SwInv
  <2>2. \A x \in Routes : sw.route[x] # Absent /\ validRoute(x, sw.route[x]) =>
                            Stored(hw, x, sw.route[x])
    BY <1>1, <1>6, Zenon DEF ReplayInv
  <2>3. Stored(hw, r, f)
    BY <1>6, <2>1, <2>2, Zenon
  <2>4. RouteSet(hw, hw', r, f)
    BY <1>6
  <2>5. /\ Inv(hw') /\ Objects(hw') /\ Exact(hw') /\ hw'.held = hw.held
        /\ Programmed(hw', r, f) /\ KeepsBut(hw, hw', {r})
        /\ DOMAIN hw'.routes = DOMAIN hw.routes \cup {r}
    BY <1>3, <2>1, <2>4, Zenon DEF RouteSet
  <2>6. \A k \in hw.held.groups :
          /\ k \in DOMAIN hw.store.groups /\ k \in DOMAIN hw'.store.groups
          /\ hw'.store.groups[k] = hw.store.groups[k]
    BY <1>3, <2>4, <2>5, Zenon DEF RouteSet, Objects, HeldObjects
  <2>7. DOMAIN hw'.store.routes = DOMAIN hw.store.routes
    <3>1. r \in hw.held.routes /\ hw.held.routes \subseteq DOMAIN hw.store.routes
      BY <1>3, <2>3, Zenon DEF Stored, Objects, HeldObjects
    <3>2. DOMAIN hw.store.routes \subseteq DOMAIN hw.routes \cup hw.held.routes
      BY <1>3 DEF Exact
    <3>3. DOMAIN hw'.store.routes
            = (DOMAIN hw.store.routes \cup {r}) \cap (DOMAIN hw'.routes \cup hw.held.routes)
      BY <2>4, Zenon DEF RouteSet
    <3> QED BY <2>5, <3>1, <3>2, <3>3, Zenon
  <2>8. hw'.store.routes[r] = hw.store.routes[r]
    <3>1. CASE ViaGroup(f)
      <4> DEFINE S == f.nexthops
                 k == groupKey(S)
      <4>1. S \in DOMAIN hw'.groups
        BY <2>1, <2>5, <3>1, Zenon DEF Programmed, Inv, Counted, Referred, liveSets
      <4>2. hw'.groups[S].id = hw'.store.groups[k]
        BY <2>5, <4>1, Zenon DEF Objects, Ids
      <4>3. /\ k \in hw.held.groups
            /\ hw.store.routes[r] = CreateAttributes("FORWARD", <<"group", hw.store.groups[k]>>)
        BY <2>3, <3>1, Zenon DEF Stored
      <4>4. hw'.store.routes[r] = CreateAttributes("FORWARD", <<"group", hw'.groups[S].id>>)
        BY <2>5, <3>1, GroupDoes, Zenon DEF Programmed, Target
      <4> QED BY <2>6, <4>2, <4>3, <4>4, Zenon
    <3>2. CASE ~ViaGroup(f)
      <4>1. r \in DOMAIN hw.store.routes
        BY <1>3, <2>3, Zenon DEF Stored, Objects, HeldObjects
      <4>2. hw'.store.routes[r] = setAttributes(hw.store.routes[r], Target(hw, f))
        BY <2>4, <3>2, <4>1, Zenon DEF RouteSet
      <4>3. Does(hw.store.routes[r], Target(hw, f))
        BY <2>3, <3>2, Zenon DEF Stored
      <4> QED BY <4>2, <4>3, TargetDoes, Zenon
    <3> QED BY <3>1, <3>2
  <2>9. hw'.store.routes = hw.store.routes
    <3>1. \A x \in DOMAIN hw.store.routes : hw'.store.routes[x] = hw.store.routes[x]
      BY <2>4, <2>7, <2>8, Zenon DEF RouteSet
    <3>2. /\ hw.store.routes = [x \in DOMAIN hw.store.routes |-> hw.store.routes[x]]
          /\ hw'.store.routes = [x \in DOMAIN hw'.store.routes |-> hw'.store.routes[x]]
      BY <1>3, <2>5, Zenon DEF Exact
    <3> QED BY <2>7, <3>1, <3>2
  <2>10. \A x \in Routes : sw.route[x] # Absent /\ validRoute(x, sw.route[x]) =>
                             Stored(hw', x, sw.route[x])
    BY <2>2, <2>5, <2>6, <2>9, StoredStays, Zenon
  <2>11. groupIds(hw'.store) = groupIds(hw.store)
    <3>1. ASSUME NEW k \in DOMAIN hw'.store.groups
          PROVE  k \in DOMAIN hw.store.groups /\ hw'.store.groups[k] = hw.store.groups[k]
      <4>1. CASE k \in DOMAIN hw.store.groups
        BY <2>4, <4>1, Zenon DEF RouteSet
      <4>2. CASE ViaGroup(f) /\ k = groupKey(f.nexthops)
        BY <2>3, <2>6, <4>2, Zenon DEF Stored
      <4> QED BY <2>4, <4>1, <4>2, Zenon DEF RouteSet
    <3>2. ASSUME NEW k \in DOMAIN hw.store.groups, k \notin hw.held.groups
          PROVE  k \in DOMAIN hw'.store.groups
      <4>1. PICK S \in DOMAIN hw.groups : k = groupKey(S)
        BY <1>3, <3>2, Zenon DEF Exact
      <4>2. PICK x \in DOMAIN hw.routes : S = hw.routes[x] /\ S # NoGroup
        BY <1>3 DEF Exact, liveSets
      <4>3. x \in DOMAIN hw'.routes /\ hw'.routes[x] = S
        BY <2>1, <2>5, <4>2, Zenon DEF KeepsBut
      <4>4. S \in DOMAIN hw'.groups
        BY <2>5, <4>2, <4>3, Zenon DEF Inv, Counted, Referred, liveSets
      <4> QED BY <2>5, <4>1, <4>4, Zenon DEF Objects, Ids
    <3>3. DOMAIN hw'.store.groups = DOMAIN hw.store.groups
      BY <2>6, <3>1, <3>2, Zenon
    <3> QED BY <3>1, <3>3, Zenon DEF groupIds
  <2>12. \A x \in DOMAIN hw.routes :
           /\ x \in Routes /\ sw.route[x] # Absent /\ validRoute(x, sw.route[x])
           /\ Programmed(hw, x, sw.route[x])
    BY <1>1, ValidHandles, Zenon
  <2>13. hw.store.members = hw.held.members
    BY <1>3, <1>6, <2>2, <2>12, ReplayMembers, Zenon
  <2>14. ASSUME NEW x \in DOMAIN hw'.routes
         PROVE  /\ x \in Routes /\ Programmed(hw', x, sw.route[x])
                /\ Stored(hw', x, sw.route[x])
    <3>1. CASE x = r
      BY <1>6, <2>1, <2>5, <2>10, <3>1, Zenon
    <3>2. CASE x # r
      <4>1. x \in DOMAIN hw.routes
        BY <2>5, <3>2, Zenon
      <4>2. ViaGroup(sw.route[x]) => sw.route[x].nexthops # NoGroup
        BY <1>3, <2>12, <4>1, Forwarding, Zenon, SMT DEF SwInv
      <4>3. Programmed(hw', x, sw.route[x])
        <5>1. KeepsBut(hw, hw', {r}) /\ x \notin {r} /\ Programmed(hw, x, sw.route[x])
          BY <2>5, <2>12, <3>2, <4>1, Zenon
        <5> QED BY <4>2, <5>1, ProgrammedStays
      <4> QED BY <2>10, <2>12, <4>1, <4>3, Zenon
    <3> QED BY <3>1, <3>2, Zenon
  <2>15. hw'.store.members = hw'.held.members
    BY <1>6, <2>5, <2>14, ReplayMembers, Zenon
  <2>16. Untouched(hw, hw')
    BY <2>5, <2>9, <2>11, <2>13, <2>15, Zenon DEF Untouched
  <2>17. ReplayInv'
    BY <1>1, <2>10 DEF ReplayInv
  <2> QED BY <2>16, <2>17, Zenon DEF Replayed
<1> QED BY <1>4, <1>5, <1>6, Zenon

LEMMA NextReplay ==
  ASSUME SubnetRoutesApart, Following, Following', ReplayInv, Next
  PROVE  Replayed
<1>1. CASE todo = {} /\ todo' = todo
  BY <1>1 DEF Replayed, ReplayInv
<1>2. CASE WarmBoot
  BY <1>2, WarmBootStep, WarmBootReplay DEF Following
<1>3. ASSUME NEW n \in Neighbors, ReplayNeighbor(n) PROVE Replayed
  BY <1>3, ReplayNeighborStep, NeighborReplay, Zenon DEF Following
<1>4. ASSUME NEW r \in Routes, ReplayRoute(r) PROVE Replayed
  BY <1>4, ReplayRouteStep, RouteReplay DEF Following
<1> QED
  BY <1>1, <1>2, <1>3, <1>4, Zenon
     DEF Next, NeighborDelta, RouteDelta, addRouterInterface, InterfaceDelta, running

\* The agent is warm booted while the next hops of all routes are resolved and
\* unlabelled and no two sets have the same addresses: no step of the boot and
\* the replay changes a route object, a group or a member of the adapter
\* (SaiStore::reload, the managers' addRoute and addNeighbor).
THEOREM ReplayHitless ==
  ASSUME SubnetRoutesApart
  PROVE  Spec => CompleteReplayIsHitless
<1> DEFINE I == Following /\ ReplayInv
           A == todo' # todo /\ complete => Untouched(hw, hw')
<1>1. Init => I
  BY FollowingInvariant, Zenon DEF ReplayInv, Init
<1>2. ASSUME I, [Next]_vars PROVE I' /\ [A]_vars
  <2>1. Following'
    BY <1>2, FollowingInvariant
  <2>2. CASE Next
    BY <1>2, <2>1, <2>2, NextReplay DEF Replayed
  <2>3. CASE UNCHANGED vars
    <3>1. sw' = sw /\ hw' = hw /\ todo' = todo
      BY <2>3 DEF vars
    <3>2. ReplayInv'
      BY <1>2, <3>1, Zenon DEF ReplayInv, up, complete
    <3> QED BY <2>1, <2>3, <3>2
  <2> QED BY <1>2, <2>2, <2>3
<1>3. [A]_vars => [todo' # todo /\ complete =>
                     /\ groupIds(hw'.store) = groupIds(hw.store)
                     /\ hw'.store.members = hw.store.members
                     /\ hw'.store.routes = hw.store.routes]_vars
  BY DEF Untouched
<1> HIDE DEF I, A
<1> QED BY <1>1, <1>2, <1>3, PTL DEF Spec, CompleteReplayIsHitless

=============================================================================
