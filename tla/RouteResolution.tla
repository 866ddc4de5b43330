-------------------------- MODULE RouteResolution --------------------------
(***************************************************************************)
(* What a route is and how its next hops are resolved: recursively, with   *)
(* weights, marking routes in progress to stop at loops.  The standalone   *)
(* RIB (rib/RouteUpdater.cpp) and the route tables of the SwitchState      *)
(* (state/RouteUpdater.cpp) have the same code for it.                     *)
(* A next hop is [fam, addr, intf, weight], intf = NoIntf when it has no   *)
(* interface (UnresolvedNextHop); label actions are left out.  A route is  *)
(* [multi, fwd, flags].  tables is [v4, v6], a radix tree of routes each.  *)
(***************************************************************************)
EXTENDS RadixTree, RouteNextHopsMulti

NoIntf == 0
ECMP_WEIGHT == 0
UCMP_DEFAULT_WEIGHT == 1
MAX_ADMIN_DISTANCE == 255
STATIC_DISTANCE == 1
DIRECTLY_CONNECTED == 0
STATIC_ROUTE == 1
INTERFACE_ROUTE == 2
LINKLOCAL_ROUTE == 3
STATIC_INTERNAL == 700

Entry(action, nhops, distance) ==
  [action |-> action, nhops |-> nhops, distance |-> distance]
Drop(distance) == Entry("DROP", {}, distance)
ToCpu(distance) == Entry("TO_CPU", {}, distance)

(* RouteNextHopEntry::reset, and the fwd of a new route. *)
NoForward == Drop(MAX_ADMIN_DISTANCE)
EmptyTables == [v4 |-> EmptyTree, v6 |-> EmptyTree]

isResolved(r) == "RESOLVED" \in r.flags
isConnected(r) == "CONNECTED" \in r.flags
needResolve(r) == r.flags \cap {"RESOLVED", "UNRESOLVABLE", "PROCESSING"} = {}
setProcessing(r) ==
  [r EXCEPT !.flags = (@ \ {"RESOLVED", "UNRESOLVABLE", "CONNECTED"}) \cup {"PROCESSING"}]
setResolved(r, fwd) ==
  [r EXCEPT !.fwd = fwd,
            !.flags = (@ \ {"UNRESOLVABLE", "PROCESSING"}) \cup {"RESOLVED"}]
setConnected(r) == [r EXCEPT !.flags = @ \cup {"CONNECTED"}]
setUnresolvable(r) ==
  [r EXCEPT !.fwd = NoForward,
            !.flags = (@ \ {"RESOLVED", "PROCESSING", "CONNECTED"}) \cup {"UNRESOLVABLE"}]
clearForward(r) == [r EXCEPT !.fwd = NoForward, !.flags = {}]

setRoute(tables, fam, p, r) == [tables EXCEPT ![fam].value[p] = r]

newRoute(client, entry) ==
  [multi |-> update(EmptyMulti, client, entry), fwd |-> NoForward, flags |-> {}]

(* Route::update resets the forward information and keeps the flags. *)
updateRoute(r, client, entry) ==
  [r EXCEPT !.fwd = NoForward, !.multi = update(@, client, entry)]

---------------------------------------------------------------------------
(* Merging the forward sets of the next hops of an entry: fwds maps each   *)
(* next hop to the set of resolved next hops it is reached through.        *)

RECURSIVE gcd(_, _)
gcd(a, b) == IF b = 0 THEN a ELSE gcd(b, a % b)
lcm(a, b) == IF a = 0 \/ b = 0 THEN 0 ELSE (a \div gcd(a, b)) * b

totalWeight(nhops) == MapThenSumSet(LAMBDA nh : nh.weight, nhops)

(* The accumulation starts at 1 and covers every next hop, the ones with   *)
(* an empty forward set included: their total weight is 0.                 *)
totalWeightsLcm(fwds) ==
  FoldFunction(LAMBDA fw, l : lcm(l, totalWeight(fw)), 1, fwds)

hasEcmpNextHop(fwds) == \E nh \in DOMAIN fwds : nh.weight = 0

mergeForwardInfosEcmp(fwds) ==
  {[f EXCEPT !.weight = ECMP_WEIGHT] : f \in UNION Range(fwds)}

(* NextHopCombinedWeightsKey: a resolved next hop without its weight. *)
weightless(f) == [f EXCEPT !.weight = ECMP_WEIGHT]

combineWeights(fwds) ==
  LET l == totalWeightsLcm(fwds)
      normalization(fw) == IF totalWeight(fw) = 0 THEN 0 ELSE l \div totalWeight(fw)
      share(nh, key) == nh.weight * normalization(fwds[nh]) *
                        totalWeight({f \in fwds[nh] : weightless(f) = key})
  IN [key \in mergeForwardInfosEcmp(fwds) |->
        MapThenSumSet(LAMBDA nh : share(nh, key), DOMAIN fwds)]

optimizeWeights(cws) ==
  LET g == FoldSet(gcd, 0, Range(cws))
  IN {[key EXCEPT !.weight = IF g = 0 THEN 0 ELSE cws[key] \div g] : key \in DOMAIN cws}

(* A mutant: the weights of the forward sets are added as they are. *)
mergeUnnormalized(fwds) ==
  IF hasEcmpNextHop(fwds) THEN mergeForwardInfosEcmp(fwds)
  ELSE optimizeWeights([key \in mergeForwardInfosEcmp(fwds) |->
         MapThenSumSet(LAMBDA nh : nh.weight * totalWeight(
           {f \in fwds[nh] : weightless(f) = key}), DOMAIN fwds)])

mergeForwardInfos(fwds) ==
  IF hasEcmpNextHop(fwds) THEN mergeForwardInfosEcmp(fwds)
  ELSE optimizeWeights(combineWeights(fwds))

---------------------------------------------------------------------------
(* Recursive resolution.  acc carries what resolveOne has gathered: the    *)
(* tables, the forward set of each next hop done, hasToCpu and hasDrop.    *)

bitsLess(a, b) == \E i \in 1 .. Len(a) : mask(a, i - 1) = mask(b, i - 1) /\ a[i] < b[i]

(* operator< on next hops: the order of the flat_set iterated over. *)
nextHopLess(a, b) ==
  \/ a.intf < b.intf
  \/ a.intf = b.intf /\ a.fam = "v4" /\ b.fam = "v6"
  \/ a.intf = b.intf /\ a.fam = b.fam /\ bitsLess(a.addr, b.addr)
  \/ a.intf = b.intf /\ a.fam = b.fam /\ a.addr = b.addr /\ a.weight < b.weight

RECURSIVE resolveOne(_, _, _)

(* The resolved next hops through which route r forwards to nh. *)
forwardVia(r, nh) ==
  IF isConnected(r)
  THEN {[nh EXCEPT !.intf = (CHOOSE f \in r.fwd.nhops : TRUE).intf,
                   !.weight = UCMP_DEFAULT_WEIGHT]}
  ELSE r.fwd.nhops

(* acc once the route r was found for nh, and resolved if it had to be. *)
addForward(acc, nh, r) ==
  CASE ~isResolved(r) -> [acc EXCEPT !.fwds = (nh :> {}) @@ @]
    [] r.fwd.action = "DROP" -> [acc EXCEPT !.hasDrop = TRUE, !.fwds = (nh :> {}) @@ @]
    [] r.fwd.action = "TO_CPU" -> [acc EXCEPT !.hasToCpu = TRUE, !.fwds = (nh :> {}) @@ @]
    [] OTHER -> [acc EXCEPT !.fwds = (nh :> forwardVia(r, nh)) @@ @]

getFwdInfoFromNhop(acc, nh) ==
  LET p == longestMatch(acc.tables[nh.fam], nh.addr)
      tables == IF needResolve(acc.tables[nh.fam].value[p])
                THEN resolveOne(acc.tables, nh.fam, p) ELSE acc.tables
  IN IF p = nullptr THEN [acc EXCEPT !.fwds = (nh :> {}) @@ @]
     ELSE addForward([acc EXCEPT !.tables = tables], nh, tables[nh.fam].value[p])

resolveNextHop(acc, nh) ==
  IF nh.intf # NoIntf THEN [acc EXCEPT !.fwds = (nh :> {nh}) @@ @]
  ELSE getFwdInfoFromNhop(acc, nh)

resolveOne(tables, fam, p) ==
  LET marked == setProcessing(tables[fam].value[p])
      best == getBestEntry(marked.multi)
      acc == FoldLeft(resolveNextHop,
                      [tables |-> setRoute(tables, fam, p, marked),
                       fwds |-> EmptyFunction,
                       hasToCpu |-> best.action = "TO_CPU",
                       hasDrop |-> best.action = "DROP"],
                      SetToSortSeq(best.nhops, nextHopLess))
      fwd == mergeForwardInfos(acc.fwds)
      connected == IF marked.multi.lowest = INTERFACE_ROUTE THEN setConnected(marked)
                   ELSE marked
  IN setRoute(acc.tables, fam, p,
       CASE fwd # {} -> setResolved(connected, Entry("NEXTHOPS", fwd, MAX_ADMIN_DISTANCE))
         [] acc.hasToCpu -> setResolved(marked, ToCpu(MAX_ADMIN_DISTANCE))
         [] acc.hasDrop -> setResolved(marked, Drop(MAX_ADMIN_DISTANCE))
         [] OTHER -> setUnresolvable(marked))

(* The routes of a family in the order of the tree, from cursor on. *)
RECURSIVE resolveFrom(_, _, _)
resolveFrom(tables, fam, cursor) ==
  IF cursor = nullptr THEN tables
  ELSE resolveFrom(IF isValueNode(tables[fam], cursor)
                        /\ needResolve(tables[fam].value[cursor])
                   THEN resolveOne(tables, fam, cursor) ELSE tables,
                   fam, step(tables[fam], cursor, nullptr))

resolve(tables, fam) == resolveFrom(tables, fam, tables[fam].root)
=============================================================================
