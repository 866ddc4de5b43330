----------------------------- MODULE RouteTables -----------------------------
(***************************************************************************)
(* The route tables of the SwitchState (state/RouteUpdater.cpp and the     *)
(* copy-on-write nodes under it), the thrift and config updates that       *)
(* change them, and the Broadcom HwSwitch that programs the difference     *)
(* between two states and takes back what does not fit.                    *)
(* A route carries the number of the update that created its node, born:   *)
(* two routes of one prefix are the same node iff they have the same born, *)
(* and a node is published iff it was not born in the running update, now. *)
(* A rib is [cloned, map, tree]: the NodeMap, the radix tree beside it,    *)
(* and whether the running update has its own copy.  A state is            *)
(* [tables, cfg, since]: the two ribs of each VRF, the configuration its   *)
(* interfaces come from, and the update that applied it.                   *)
(***************************************************************************)
EXTENDS RouteResolution, TLC

CONSTANTS
  Requests,         \* [client, sync, toAdd, toDelete]: the thrift calls
  Configs,          \* [intfs, statics]: the configurations
  BootConfig,       \* the one of the cold boot
  LinkLocalPrefix,  \* kIPv6LinkLocalPrefix, as bits
  EcmpWidth,        \* FLAGS_ecmp_width
  Capacity,         \* routes the LPM table holds
  EcmpCapacity,     \* multipath egress objects the chip holds
  MaxCalls          \* bound on the calls, reloads and boots of a behaviour

VARIABLES
  applied,   \* the state in use
  desired,   \* the state of the updates run so far
  fib,       \* keys of BcmRouteTable::fib_
  lpm,       \* the routes programmed: key -> forward information
  fatal,     \* stateChanged has thrown: the agent is down
  now,       \* number of the last update
  calls      \* calls, reloads and boots so far

vars == <<applied, desired, fib, lpm, fatal, now, calls>>

---------------------------------------------------------------------------
(* RouteUpdater: the changes of one update to its copy u of the tables.    *)

EmptyRib == [cloned |-> FALSE, map |-> EmptyFunction, tree |-> EmptyTree]
createNewRib == [f \in {"v4", "v6"} |-> [EmptyRib EXCEPT !.cloned = TRUE]]
getRib(u, vrf) == IF vrf \in DOMAIN u THEN u ELSE (vrf :> createNewRib) @@ u

(* A mutant: a published node is changed in place. *)
writableInPlace(r, time) == r

(* clone(COPY_PREFIX_AND_NEXTHOPS) of a published node. *)
writable(r, time) ==
  IF r.born = time THEN r ELSE [clearForward(r) EXCEPT !.born = time]

putRoute(rib, p, r) == [rib EXCEPT !.cloned = TRUE, !.map = (p :> r) @@ @]
dropRoute(rib, p) == [rib EXCEPT !.cloned = TRUE, !.map = Restrict(@, DOMAIN @ \ {p})]

addRouteImpl(u, vrf, fam, p, client, entry, time) ==
  LET v == getRib(u, vrf)
      map == v[vrf][fam].map
      fresh == newRoute(client, entry) @@ [born |-> time]
  IN IF p \notin DOMAIN map
     THEN [v EXCEPT ![vrf][fam] = putRoute(@, p, fresh)]
     ELSE IF hasEntry(map[p].multi, client, entry) THEN v
     ELSE [v EXCEPT ![vrf][fam] =
             putRoute(@, p, updateRoute(writable(map[p], time), client, entry))]

addRoute(u, vrf, fam, p, client, entry, time) ==
  IF fam = "v6" /\ IsPrefix(LinkLocalPrefix, p) THEN u
  ELSE addRouteImpl(u, vrf, fam, p, client, entry, time)

addLinkLocalRoutes(u, vrf, time) ==
  addRouteImpl(u, vrf, "v6", LinkLocalPrefix, LINKLOCAL_ROUTE,
               ToCpu(DIRECTLY_CONNECTED), time)

(* A route without the entry of client, in a node of this update. *)
strip(r, client, time) ==
  [r EXCEPT !.born = time, !.multi = delEntryForClient(@, client)]

delRouteImpl(u, vrf, fam, p, client, time) ==
  IF vrf \notin DOMAIN u \/ p \notin DOMAIN u[vrf][fam].map THEN u
  ELSE LET left == strip(u[vrf][fam].map[p], client, time)
       IN [u EXCEPT ![vrf][fam] = IF isEmpty(left.multi) THEN dropRoute(@, p)
                                  ELSE putRoute(@, p, left)]

delLinkLocalRoutes(u, vrf, time) ==
  delRouteImpl(getRib(u, vrf), vrf, "v6", LinkLocalPrefix, LINKLOCAL_ROUTE, time)

removeAllRoutesForClientImpl(rib, client, time) ==
  LET left == [p \in DOMAIN rib.map |-> strip(rib.map[p], client, time)]
  IN [rib EXCEPT !.cloned = TRUE,
        !.map = Restrict(left, {p \in DOMAIN left : ~isEmpty(left[p].multi)})]

removeAllRoutesForClient(u, vrf, client, time) ==
  [getRib(u, vrf) EXCEPT ![vrf] =
     [fam \in {"v4", "v6"} |-> removeAllRoutesForClientImpl(@[fam], client, time)]]

---------------------------------------------------------------------------
(* RouteUpdater::updateDone: every route of a cloned rib is resolved, then *)
(* the nodes that did not change are given back.                           *)

(* A mutant: the published nodes go into the tree with their flags. *)
radixTreeKeepingForward(map, time) ==
  FoldSet(LAMBDA p, t : insert(t, p, [map[p] EXCEPT !.born = time]),
          EmptyTree, DOMAIN map)

cloneToRadixTreeWithForwardClear(map, time) ==
  FoldSet(LAMBDA p, t : insert(t, p, clearForward(writable(map[p], time))),
          EmptyTree, DOMAIN map)

resolveIfCloned(ribs, fam, trees) ==
  IF ribs[fam].cloned THEN resolve(trees, fam) ELSE trees

(* The trees of one VRF after resolve.  A rib that is not cloned keeps its *)
(* published tree, and its routes keep their forward information.          *)
resolvedTrees(ribs, time) ==
  resolveIfCloned(ribs, "v6", resolveIfCloned(ribs, "v4",
    [fam \in {"v4", "v6"} |->
       IF ribs[fam].cloned THEN cloneToRadixTreeWithForwardClear(ribs[fam].map, time)
       ELSE ribs[fam].tree]))

isSame(r, s) == r.flags = s.flags /\ r.fwd = s.fwd /\ r.multi.map = s.multi.map

(* A node of old that is not published is the node of tree. *)
dedupRoutes(old, tree, time) ==
  LET kept(p) == /\ p \in DOMAIN old.map
                 /\ old.map[p].born # time
                 /\ isSame(old.map[p], tree.value[p])
      nodes == [p \in DOMAIN tree.value |->
                  IF kept(p) THEN old.map[p] ELSE tree.value[p]]
  IN [cloned |-> FALSE, map |-> nodes, tree |-> [tree EXCEPT !.value = nodes]]

deduplicate(orig, vrf, fam, tree, time) ==
  dedupRoutes(IF vrf \in DOMAIN orig THEN orig[vrf][fam] ELSE EmptyRib, tree, time)

deduplicated(orig, u, vrf, trees, time) ==
  [fam \in {"v4", "v6"} |->
     IF ~u[vrf][fam].cloned THEN orig[vrf][fam]
     ELSE deduplicate(orig, vrf, fam, trees[fam], time)]

updateDone(orig, u, time) ==
  [vrf \in {v \in DOMAIN u : \E fam \in {"v4", "v6"} : DOMAIN u[v][fam].map # {}} |->
     deduplicated(orig, u, vrf, resolvedTrees(u[vrf], time), time)]

---------------------------------------------------------------------------
(* The state updates                                                       *)

entryFrom(route) ==
  IF route.nhops = {} THEN Drop(route.distance)
  ELSE Entry("NEXTHOPS", route.nhops, route.distance)

(* updateUnicastRoutesImpl and deleteUnicastRoutesInVrf: RouterID(0).  A   *)
(* request adds or deletes.                                                *)
updateUnicastRoutes(st, req, time) ==
  LET kept == IF req.sync THEN removeAllRoutesForClient(st.tables, 0, req.client, time)
              ELSE st.tables
      added == FoldLeft(LAMBDA u, r : addRoute(u, 0, r.fam, r.p, req.client,
                                               entryFrom(r), time),
                        kept, req.toAdd)
      left == FoldLeft(LAMBDA u, r : delRouteImpl(u, 0, r.fam, r.p, req.client, time),
                       added, req.toDelete)
  IN [st EXCEPT !.tables = updateDone(st.tables, left, time)]

elements(seq) == {seq[i] : i \in DOMAIN seq}
vrfsOf(intfs) == {i.vrf : i \in elements(intfs)}

updateInterfaceRoutes(st, cfg, time) ==
  LET gone == SelectSeq(st.cfg.intfs, LAMBDA i : ~\E j \in elements(cfg.intfs) :
                          j.vrf = i.vrf /\ j.fam = i.fam /\ j.p = i.p)
      added == FoldLeft(LAMBDA u, i : addRoute(u, i.vrf, i.fam, i.p, INTERFACE_ROUTE,
                 Entry("NEXTHOPS", {[fam |-> i.fam, addr |-> i.addr, intf |-> i.intf,
                                     weight |-> UCMP_DEFAULT_WEIGHT]},
                       DIRECTLY_CONNECTED), time),
                 st.tables, cfg.intfs)
      deleted == FoldLeft(LAMBDA u, i : delRouteImpl(u, i.vrf, i.fam, i.p,
                                                     INTERFACE_ROUTE, time),
                          added, gone)
      unlinked == FoldSet(LAMBDA v, u : delLinkLocalRoutes(u, v, time),
                          deleted, vrfsOf(st.cfg.intfs) \ vrfsOf(cfg.intfs))
  IN updateDone(st.tables, FoldSet(LAMBDA v, u : addLinkLocalRoutes(u, v, time),
                                   unlinked, vrfsOf(cfg.intfs)), time)

(* cfg.statics lists the routes to null, to the CPU, with next hops. *)
syncStaticRoutes(tables, cfg, time) ==
  updateDone(tables,
    FoldLeft(LAMBDA u, s : addRoute(u, s.vrf, s.fam, s.p, STATIC_ROUTE, s.entry, time),
             removeAllRoutesForClient(tables, 0, STATIC_ROUTE, time), cfg.statics), time)

(* SwSwitch::init gives VRF 0 its default routes, for ALPM. *)
setupAlpmState(st, time) ==
  LET default(u, fam) == addRoute(u, 0, fam, <<>>, STATIC_INTERNAL, NoForward, time)
  IN [st EXCEPT !.tables = updateDone(@, default(default(@, "v4"), "v6"), time)]

(* ThriftConfigApplier::run, without a standalone RIB: the state, as a set *)
(* of one.                                                                 *)
applyConfig(st, cfg, time) ==
  {[tables |-> syncStaticRoutes(tables, cfg, time), cfg |-> cfg, since |-> time] :
     tables \in {updateInterfaceRoutes(st, cfg, time)}}

---------------------------------------------------------------------------
(* RouteNextHopEntry::normalizedNextHops.  The factor by which weights are *)
(* scaled is a double in the code and exact here.                          *)

atLeast1(w) == Max({w, 1})

RECURSIVE decrementMax(_, _)
decrementMax(nhops, times) ==
  LET heaviest == {nh \in nhops : \A o \in nhops : o.weight <= nh.weight}
      first == CHOOSE nh \in heaviest : \A o \in heaviest \ {nh} : nextHopLess(nh, o)
      less == [first EXCEPT !.weight = @ - 1]
  IN IF times = 0 THEN nhops
     ELSE decrementMax((nhops \ {first}) \cup (IF less.weight > 0 THEN {less} ELSE {}),
                       times - 1)

normalizedNextHops(nhops) ==
  LET weighted == {[nh EXCEPT !.weight = atLeast1(@)] : nh \in nhops}
      total == totalWeight(weighted)
      scaled == {[nh EXCEPT !.weight = atLeast1((@ * EcmpWidth) \div total)] : nh \in weighted}
  IN IF total <= EcmpWidth THEN weighted
     ELSE decrementMax(scaled, Max({0, totalWeight(scaled) - EcmpWidth}))

(* What BcmRouteTable::addRoute programs for a resolved route. *)
programmed(r) ==
  IF r.fwd.action = "NEXTHOPS" THEN [r.fwd EXCEPT !.nhops = normalizedNextHops(@)]
  ELSE r.fwd

---------------------------------------------------------------------------
(* BcmSwitch: hw is [fib, lpm, discarded, fatal]; a key is <<vrf, fam, p>>. *)

(* The multipath egress objects the routes of the table refer to. *)
ecmpGroups(table) ==
  {<<k[1], table[k].nhops>> : k \in {j \in DOMAIN table : Cardinality(table[j].nhops) > 1}}

(* BCM_E_FULL: no egress object, or no LPM entry, is left.  The objects of *)
(* the route's old forward information are given back only afterwards.     *)
tableFull(table, key, fwd) ==
  LET groups == ecmpGroups(table)
  IN \/ /\ Cardinality(fwd.nhops) > 1
        /\ <<key[1], fwd.nhops>> \notin groups
        /\ Cardinality(groups) >= EcmpCapacity
     \/ key \notin DOMAIN table /\ Cardinality(DOMAIN table) >= Capacity

program(hw, key, fwd) ==
  CASE key \in DOMAIN hw.lpm /\ hw.lpm[key] = fwd -> hw
    [] tableFull(hw.lpm, key, fwd) -> [hw EXCEPT !.discarded = Append(@, key)]
    [] OTHER -> [hw EXCEPT !.lpm = (key :> fwd) @@ @]

(* BcmRouteTable::addRoute: a new entry of fib_ stays when program throws. *)
bcmAddRoute(hw, key, r) == program([hw EXCEPT !.fib = @ \cup {key}], key, programmed(r))

(* BcmRouteTable::deleteRoute throws for a key it does not have. *)
bcmDeleteRoute(hw, key) ==
  IF key \notin hw.fib THEN [hw EXCEPT !.fatal = TRUE]
  ELSE [hw EXCEPT !.fib = @ \ {key}, !.lpm = Restrict(@, DOMAIN @ \ {key})]

processRemovedRoute(hw, key, r) == IF isResolved(r) THEN bcmDeleteRoute(hw, key) ELSE hw

(* A mutant: a route that is no longer resolved stays programmed. *)
processChangedKeeping(hw, key, old, new) ==
  IF isResolved(new) THEN bcmAddRoute(hw, key, new) ELSE hw

processChangedRoute(hw, key, old, new) ==
  IF isResolved(new) THEN bcmAddRoute(hw, key, new)
  ELSE processRemovedRoute(hw, key, old)

processAddedRoute(hw, key, r) == IF isResolved(r) THEN bcmAddRoute(hw, key, r) ELSE hw

routeKeys(tables, fam) ==
  UNION {{<<vrf, fam, p>> : p \in DOMAIN tables[vrf][fam].map} : vrf \in DOMAIN tables}
routeAt(tables, key) == tables[key[1]][key[2]].map[key[3]]

(* The order of the table map, then of RoutePrefix::operator<. *)
keyLess(a, b) ==
  \/ a[1] < b[1]
  \/ a[1] = b[1] /\ Len(a[3]) < Len(b[3])
  \/ a[1] = b[1] /\ Len(a[3]) = Len(b[3]) /\ bitsLess(a[3], b[3])

lastKey(keys) == CHOOSE k \in keys : \A j \in keys \ {k} : keyLess(j, k)

processRemovedRoutes(hw, old, new) ==
  FoldSet(LAMBDA k, h : processRemovedRoute(h, k, routeAt(old, k)), hw,
          UNION {routeKeys(old, fam) \ routeKeys(new, fam) : fam \in {"v4", "v6"}})

(* NodeMapDelta compares nodes, not their contents. *)
changedKeys(old, new, fam) ==
  {k \in routeKeys(old, fam) \cap routeKeys(new, fam) :
     routeAt(old, k).born # routeAt(new, k).born}

processDelta(hw, old, new, fam) ==
  LET changed == changedKeys(old, new, fam)
      added == routeKeys(new, fam) \ routeKeys(old, fam)
      process(h, k) == IF k \in changed
                       THEN processChangedRoute(h, k, routeAt(old, k), routeAt(new, k))
                       ELSE processAddedRoute(h, k, routeAt(new, k))
  IN MapThenFoldSet(LAMBDA k, h : process(h, k), [hw EXCEPT !.discarded = <<>>],
                    LAMBDA k : k, lastKey, changed \cup added)

revertNewRouteEntry(tables, key, old) ==
  LET rib == tables[key[1]][key[2]]
      p == key[3]
  IN [tables EXCEPT ![key[1]][key[2]] =
        IF key \in routeKeys(old, key[2])
        THEN [rib EXCEPT !.map[p] = routeAt(old, key), !.tree.value[p] = routeAt(old, key)]
        ELSE [rib EXCEPT !.map = Restrict(@, DOMAIN @ \ {p}), !.tree = erase(@, p)]]

(* What was discarded is reverted in the state that will count as applied; *)
(* a VRF the old state does not have throws.                               *)
revertDiscarded(hw, tables, old) ==
  IF \E i \in DOMAIN hw.discarded : hw.discarded[i][1] \notin DOMAIN old
  THEN [hw |-> [hw EXCEPT !.fatal = TRUE], tables |-> tables]
  ELSE [hw |-> hw,
        tables |-> FoldLeft(LAMBDA tb, k : revertNewRouteEntry(tb, k, old),
                            tables, hw.discarded)]

processRouteTableDelta(acc, old, new, fam) ==
  revertDiscarded(processDelta(acc.hw, old, new, fam), acc.tables, old)

stateChanged(hw, old, new) ==
  processRouteTableDelta(
    processRouteTableDelta([hw |-> processRemovedRoutes(hw, old, new), tables |-> new],
                           old, new, "v4"),
    old, new, "v6")

(* SwSwitch::applyUpdate: from sys, [hw, applied, desired], to the state   *)
(* new.  An exception takes the agent down.                                *)
updateApplied(sys, new, done) ==
  [hw |-> done.hw, desired |-> new,
   applied |-> IF done.hw.fatal THEN sys.applied ELSE [new EXCEPT !.tables = done.tables]]

applyUpdate(sys, new) ==
  IF sys.hw.fatal THEN sys
  ELSE updateApplied(sys, new, stateChanged(sys.hw, sys.applied.tables, new.tables))

(* SwSwitch::init from the state st of the HwSwitch, and the configuration *)
(* applied before any other update.                                        *)
applyInitialConfig(sys, cfg, time) ==
  {applyUpdate(sys, new) : new \in applyConfig(sys.desired, cfg, time)}

boot(hw, st, cfg, time) ==
  UNION {applyInitialConfig(applyUpdate([hw |-> hw, applied |-> st, desired |-> st], alpm),
                            cfg, time + 1) : alpm \in {setupAlpmState(st, time)}}

NoState == [tables |-> EmptyFunction, cfg |-> [intfs |-> <<>>, statics |-> <<>>], since |-> 0]
Hardware(keys, table) == [fib |-> keys, lpm |-> table, discarded |-> <<>>, fatal |-> FALSE]

---------------------------------------------------------------------------
(* A cold boot. *)
Init ==
  \E sys \in boot(Hardware({}, EmptyFunction), NoState, BootConfig, 0) :
    /\ applied = sys.applied
    /\ desired = sys.desired
    /\ fib = sys.hw.fib
    /\ lpm = sys.hw.lpm
    /\ fatal = sys.hw.fatal
    /\ now = 1
    /\ calls = 0

Becomes(sys) ==
  /\ applied' = sys.applied
  /\ desired' = sys.desired
  /\ fib' = sys.hw.fib
  /\ lpm' = sys.hw.lpm
  /\ fatal' = sys.hw.fatal

(* The update thread runs the updates of its batch one after the other,    *)
(* each on what the previous one left; after a refusal the batch starts    *)
(* from the desired state (queueStateUpdateForGettingHwInSync).            *)
UpdateUnicastRoutes(req) ==
  /\ ~fatal /\ calls < MaxCalls
  /\ calls' = calls + 1
  /\ now' = now + 1
  /\ desired' = updateUnicastRoutes(desired, req, now + 1)
  /\ UNCHANGED <<applied, fib, lpm, fatal>>

ReloadConfig(cfg) ==
  /\ ~fatal /\ calls < MaxCalls
  /\ calls' = calls + 1
  /\ now' = now + 1
  /\ desired' \in applyConfig(desired, cfg, now + 1)
  /\ UNCHANGED <<applied, fib, lpm, fatal>>

(* The end of a batch. *)
Apply ==
  /\ ~fatal /\ desired # applied
  /\ Becomes(applyUpdate([hw |-> Hardware(fib, lpm), applied |-> applied,
                          desired |-> desired], desired))
  /\ UNCHANGED <<now, calls>>

(* RouteNextHopsMulti::fromFollyDynamic: the entries come back in any      *)
(* order, so that any client of least distance may be the one in use.      *)
fromFollyDynamic(multi) ==
  {c \in DOMAIN multi.map : \A d \in DOMAIN multi.map :
     multi.map[c].distance <= multi.map[d].distance}

(* lowest gives the client in use where there is a choice. *)
ribFromFollyDynamic(rib, lowest, time) ==
  LET client(r) == IF r \in DOMAIN lowest THEN lowest[r]
                   ELSE CHOOSE c \in fromFollyDynamic(r.multi) : TRUE
      nodes == [p \in DOMAIN rib.map |->
                  [rib.map[p] EXCEPT !.born = time, !.multi.lowest = client(rib.map[p])]]
  IN [rib EXCEPT !.map = nodes, !.tree.value = nodes]

(* The tables of the applied state, saved and loaded again. *)
warmBootTables(time) ==
  LET routes == {routeAt(applied.tables, k) :
                   k \in routeKeys(applied.tables, "v4") \cup routeKeys(applied.tables, "v6")}
      tied == {r \in routes : Cardinality(fromFollyDynamic(r.multi)) > 1}
      choices == {f \in [tied -> UNION {fromFollyDynamic(r.multi) : r \in tied}] :
                    \A r \in tied : f[r] \in fromFollyDynamic(r.multi)}
  IN {[vrf \in DOMAIN applied.tables |-> [fam \in {"v4", "v6"} |->
         ribFromFollyDynamic(applied.tables[vrf][fam], lowest, time)]] : lowest \in choices}

resolvedKeys(tables) ==
  {k \in routeKeys(tables, "v4") \cup routeKeys(tables, "v6") : isResolved(routeAt(tables, k))}

(* A warm boot: the saved state is programmed over what the chip holds.    *)
(* The updates the hardware had refused are lost.                          *)
WarmBoot(cfg) ==
  /\ ~fatal /\ calls < MaxCalls
  /\ calls' = calls + 1
  /\ now' = now + 3
  /\ \E tables \in warmBootTables(now + 1) :
       \E sys \in boot(Hardware(resolvedKeys(tables),
                               [k \in resolvedKeys(tables) |-> programmed(routeAt(tables, k))]),
                      [applied EXCEPT !.tables = tables], cfg, now + 2) : Becomes(sys)

Next ==
  \/ \E req \in Requests : UpdateUnicastRoutes(req)
  \/ \E cfg \in Configs : ReloadConfig(cfg) \/ WarmBoot(cfg)
  \/ Apply

Spec == Init /\ [][Next]_vars

---------------------------------------------------------------------------
(* Properties                                                              *)

AllKeys(tables) == routeKeys(tables, "v4") \cup routeKeys(tables, "v6")

(* The delta finds every change: a node that the applied and the desired   *)
(* state share has the same contents in both, although updates write to    *)
(* nodes in place and give unchanged nodes back (dedupRoutes).             *)
SameNodeSameRoute ==
  \A k \in AllKeys(applied.tables) \cap AllKeys(desired.tables) :
    LET old == routeAt(applied.tables, k)
        new == routeAt(desired.tables, k)
    IN old.born = new.born => old = new

(* The chip forwards exactly the resolved routes of the applied state,     *)
(* with their next hops, after refusals, reverts and warm boots.           *)
HardwareIsApplied ==
  ~fatal => /\ DOMAIN lpm = resolvedKeys(applied.tables)
            /\ \A k \in DOMAIN lpm : lpm[k] = programmed(routeAt(applied.tables, k))

(* Whatever sequence of incremental updates led to the desired state,      *)
(* resolving the routes of VRF 0 again from nothing gives the same, for a  *)
(* family whose next hops are all in it.                                   *)
ResolutionIsCurrent ==
  \A fam \in {"v4", "v6"} : 0 \in DOMAIN desired.tables =>
    LET ribs == desired.tables[0]
        own == \A p \in DOMAIN ribs[fam].map : \A c \in DOMAIN ribs[fam].map[p].multi.map :
                 \A nh \in ribs[fam].map[p].multi.map[c].nhops : nh.fam = fam
        trees == [f \in {"v4", "v6"} |-> ribs[f].tree]
        again == resolve([trees EXCEPT ![fam].value =
                            [p \in DOMAIN @ |-> clearForward(@[p])]], fam)
    IN own => \A p \in DOMAIN ribs[fam].map : isSame(ribs[fam].map[p], again[fam].value[p])

=============================================================================
