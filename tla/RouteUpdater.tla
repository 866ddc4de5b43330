---------------------------- MODULE RouteUpdater ----------------------------
(***************************************************************************)
(* rib/RouteUpdater.cpp: adding and removing routes in the two radix trees *)
(* of a VRF of the standalone RIB, and resolving them all at the end.      *)
(***************************************************************************)
EXTENDS RouteResolution

CONSTANT LinkLocalPrefix   \* kIPv6LinkLocalPrefix, as bits

addRouteImpl(tables, fam, p, client, entry) ==
  LET t == tables[fam]
  IN IF exactMatch(t, p) = nullptr
     THEN [tables EXCEPT ![fam] = insert(t, p, newRoute(client, entry))]
     ELSE IF hasEntry(t.value[p].multi, client, entry) THEN tables
     ELSE setRoute(tables, fam, p, updateRoute(t.value[p], client, entry))

addRoute(tables, fam, p, client, entry) ==
  IF fam = "v6" /\ IsPrefix(LinkLocalPrefix, p) THEN tables
  ELSE addRouteImpl(tables, fam, p, client, entry)

addInterfaceRoute(tables, fam, p, addr, intf) ==
  addRoute(tables, fam, p, INTERFACE_ROUTE,
           Entry("NEXTHOPS", {[fam |-> fam, addr |-> addr, intf |-> intf,
                               weight |-> UCMP_DEFAULT_WEIGHT]}, DIRECTLY_CONNECTED))

addLinkLocalRoutes(tables) ==
  addRouteImpl(tables, "v6", LinkLocalPrefix, LINKLOCAL_ROUTE, ToCpu(DIRECTLY_CONNECTED))

delRoute(tables, fam, p, client) ==
  LET t == tables[fam]
      left == delEntryForClient(t.value[p].multi, client)
      without == [t EXCEPT !.value[p].multi = left]
  IN IF exactMatch(t, p) = nullptr THEN tables
     ELSE [tables EXCEPT ![fam] = IF isEmpty(left) THEN erase(without, p) ELSE without]

(* removeAllRoutesFromClientImpl: first the client's entries, then the     *)
(* routes left without any, in iteration order.                            *)
removeAllRoutesFromClientImpl(t, client) ==
  LET stripped == [t EXCEPT !.value = [p \in DOMAIN @ |->
                     [@[p] EXCEPT !.multi = delEntryForClient(@, client)]]]
      toDelete == SelectSeq(iterate(t), LAMBDA p : isEmpty(stripped.value[p].multi))
  IN FoldLeft(erase, stripped, toDelete)

removeAllRoutesForClient(tables, client) ==
  [fam \in {"v4", "v6"} |-> removeAllRoutesFromClientImpl(tables[fam], client)]

(* A mutant: a route whose flags still say RESOLVED keeps its forward      *)
(* information.                                                            *)
updateDoneIncremental(tables, fam) == resolve(tables, fam)

updateDoneImpl(tables, fam) ==
  resolve([tables EXCEPT ![fam].value = [p \in DOMAIN @ |-> clearForward(@[p])]], fam)

(* The v4 tree first: while it is resolved, the v6 routes still hold the   *)
(* flags and the forward information of the previous update.               *)
updateDone(tables) == updateDoneImpl(updateDoneImpl(tables, "v4"), "v6")
=============================================================================
