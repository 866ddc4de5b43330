----------------------------- MODULE NexthopProbes -----------------------------
(***************************************************************************)
(* Which next hops are asked for: fboss/agent/ResolvedNexthopMonitor.cpp   *)
(* and ResolvedNexthopProbeScheduler.cpp.  Operators only, on the          *)
(* SwitchState of module MirrorManager: module StateObservers runs them.   *)
(*                                                                         *)
(* The scheduler is a record: `useCount', where 0 is a next hop without an *)
(* entry, `probe', the state of each next hop's ResolvedNextHopProbe, and  *)
(* `fatal', set where a CHECK fails or an exception escapes: SwSwitch ends *)
(* the process when an observer throws.                                    *)
(***************************************************************************)
EXTENDS MirrorManager

CONSTANTS RoutePrefixes, Labels, Monitored

isClientMonitored(client) == client \in Monitored

\* Whether the next hops are resolved is not looked at.
routeHopsUnresolved(st, p) ==
  IF isClientMonitored(st.routes[p].client) THEN st.routes[p].hops ELSE {}

\* The next hops of a route that is not skipped.  One that is unresolved, or
\* drops or traps its packets, has none.
routeHops(st, p) == IF isClientMonitored(st.routes[p].client) THEN forwardInfo(st, p) ELSE {}

\* skipLabelFibEntry() skips the entries of the clients that are monitored.
labelHops(st, l) ==
  IF st.labels[l] = NoRoute \/ isClientMonitored(st.labels[l].client) THEN {} ELSE st.labels[l].hops

changedLabels(old, new) == {l \in Labels : old.labels[l] # new.labels[l]}

\* How often h is among the next hops, in `st', of the entries the delta changes
occurrences(h, st, old, new) ==
  Cardinality({p \in changedRoutes(old, new) : h \in routeHops(st, p)})
    + Cardinality({l \in changedLabels(old, new) : h \in labelHops(st, l)})

added(old, new) == [h \in Hops |-> occurrences(h, new, old, new)]
removed(old, new) == [h \in Hops |-> occurrences(h, old, old, new)]

\* Every next hop added is counted before one is removed: a probe lives on
\* unless the count ends at 0.
processChangedResolvedNexthops(s, add, rem) ==
  LET n == [h \in Hops |-> s.useCount[h] + add[h] - rem[h]]
  IN IF \E h \in Hops : n[h] < 0 THEN [s EXCEPT !.fatal = TRUE]
     ELSE [s EXCEPT !.useCount = n,
                    !.probe = [h \in Hops |-> IF n[h] = 0 THEN "none"
                                              ELSE IF s.useCount[h] = 0 THEN "stopped" ELSE @[h]]]

shouldProbe(st, h) == st.nbrs[h] = NoEntry

\* getInterface() throws.
schedule(s, st) ==
  IF \E h \in Hops : s.useCount[h] > 0 /\ IntfOf[h] \notin st.intfs
  THEN [s EXCEPT !.fatal = TRUE]
  ELSE [s EXCEPT !.probe = [h \in Hops |-> IF s.useCount[h] = 0 THEN @[h]
                                           ELSE IF shouldProbe(st, h) THEN "started" ELSE "stopped"]]

\* A VLAN is in the delta if one of its neighbours is, or if it comes or goes.
scheduleProbes(old, new) ==
  \/ old.nbrs # new.nbrs \/ old.intfs # new.intfs
  \/ \E h \in Hops : added(old, new)[h] > 0 \/ removed(old, new)[h] > 0

\* Neighbours that come or go start no probe.
stateUpdatedRoutes(s, old, new) ==
  LET counted == processChangedResolvedNexthops(s, added(old, new), removed(old, new))
  IN IF \E h \in Hops : added(old, new)[h] > 0 \/ removed(old, new)[h] > 0
     THEN schedule(counted, new) ELSE counted

\* ResolvedNexthopMonitor::stateUpdated()
stateUpdated(s, old, new) ==
  LET counted == processChangedResolvedNexthops(s, added(old, new), removed(old, new))
  IN IF ~counted.fatal /\ scheduleProbes(old, new) THEN schedule(counted, new) ELSE counted

=============================================================================
