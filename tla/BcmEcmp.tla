-------------------------------- MODULE BcmEcmp --------------------------------
(***************************************************************************)
(* The ECMP groups of a Broadcom chip (fboss/agent/hw/bcm), which two      *)
(* threads change without a common lock:                                   *)
(*                                                                         *)
(*   - the linkscan bottom half removes the egresses that go over a port   *)
(*     from every group as soon as the port goes down, from a copy of the  *)
(*     map from ports to egresses (BcmEgressManager), and only then queues *)
(*     the update of the port's state (`updates', see module SwSwitch);    *)
(*   - the update thread programs neighbours and routes, and adds and      *)
(*     removes members as neighbours are resolved and lost (BcmHost,       *)
(*     BcmMultiPathNextHop, BcmEcmpEgress);                                *)
(*   - the neighbour cache thread makes the entries of a port that went    *)
(*     down pending (see module NeighborCache), so that a later answer     *)
(*     brings the members back.                                            *)
(*                                                                         *)
(* A neighbour stands for its host and for its egress: a host keeps one    *)
(* egress object as long as it lives, and an egress made anew for the same *)
(* neighbour may have any free id, the old one included.  A group stands   *)
(* for its next hops, all of weight 1.                                     *)
(***************************************************************************)
EXTENDS Integers, Sequences, FiniteSets, Functions

CONSTANTS
  Ports,
  Neighbors,
  NeighborPorts,  \* [neighbour -> the ports it may answer from]
  Groups,         \* sets of next hops that routes may have
  MaxFlaps,       \* bound: changes of a link's state
  MaxChanges,     \* bound: late answers, solicitations, flushes and route requests
  MaxUpdates      \* bound: closures are queued while fewer wait

ASSUME EcmpAssumption ==
  /\ IsFiniteSet(Ports) /\ IsFiniteSet(Neighbors)
  /\ {"none", "pending"} \cap Ports = {}
  /\ NeighborPorts \in [Neighbors -> SUBSET Ports]
  /\ \A g \in Groups : g \subseteq Neighbors /\ Cardinality(g) > 1
  /\ {MaxFlaps, MaxChanges, MaxUpdates} \subseteq Nat

VARIABLES
  link,      \* [port -> its link is up]
  scan,      \* link changes handed to the linkscan bottom half
  traverse,  \* the traversal of the groups that the bottom half is in
  cache,     \* [neighbour -> "none", "pending" or its port]: the neighbour cache
  posted,    \* ports whose loss the neighbour cache has yet to handle
  updates,   \* closures queued with updateState()
  state,     \* the SwitchState: [oper, entry, routes]
  work,      \* what the update thread has left to do for its batch
  host,      \* [host -> its egressPort_ or "none"]
  resolved,  \* resolvedEgresses_
  portMap,   \* [port -> egresses]: the published PortAndEgressIdsMap
  ecmp,      \* the chip: [group -> its members]
  flaps, changes

vars == <<link, scan, traverse, cache, posted, updates, state, work, host, resolved,
          portMap, ecmp, flaps, changes>>

linkVars == <<link, scan, flaps>>
neighborVars == <<cache, posted>>
hwVars == <<host, resolved, portMap>>

Idle == [port |-> "none", egressIds |-> {}, todo |-> {}, done |-> {}]

Room == Len(updates) < MaxUpdates

\* The elements of a finite set, in the order that its container has them.
InOrder(S) == CHOOSE q \in Bijection(1 .. Cardinality(S), S) : TRUE

Init ==
  /\ link = [p \in Ports |-> TRUE] /\ scan = <<>> /\ traverse = Idle
  /\ cache = [n \in Neighbors |-> "none"] /\ posted = <<>>
  /\ updates = <<>>
  /\ state = [oper |-> link, entry |-> cache, routes |-> {}]
  /\ work = <<>>
  /\ host = <<>> /\ resolved = {} /\ portMap = [p \in Ports |-> {}]
  /\ ecmp = <<>>
  /\ flaps = 0 /\ changes = 0

-----------------------------------------------------------------------------
(* The linkscan bottom half *)

\* The link changes and the SDK calls linkscanCallback().
linkscanCallback(p) ==
  /\ flaps < MaxFlaps
  /\ link' = [link EXCEPT ![p] = ~@]
  /\ scan' = Append(scan, [port |-> p, up |-> ~link[p]])
  /\ flaps' = flaps + 1
  /\ UNCHANGED <<traverse, neighborVars, updates, state, work, hwVars, ecmp, changes>>

OperUpdate(p, up) == [op |-> "oper", port |-> p, up |-> up]

\* Nothing is expanded when a link comes up.
linkUpHwNotLocked ==
  /\ traverse = Idle /\ scan # <<>> /\ Head(scan).up /\ Room
  /\ updates' = Append(updates, OperUpdate(Head(scan).port, TRUE))
  /\ scan' = Tail(scan)
  /\ UNCHANGED <<link, flaps, traverse, neighborVars, state, work, hwVars, ecmp, changes>>

\* The map is read once, under its spin lock.
linkDownHwNotLocked ==
  /\ traverse = Idle /\ scan # <<>> /\ ~Head(scan).up
  /\ LET p == Head(scan).port
     IN traverse' = [port |-> p, egressIds |-> portMap[p], done |-> {},
                     todo |-> IF portMap[p] = {} THEN {} ELSE DOMAIN ecmp]
  /\ UNCHANGED <<linkVars, neighborVars, updates, state, work, hwVars, ecmp, changes>>

\* A group that is made during the traversal may be visited or not.
removeAllEgressesFromEcmpCallback(g) ==
  /\ traverse.egressIds # {} /\ g \in DOMAIN ecmp \ traverse.done
  /\ ecmp' = [ecmp EXCEPT ![g] = @ \ traverse.egressIds]
  /\ traverse' = [traverse EXCEPT !.done = @ \cup {g}]
  /\ UNCHANGED <<linkVars, neighborVars, updates, state, work, hwVars, changes>>

\* The traversal ends; SwSwitch::linkStateChanged() queues the update.
linkStateChanged ==
  /\ traverse # Idle /\ traverse.todo \cap DOMAIN ecmp \subseteq traverse.done /\ Room
  /\ updates' = Append(updates, OperUpdate(traverse.port, FALSE))
  /\ scan' = Tail(scan) /\ traverse' = Idle
  /\ UNCHANGED <<link, flaps, neighborVars, state, work, hwVars, ecmp, changes>>

LinkScan ==
  \/ linkUpHwNotLocked
  \/ linkDownHwNotLocked
  \/ \E g \in Groups : removeAllEgressesFromEcmpCallback(g)
  \/ linkStateChanged

-----------------------------------------------------------------------------
(* The neighbour cache thread *)

Change == changes < MaxChanges /\ changes' = changes + 1

\* The neighbour answers over port p; the answer may be handled after the link
\* went down.  setEntry() programs only what changed.
Answer(n, p) ==
  /\ p \in NeighborPorts[n] /\ cache[n] # p /\ Room
  /\ IF link[p] THEN UNCHANGED changes ELSE Change
  /\ cache' = [cache EXCEPT ![n] = p]
  /\ updates' = Append(updates, [op |-> "program", n |-> n, port |-> p])
  /\ UNCHANGED <<linkVars, traverse, posted, state, work, hwVars, ecmp>>

\* A packet for an unknown neighbour makes it pending.
Solicit(n) ==
  /\ cache[n] = "none" /\ Room /\ Change
  /\ cache' = [cache EXCEPT ![n] = "pending"]
  /\ updates' = Append(updates, [op |-> "programPending", n |-> n, force |-> FALSE])
  /\ UNCHANGED <<linkVars, traverse, posted, state, work, hwVars, ecmp>>

\* A neighbour behind a link that is down does not answer the probes.
Unreachable(n) == cache[n] \in Ports /\ ~link[cache[n]]

\* An entry that did not answer expires if its timer comes to probe it, or is flushed.
flushEntry(n) ==
  /\ cache[n] # "none" /\ Room
  /\ IF Unreachable(n) THEN UNCHANGED changes ELSE Change
  /\ cache' = [cache EXCEPT ![n] = "none"]
  /\ updates' = Append(updates, [op |-> "remove", n |-> n])
  /\ UNCHANGED <<linkVars, traverse, posted, state, work, hwVars, ecmp>>

\* A pending entry is programmed only where the SwitchState has none.
portDownUnforced ==
  /\ posted # <<>> /\ Room
  /\ LET over == {n \in Neighbors : cache[n] = Head(posted)}
     IN /\ cache' = [n \in Neighbors |-> IF n \in over THEN "pending" ELSE cache[n]]
        /\ updates' = updates
             \o [i \in 1 .. Cardinality(over) |->
                   [op |-> "programPending", n |-> InOrder(over)[i], force |-> FALSE]]
  /\ posted' = Tail(posted)
  /\ UNCHANGED <<linkVars, traverse, state, work, hwVars, ecmp, changes>>

\* NeighborCacheImpl::portDown()
portDown ==
  /\ posted # <<>> /\ Room
  /\ LET over == {n \in Neighbors : cache[n] = Head(posted)}
     IN /\ cache' = [n \in Neighbors |-> IF n \in over THEN "pending" ELSE cache[n]]
        /\ updates' = updates
             \o [i \in 1 .. Cardinality(over) |->
                   [op |-> "programPending", n |-> InOrder(over)[i], force |-> TRUE]]
  /\ posted' = Tail(posted)
  /\ UNCHANGED <<linkVars, traverse, state, work, hwVars, ecmp, changes>>

\* A client adds a route over the next hops g, or removes it.
UpdateRoute(g) ==
  /\ Room /\ Change
  /\ \E add \in BOOLEAN : updates' = Append(updates, [op |-> "route", g |-> g, add |-> add])
  /\ UNCHANGED <<linkVars, traverse, neighborVars, state, work, hwVars, ecmp>>

-----------------------------------------------------------------------------
(* The closures, applied to a state with the neighbours whose node they     *)
(* replaced (`touched'): a StateDelta compares nodes, not their contents.   *)

\* An entry that is there already, pending or not, is left alone.
programEntryFirst(s, u) ==
  IF s.entry[u.n] # "none" THEN s
  ELSE [s EXCEPT !.entry[u.n] = u.port, !.touched = @ \cup {u.n}]

programEntry(s, u) ==
  IF s.entry[u.n] = u.port THEN s
  ELSE [s EXCEPT !.entry[u.n] = u.port, !.touched = @ \cup {u.n}]

applyUpdate(s, u) ==
  CASE u.op = "oper" -> [s EXCEPT !.oper[u.port] = u.up]
    [] u.op = "route" -> [s EXCEPT !.routes = IF u.add THEN @ \cup {u.g} ELSE @ \ {u.g}]
    [] u.op = "program" -> programEntry(s, u)
    [] u.op = "programPending" ->
         IF s.entry[u.n] # "none" /\ ~u.force THEN s
         ELSE [s EXCEPT !.entry[u.n] = "pending", !.touched = @ \cup {u.n}]
    [] u.op = "remove" -> [s EXCEPT !.entry[u.n] = "none", !.touched = @ \cup {u.n}]

\* A batch of closures, each on the state that the one before it leaves.
applyUpdates(s, batch) ==
  LET After[i \in 0 .. Len(batch)] ==
        IF i = 0 THEN s ELSE applyUpdate(After[i - 1], batch[i])
  IN After[Len(batch)]

\* Updates of a port's state are coalesced with others.
allowsCoalescingOper(u) == u.op # "programPending"

\* updateStateNoCoalescing(): such an update is the last of its batch.
allowsCoalescing(u) == u.op \notin {"oper", "programPending"}

Task(op, n, g) == [op |-> op, n |-> n, g |-> g]

\* The same task for each of some groups.
PerGroup(op, n, groups) ==
  [i \in 1 .. Cardinality(groups) |-> Task(op, n, InOrder(groups)[i])]

\* NeighborUpdater::portChanged(), for the ports that the batch took down.
portChanged(old, new) == InOrder({p \in Ports : old.oper[p] /\ ~new.oper[p]})

\* BcmSwitch::stateChangedImpl(): removed routes, neighbours, added routes; then
\* the observers are told.
stateChanged(old, new) ==
  LET changed == {n \in new.touched : {old.entry[n], new.entry[n]} # {"none"}}
  IN PerGroup("destroy", "none", old.routes \ new.routes)
       \o [i \in 1 .. Cardinality(changed) |-> Task("neighbor", InOrder(changed)[i], {})]
       \o PerGroup("create", "none", new.routes \ old.routes)
       \o <<[op |-> "observers", down |-> portChanged(old, new)]>>

\* The update thread takes a batch.
handlePendingUpdates ==
  /\ work = <<>>
  /\ \E k \in 1 .. Len(updates) :
       /\ \A i \in 1 .. k - 1 : allowsCoalescing(updates[i])
       /\ k = Len(updates) \/ ~allowsCoalescing(updates[k])
       /\ LET s == [oper |-> state.oper, entry |-> state.entry, routes |-> state.routes,
                    touched |-> {}]
              new == applyUpdates(s, SubSeq(updates, 1, k))
          IN /\ state' = [f \in DOMAIN state |-> new[f]]
             /\ work' = stateChanged(state, new)
       /\ updates' = SubSeq(updates, k + 1, Len(updates))
  /\ UNCHANGED <<linkVars, traverse, neighborVars, hwVars, ecmp, changes>>

-----------------------------------------------------------------------------
(* The update thread in BcmSwitch, one task after the other *)

updatePortToEgressMapping(n, old, new) ==
  [p \in Ports |-> IF p = new THEN portMap[p] \cup {n}
                   ELSE IF p = old THEN portMap[p] \ {n} ELSE portMap[p]]

\* A host that no neighbour entry and no next hop refers to is destroyed.
Referenced(n, groups) == state.entry[n] # "none" \/ \E g \in groups : n \in g

EgressPort(n) == IF n \in DOMAIN host THEN host[n] ELSE "none"

\* BcmHost::program() and ~BcmHost(): what to do to the groups.
programAction(old, new) ==
  CASE old # "none" /\ new = "none" -> "shrink"
    [] new # "none" -> "expand"
    [] OTHER -> "skip"

\* processAddedNeighborEntry() and the like: the egress, the resolved egresses,
\* the map; then the groups one by one (egressResolutionChangedHwLocked()).
programHost ==
  /\ work # <<>> /\ Head(work).op = "neighbor"
  /\ LET n == Head(work).n
         old == EgressPort(n)
         new == IF state.entry[n] \in Ports THEN state.entry[n] ELSE "none"
         action == programAction(old, new)
         kept == IF Referenced(n, DOMAIN ecmp) THEN DOMAIN host \cup {n} ELSE DOMAIN host \ {n}
     IN /\ host' = [h \in kept |-> IF h = n THEN new ELSE host[h]]
        /\ resolved' = CASE old = "none" /\ new # "none" -> resolved \cup {n}
                         [] old # "none" /\ new = "none" -> resolved \ {n}
                         [] OTHER -> resolved
        /\ portMap' = updatePortToEgressMapping(n, old, new)
        /\ work' = (IF action = "skip" THEN <<>>
                    ELSE PerGroup(action, n, DOMAIN ecmp)) \o Tail(work)
  /\ UNCHANGED <<linkVars, traverse, neighborVars, updates, state, ecmp, changes>>

\* addEgressIdHwLocked(): what is looked up and what is then added differ only
\* if the bottom half removes the egress in between, which leaves the group as
\* if it did so after the step.
addEgressIdHwLocked ==
  /\ work # <<>> /\ Head(work).op = "expand"
  /\ LET n == Head(work).n
         g == Head(work).g
     IN ecmp' = IF n \in g THEN [ecmp EXCEPT ![g] = @ \cup {n}] ELSE ecmp
  /\ work' = Tail(work)
  /\ UNCHANGED <<linkVars, traverse, neighborVars, updates, state, hwVars, changes>>

removeEgressIdHwLocked ==
  /\ work # <<>> /\ Head(work).op = "shrink"
  /\ ecmp' = [ecmp EXCEPT ![Head(work).g] = @ \ {Head(work).n}]
  /\ work' = Tail(work)
  /\ UNCHANGED <<linkVars, traverse, neighborVars, updates, state, hwVars, changes>>

\* BcmEcmpEgress::program(): only resolved paths.
program(g) == g \cap resolved

\* BcmMultiPathNextHop: next hops without a host get one that punts to the CPU.
BcmMultiPathNextHop ==
  /\ work # <<>> /\ Head(work).op = "create"
  /\ LET g == Head(work).g
     IN /\ host' = [h \in DOMAIN host \cup g |-> EgressPort(h)]
        /\ ecmp' = [h \in DOMAIN ecmp \cup {g} |-> IF h = g THEN program(g) ELSE ecmp[h]]
  /\ work' = Tail(work)
  /\ UNCHANGED <<linkVars, traverse, neighborVars, updates, state, resolved, portMap, changes>>

\* ~BcmMultiPathNextHop(): the group, then the hosts it alone referred to, none
\* of which has a port.
destroyMultiPathNextHop ==
  /\ work # <<>> /\ Head(work).op = "destroy"
  /\ LET left == DOMAIN ecmp \ {Head(work).g}
     IN /\ ecmp' = [h \in left |-> ecmp[h]]
        /\ host' = [h \in {n \in DOMAIN host : host[n] # "none" \/ Referenced(n, left)} |-> host[h]]
  /\ work' = Tail(work)
  /\ UNCHANGED <<linkVars, traverse, neighborVars, updates, state, resolved, portMap, changes>>

notifyStateObservers ==
  /\ work # <<>> /\ Head(work).op = "observers"
  /\ posted' = posted \o Head(work).down
  /\ work' = Tail(work)
  /\ UNCHANGED <<linkVars, traverse, cache, updates, state, hwVars, ecmp, changes>>

UpdateThread ==
  \/ handlePendingUpdates
  \/ programHost
  \/ addEgressIdHwLocked
  \/ removeEgressIdHwLocked
  \/ BcmMultiPathNextHop
  \/ destroyMultiPathNextHop
  \/ notifyStateObservers

Next ==
  \/ \E p \in Ports : linkscanCallback(p)
  \/ LinkScan
  \/ \E n \in Neighbors : \/ \E p \in Ports : Answer(n, p)
                           \/ Solicit(n)
                           \/ flushEntry(n)
  \/ portDown
  \/ \E g \in Groups : UpdateRoute(g)
  \/ UpdateThread

\* The three threads handle what they are given.  No neighbour has to answer, and
\* no entry has to expire: a STALE one that the chip does not report as hit stays.
Fairness == WF_vars(LinkScan) /\ WF_vars(UpdateThread) /\ WF_vars(portDown)

Spec == Init /\ [][Next]_vars /\ Fairness

-----------------------------------------------------------------------------
(* Properties *)

\* No thread has anything left to do.
Quiet == scan = <<>> /\ updates = <<>> /\ work = <<>> /\ posted = <<>>

Complete(n) == \A g \in DOMAIN ecmp : n \in g /\ n \in resolved => n \in ecmp[g]

\* When the threads are done, a resolved neighbour that is only ever reached
\* over one port is a member of every group that has it as a next hop: whatever
\* the linkscan bottom half removed behind the update thread's back was added
\* again, or its neighbour is no longer resolved.
FixedNeighborsComplete ==
  Quiet => \A n \in Neighbors : Cardinality(NeighborPorts[n]) = 1 => Complete(n)

\* A neighbour with one port that stays resolved in the cache ends up in every
\* group that has it.
ResolvedNeighborReturns ==
  \A n \in Neighbors :
    Cardinality(NeighborPorts[n]) = 1 =>
      (<>[](cache[n] \in Ports)
         => <>[](\A g \in DOMAIN ecmp : n \in g => n \in ecmp[g]))

=============================================================================
