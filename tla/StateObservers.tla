---------------------------- MODULE StateObservers ----------------------------
(***************************************************************************)
(* Two observers of the SwitchState at work: the ResolvedNexthopMonitor,   *)
(* which starts and stops probes for next hops without a neighbour entry,  *)
(* and the MirrorManager, which queues an update that finds the mirror's   *)
(* way.  Three threads interleave:                                         *)
(*                                                                         *)
(*   - the update thread runs a batch of the closures queued, publishes    *)
(*     the state (module SwSwitch has what happens when the hardware       *)
(*     refuses it), and then tells the observers of the change;            *)
(*   - the background thread runs the timeouts of the probes, also between *)
(*     the publishing of a state and the observers' turn;                  *)
(*   - the neighbour cache thread turns a request sent into a pending      *)
(*     neighbour entry (module NeighborCache has the entry's life).        *)
(*                                                                         *)
(* A configuration that drops an interface drops its VLAN, with the        *)
(* neighbours, and its subnet route too.  The update thread resolves the   *)
(* other routes again in the same closure; label entries and link-local    *)
(* next hops keep the interfaces they were programmed with.                *)
(***************************************************************************)
EXTENDS NexthopProbes

CONSTANTS
  Interfaces,
  SubnetOf,       \* [prefix of a subnet route -> next hop in Own]
  RouteValues,    \* [prefix -> routes clients may program]
  LabelValues,    \* [label -> entries clients may program]
  Locations,      \* [address -> where it may answer from]
  MirrorConfigs,  \* mirrors configurations may have, as Mirror() makes them
  BootMirror,     \* the mirror of the first configuration, or NoMirror
  MaxQueued,      \* bound: changes come in while fewer closures are queued
  MaxChanges      \* bound: changes of routes, labels, neighbours and configuration

\* Subnet routes are not monitored by default (FLAGS_monitor_nexthops_for).
ASSUME ObserversAssumption ==
  /\ IsFiniteSet(RoutePrefixes) /\ IsFiniteSet(Labels) /\ Hops \subseteq Nat
  /\ Covers \in Seq(RoutePrefixes)
  /\ "INTERFACE" \notin Monitored
  /\ DOMAIN SubnetOf \subseteq RoutePrefixes /\ \A p \in DOMAIN SubnetOf : SubnetOf[p] \in Hops
  /\ DOMAIN RouteValues \subseteq RoutePrefixes
  /\ \A p \in DOMAIN RouteValues : \A r \in RouteValues[p] : r.hops \subseteq Hops
  /\ DOMAIN Locations \subseteq Addresses
  /\ \A a \in DOMAIN Locations : Locations[a] \subseteq [mac : Nat, port : Nat \ {0}]
  /\ \A c \in MirrorConfigs \cup ({BootMirror} \ {NoMirror}) :
       c = Mirror(c.kind, c.port) /\ c.kind \in {"span", "gre", "sflow"} /\ c.port \in Nat

VARIABLES
  st,         \* the SwitchState published
  old,        \* the one before, while the observers have not been told
  queue,      \* closures queued with updateState()
  scheduler,  \* ResolvedNexthopProbeScheduler
  asked,      \* next hops whose request the neighbour cache thread will note
  crashed,    \* updateMirror() followed a pointer to no interface
  untold,     \* the mirror was configured and no route or neighbour changed since
  changes

vars == <<st, old, queue, scheduler, asked, crashed, untold, changes>>

Routes == UNION {RouteValues[p] : p \in DOMAIN RouteValues}
LabelRoutes == UNION {LabelValues[l] : l \in Labels}
Entries == {NoEntry, Pending} \cup UNION {Locations[a] : a \in DOMAIN Locations}

subnetRoute(p) == [client |-> "INTERFACE", hops |-> {SubnetOf[p]}]

Quiet == old = st

\* The process has not ended.
Alive == ~scheduler.fatal /\ ~crashed

\* The first configuration has been applied.
Init ==
  /\ st = [intfs |-> Interfaces,
           routes |-> [p \in RoutePrefixes |-> IF p \in DOMAIN SubnetOf THEN subnetRoute(p) ELSE NoRoute],
           labels |-> [l \in Labels |-> NoRoute],
           nbrs |-> [a \in Addresses |-> NoEntry],
           mirror |-> BootMirror]
  /\ old = st /\ queue = <<>> /\ asked = {} /\ crashed = FALSE /\ untold = (BootMirror # NoMirror) /\ changes = 0
  /\ scheduler = [useCount |-> [h \in Hops |-> 0], probe |-> [h \in Hops |-> "none"], fatal |-> FALSE]

-----------------------------------------------------------------------------
(* The closures: what each makes of state `s' while `published' is published. *)

\* No entry is made for a request.
programEntryForced(s, a, entry) ==
  IF IntfOf[a] \notin s.intfs \/ entry = Pending THEN s ELSE [s EXCEPT !.nbrs[a] = entry]

\* programEntry() and programPendingEntry(): the VLAN and the subnet must be
\* there, and a pending entry replaces none.  NoEntry stands for a flush, which
\* module NeighborCache shows to be fatal once the VLAN is gone.
programEntry(s, a, entry) ==
  IF IntfOf[a] \notin s.intfs \/ (entry = Pending /\ s.nbrs[a] # NoEntry) THEN s
  ELSE [s EXCEPT !.nbrs[a] = entry]

applyInterfaces(s, i) ==
  IF i \in s.intfs
  THEN [s EXCEPT !.intfs = @ \ {i},
                 !.routes = [p \in RoutePrefixes |->
                               IF p \in DOMAIN SubnetOf /\ IntfOf[SubnetOf[p]] = i THEN NoRoute ELSE @[p]],
                 !.nbrs = [a \in Addresses |-> IF IntfOf[a] = i THEN NoEntry ELSE @[a]]]
  ELSE [s EXCEPT !.intfs = @ \cup {i},
                 !.routes = [p \in RoutePrefixes |->
                               IF p \in DOMAIN SubnetOf /\ IntfOf[SubnetOf[p]] = i THEN subnetRoute(p) ELSE @[p]]]

applyUpdate(s, u, published) ==
  CASE u.op = "route"     -> [s EXCEPT !.routes[u.key] = u.value]
    [] u.op = "label"     -> [s EXCEPT !.labels[u.key] = u.value]
    [] u.op \in {"neighbor", "pending"} -> programEntry(s, u.key, u.value)
    [] u.op = "interface" -> applyInterfaces(s, u.key)
    [] u.op = "mirror"    -> [s EXCEPT !.mirror = applyMirrorConfig(@, u.value)]
    [] u.op = "resolve"   -> resolveMirrors(s, published)

crashes(s, u, published) ==
  u.op = "resolve" /\ hasDestinationIp(s.mirror) /\ nullInterface(published, s.mirror)

\* The states between the closures of a batch
applied(batch) ==
  LET after[i \in 0 .. Len(batch)] ==
        IF i = 0 THEN st ELSE applyUpdate(after[i - 1], batch[i], st)
  IN after

update(op, key, value) == [op |-> op, key |-> key, value |-> value]

allowsCoalescing(u) == u.op # "pending"

-----------------------------------------------------------------------------
(* What other parts of the agent change *)

\* A closure that would change nothing when its turn comes is left out.
Change(u) ==
  /\ Alive /\ changes < MaxChanges /\ Len(queue) < MaxQueued
  /\ LET s == applied(queue)[Len(queue)] IN applyUpdate(s, u, st) # s
  /\ queue' = Append(queue, u)
  /\ changes' = changes + 1
  /\ UNCHANGED <<st, old, scheduler, asked, crashed, untold>>

RouteChange == \E p \in DOMAIN RouteValues, r \in Routes \cup {NoRoute} :
  r \in RouteValues[p] \cup {NoRoute} /\ Change(update("route", p, r))

LabelChange == \E l \in Labels, r \in LabelRoutes \cup {NoRoute} :
  r \in LabelValues[l] \cup {NoRoute} /\ Change(update("label", l, r))

\* A neighbour answers, or its entry is flushed.
NeighborChange == \E a \in DOMAIN Locations, e \in Entries \ {Pending} :
  e \in Locations[a] \cup {NoEntry} /\ Change(update("neighbor", a, e))

InterfaceChange == \E i \in Interfaces : Change(update("interface", i, "toggled"))

MirrorChange == \E c \in MirrorConfigs \cup {NoMirror} : Change(update("mirror", "mirror", c))

-----------------------------------------------------------------------------
(* The update thread *)

\* As many closures as may run together, with the first that may not share
batchLength ==
  LET alone == {i \in DOMAIN queue : ~allowsCoalescing(queue[i])}
  IN IF alone = {} THEN Len(queue) ELSE Min(alone)

HandlePendingUpdates ==
  /\ Alive /\ Quiet /\ queue # <<>>
  /\ LET batch == SubSeq(queue, 1, batchLength)
         s == applied(batch)
     IN /\ crashed' = \E i \in DOMAIN batch : crashes(s[i - 1], batch[i], st)
        /\ st' = IF crashed' THEN st ELSE s[Len(batch)]
        /\ untold' = (untold \/ \E i \in DOMAIN batch : batch[i].op = "mirror")
  /\ queue' = SubSeq(queue, batchLength + 1, Len(queue))
  /\ UNCHANGED <<old, scheduler, asked, changes>>

NotifyStateObservers ==
  /\ Alive /\ ~Quiet
  /\ scheduler' = stateUpdated(scheduler, old, st)
  /\ queue' = IF hasMirrorChanges(old, st) THEN Append(queue, update("resolve", "mirror", NoMirror))
                                           ELSE queue
  /\ untold' = (untold /\ ~hasMirrorChanges(old, st))
  /\ old' = st
  /\ UNCHANGED <<st, asked, crashed, changes>>

-----------------------------------------------------------------------------
(* The background thread and the neighbour cache thread *)

\* A probe whose interface has just gone stops by itself; any other asks again
\* and again.
TimeoutExpired(h) ==
  /\ Alive /\ scheduler.probe[h] = "started"
  /\ IF IntfOf[h] \notin st.intfs
     THEN scheduler' = [scheduler EXCEPT !.probe[h] = "stopped"] /\ UNCHANGED asked
     ELSE asked' = asked \cup {h} /\ UNCHANGED scheduler
  /\ UNCHANGED <<st, old, queue, crashed, untold, changes>>

\* The cache has an entry while its closure is queued.
SentRequest(h) ==
  /\ Alive /\ h \in asked
  /\ asked' = asked \ {h}
  /\ LET u == update("pending", h, Pending)
     IN queue' = IF u \in Range(queue) THEN queue ELSE Append(queue, u)
  /\ UNCHANGED <<st, old, scheduler, crashed, untold, changes>>

Next ==
  \/ RouteChange \/ LabelChange \/ NeighborChange \/ InterfaceChange \/ MirrorChange
  \/ HandlePendingUpdates \/ NotifyStateObservers
  \/ \E h \in Hops : TimeoutExpired(h) \/ SentRequest(h)

Spec == Init /\ [][Next]_vars

\* Weak fairness, with the enabling conditions written out: the threads run what
\* is queued for them, and a timeout that was set expires.
FairSpec ==
  /\ Spec
  /\ []<>(~Alive \/ ~Quiet \/ queue = <<>>) \/ []<><<HandlePendingUpdates>>_vars
  /\ []<>(~Alive \/ Quiet) \/ []<><<NotifyStateObservers>>_vars
  /\ \A h \in Hops : []<>(~Alive \/ h \notin asked) \/ []<><<SentRequest(h)>>_vars
  /\ \A h \in Hops : \/ []<>(~Alive \/ scheduler.probe[h] # "started" \/ h \in asked)
                     \/ []<><<TimeoutExpired(h)>>_vars

-----------------------------------------------------------------------------

\* The entries of a state that the monitor counts for a next hop
uses(s, h) ==
  Cardinality({p \in RoutePrefixes : h \in routeHops(s, p)})
    + Cardinality({l \in Labels : h \in labelHops(s, l)})

\* The use counts, kept up delta by delta (processChangedResolvedNexthops()),
\* are at rest what a count over the whole state would give. A probe runs exactly
\* for the next hops in use that have no neighbour entry, whatever the background
\* thread did before the observers' turn ("a probe gets scheduled when neighbor
\* entry does not exist", ResolvedNexthopMonitor.h).
ProbesMatch ==
  Quiet /\ Alive =>
    \A h \in Hops :
      /\ scheduler.useCount[h] = uses(st, h)
      /\ (scheduler.probe[h] = "none") <=> (uses(st, h) = 0)
      /\ (scheduler.probe[h] = "started") <=> (uses(st, h) > 0 /\ shouldProbe(st, h))

\* The observers end the process only over a next hop that was programmed with
\* its interface, by a label entry or as a link-local address, while the
\* interface is not there: other routes lose their next hops in the very update
\* that removes it, and the CHECK that a next hop removed is known never fails.
DiesOnlyOverNamedInterface ==
  ~Alive =>
    \/ \E l \in Labels : \E h \in st.labels[l].hops : IntfOf[h] \notin st.intfs
    \/ \E p \in RoutePrefixes : \E h \in st.routes[p].hops \cap LinkLocal : IntfOf[h] \notin st.intfs

\* The mirror's update has been made and seen.
MirrorSettled ==
  Quiet /\ Alive /\ ~untold /\ \A i \in DOMAIN queue : queue[i].op # "resolve"

\* What a mirror at rest is to be: with a tunnel, the interface, MAC address and
\* port of a next hop of the destination's route that answers; without one, no
\* next hop answers on a port the mirror may use (any if it has none yet, else the
\* one it has). So it is although Mirror::operator== overlooks a port and
\* updateMirror() works on a state other than the one it changes.
MirrorIsCurrent ==
  MirrorSettled =>
    IF st.mirror.tunnel # NoTunnel
    THEN \E h \in resolveMirrorNextHops(st) :
           /\ st.mirror.tunnel.intf = IntfOf[h]
           /\ neighborOf(st, h) = [mac |-> st.mirror.tunnel.mac, port |-> st.mirror.port]
    ELSE hasDestinationIp(st.mirror) => \A h \in resolveMirrorNextHops(st) :
           \/ neighborOf(st, h) \in {NoEntry, Pending}
           \/ neighborOf(st, h).port \in Trunks
           \/ st.mirror.port # 0 /\ neighborOf(st, h).port # st.mirror.port

Missing(h) == Alive /\ uses(st, h) > 0 /\ shouldProbe(st, h)

\* A next hop in use without a neighbour entry gets one, at least a pending one,
\* or goes out of use: the probe asks until then (ResolvedNexthopMonitor.h).
MissingIsAskedFor == \A h \in Hops : Missing(h) ~> ~Missing(h)

=============================================================================
