# A TLA+ verification of the FBOSS agent

This directory holds TLA+ modules that model the parts of the FBOSS agent
(`fboss/agent`) whose correctness depends on order: who queues what when, what
the hardware accepts, which state an observer was told of, what a restart finds.
Each module is translated from the C++ source; `PROJECT.json` names, for every
definition, the lines it stands for. TLC checks the modules on small instances
(`*.cfg`), and TLAPS proves some of the properties for every value of the
constants (`*Proofs.tla`).

## 1. The system

The agent (`SwSwitch`) owns an immutable, versioned tree, the `SwitchState`.
Every change is a `StateUpdate` queued by some thread (Thrift, packet, link,
neighbour, LACP threads). One thread, the *update thread*, takes updates off
the queue, computes a new state, hands the difference to the hardware
abstraction (`HwSwitch::stateChanged`), publishes the result and calls the
observers. The hardware may reject a part (full tables): the agent then keeps
two states, *applied* and *desired*, and retries.

Above the pipeline are those who make updates: configuration, the Thrift calls
of routing daemons (through the route tables of the `SwitchState`, or through
the standalone RIB that is to replace them), the neighbour caches, LACP. Below
it are two implementations of `HwSwitch`, over the Broadcom SDK and over SAI.
Beside it are the observers, which turn deltas into protocol state: the neighbour
updater, the link aggregation manager, the probes of unresolved next hops, the
lookup class updater, the mirror manager, the tunnel interfaces. They run
functions on event bases of their own and feed updates back.

The models follow these seams. `SwSwitch` has the pipeline with updates of any
content; each other module has one neighbour of it in detail and the pipeline as
far as its threads and batches matter there.

## 2. Modules

| module | models |
|---|---|
| `SwSwitch` | the state-update pipeline of `SwSwitch.cpp` |
| `SwitchStateRegister`, `SwSwitchRefinement` | what the pipeline promises, an atomic register with a FIFO queue in which the last write of an entry wins; that `SwSwitch` implements it |
| `LacpMachines`, `Lacp` | the four machines of one port; all controllers, the selection table they share, and the links between them |
| `LinkAggregationManager` | the threads that share the controllers, and their lock |
| `NeighborCache` | one neighbour: cache entry, timeouts, table node, lookup class |
| `RadixTree` | `lib/RadixTree`: insert, erase, exact and longest match, iteration |
| `RouteNextHopsMulti`, `RouteResolution` | the entries of a route's clients; weighted recursive resolution, shared by the next two |
| `RouteUpdater`, `Rib` | the standalone RIB, its lock, the FIB it gives to the pipeline |
| `RouteTables` | the route tables of the `SwitchState`, and their programming by `BcmSwitch` |
| `BcmEcmp`, `BcmEcmpLate` | ECMP groups of a Broadcom chip under link and neighbour changes; the same with a history variable |
| `SaiForwarding` | SAI managers and store for routes, groups, next hops, neighbours, interfaces |
| `NexthopProbes`, `MirrorManager`, `StateObservers` | two observers, and the threads around them |
| `TunManager` | tun interfaces of the host kernel |
| `SwSwitchProofs`, `LinkAggregationManagerProofs`, `LacpProofs`, `NeighborCacheProofs`, `NeighborTableProofs`, `SaiForwardingProofs`, `BcmEcmpProofs`, `StateObserversProofs` | theorems |
| `MC...` | the instances TLC checks |

### SwSwitch

A `SwitchState` object is a record `[tree, gen]`: `tree` maps every entry to a
value, `gen` is the generation of the root node. The code compares pointers;
two pointers are equal exactly when the records are, because every clone has a
new generation. The update thread is a program counter (`pc`) that stops at
each point where other threads may see a difference: after the splice, after
each update function, before and after `stateChanged()`, before the callbacks.
The event base is a FIFO: the callbacks `init()` left (`boot`), then one
`handlePendingUpdates()` per signal (`handles`), then `terminateLoopSoon()`
(`loop`). Callers push and signal in two steps.

The hardware may revert any additions and changes of rejectable entries
(`HwResults`), never a removal: that is what `BcmSwitch` does for routes and
neighbours when a table is full. `stateChanged()` may also throw, which ends
the process.

### LacpMachines, Lacp

All LACP machines run on one event base, so an action of `Lacp` is one function
run by it: the start of a controller, a port event, an LACPDU, one of four
timeouts. A handler is a composition of operators on the controller's record,
one per C++ method, in the order of the calls; `LacpMachines` has those that
touch one port, `Lacp` those that go through the `Selector`, whose table
`portToSelection` is a function-local static and outlives its controllers.
A set of `LacpState` bits is a set of names; the identity of a participant
(system, key, port, priorities) is its port; the two periods are one. LACPDUs
are lost, or not sent for want of a buffer or of transmission budget; partners
outside the model (`Strangers`) say what `StrangerPDUs` allows. A failed `CHECK`
or `LOG(FATAL)` sets `aborted`, after which nothing happens.

`subports` are the ports the `SwitchState` has in its aggregates, `members` those
that have a controller. A change of an aggregate gives it any ports, its old ones
included. `Reconfigure` is the change that `aggregatePortChanged()` notices: the
controllers of all old ports go, and new ones are made. The code compares the two
lists of subports by the length of the old one (`std::equal`), so it overlooks
ports added at the end, and reads past the end of a list that got shorter. The
model leaves out the numbers that order the ports: a change that only adds ports, or
only removes some, may be noticed or not, and one that goes unnoticed
(`ReconfigureUnnoticed`) changes `subports` and nothing else.

### LinkAggregationManager

Who holds `controllersLock_`, who waits for it, and who waits for the LACP event
base. The lock is a write-priority shared mutex. What the functions compute is
left out (it is in `Lacp`); of a posted function the model keeps whether it
signals other ports, which takes the lock for reading.

### NeighborCache

One address on one VLAN: addresses share nothing but the lifetime of their
cache. `cache.entry` is the `NeighborCacheEntry`, `table` the node of the
`SwitchState`, `posted` the functions waiting on the neighbour cache thread,
`updates` the closures waiting for the update thread. `RunPosted` runs one
function, `TimeoutExpired` the entry's timeout, `RunUpdates` a batch, with what
the `NeighborUpdater` and the `LookupClassUpdater` then post. A batch and its
notification are one step over a prefix of the queue of which only the last
update may forbid coalescing; what is behind the prefix was queued after the
batch was taken.

MAC address and port are one *location*. `isHit()` may answer anything, the class
chosen is any class, the observers are told in either order, and a timeout fires
whenever it is set. Functions that hold a pointer to a destroyed entry or cache
are `dangling`; running one sets `aborted`, as do a failed `CHECK` and an
exception in an update nobody waits for.

### RadixTree, RouteNextHopsMulti, RouteResolution

Pure operators, in the source's shape: a prefix is the sequence of its bits, a
tree maps the prefix of each node to its children and each value node to its
value, and insertion and removal rearrange nodes case by case as the code does.
Resolution walks the trees with the `PROCESSING` flag that stops loops, and
merges weights through least common multiples as `mergeForwardInfos` does.
`ResolutionIsExact` and `SharesArePreserved` compare it with a reference
definition that has neither order nor flags.

### RouteUpdater, Rib

A Thrift client's `update()` takes the RIB's write lock, changes and resolves the
tables, and waits with the lock held for the update thread to compute the FIB
from them (`Update`, `UpdateReturns`). A config reload is an update whose function
takes the same lock on the update thread (`RunConfigUpdate`). An exception half
way (an invalid next hop) leaves what was added. The update thread takes a batch,
runs its functions one by one and applies the result, as in `SwSwitch`.

### RouteTables

Copy-on-write matters here: a node carries the number of the update that made it
(`born`), a rib whether the running update has cloned it, and the delta compares
nodes by `born` as the code does by pointer. `UpdateUnicastRoutes` and
`ReloadConfig` compute a desired state, `Apply` has `BcmSwitch` program the
difference in its order (removed routes first, then changed and added ones per VRF
and family), and what the chip refuses is reverted in the state. `WarmBoot`
rebuilds the tables from their JSON form.

### BcmEcmp

The linkscan bottom half removes egresses from groups without the lock of the
update thread, from a copy of the port map; the update thread programs hosts and
groups one task at a time (`work`). Steps of the two interleave group by group.

An answer received before its port went down may be handled after it, and nothing
has to end an entry made that way: a STALE one that is not hit is neither probed nor
removed. `BcmEcmpLate` adds a history variable, `late`, with the neighbours that have
such an entry, for the property about ports that stay down.

### SaiForwarding

`hw` is the state of the managers and of the store; a step handles one entry of
a delta, since `SaiSwitch` does so under one mutex. A handle in C++ is a
`shared_ptr`, an object is deleted from the store with its last handle; the model
computes that closure. An object has attributes, and an optional one that is no
longer given keeps its old value in the adapter (`setAttributes`), so the object of a
route depends on what the route was before. `PortHandles` are the ports that have a
handle; a neighbour over an aggregate or any other port cannot be programmed and
throws. `WarmBoot` reloads the store from the adapter, with handles
that keep all objects (`held`), and then replays the state in any order of
entries of one kind (`todo`).

### NexthopProbes, MirrorManager, StateObservers

The first two are operators on a `SwitchState` of interfaces, routes, labels,
neighbours and a mirror. `StateObservers` has the threads: a batch is published,
a probe may fire, then the observers are told (`old` is the state they were told
last); the mirror manager's answer is an update of its own that runs later, on
another state.

### TunManager

A function of the code is the sequence of the system calls it makes, so that a
process can end at any of them, or an exception undo some (`run`). The kernel is
external: its record has links, addresses, routes and a count of rules, and it
answers as the comments of the code expect (`allowed`, `exec`). A v4 address added
to a link that has one of the same subnet is a secondary, and is deleted along with
its primary, as the comment at `SwSwitch.cpp:531` says. Whether a link that is down
drops and refuses v6 addresses, which the comments leave open, is chosen at the
start.

Two history variables name the interfaces whose addresses the code has lost track of:
`lost` those of which this process has taken over addresses without programming them,
or deleted an address with its secondaries; `torn` those of earlier processes, and the
ones a process ended in the middle of changing.

## 3. Runs

| run | result | shows |
|---|---|---|
| `pipeline` | holds | no update is stranded or lost, the applied state is the hardware's, observers hold what was not rejected, only a FIB sync can take an exit back; the pipeline implements `SwitchStateRegister`, and every queued update is answered |
| `lacp_pair` | holds | both ends of a link come to forward, for good, once faults stop |
| `lacp_selector` | holds | as long as no aggregate is reconfigured, no `CHECK` fails and a port that is down does not forward; always, a LAG keeps its minimum of links, and the LAG chosen is the partner's |
| `lag_manager` | holds | the map of controllers is stable under readers; nobody waits for good unless a thread waits for the event base with the lock held |
| `neighbor` | holds | an entry always has a timeout coming, is given up after as many probes as 8 bits hold of the configured number, a pending one is resolved or expires, and its node follows it |
| `rib` | holds | resolution and weights are exact, the FIB applied is that of the RIB at that moment, `update()` returns if no config is loaded |
| `rib_reload` | violated | a config reload and `update()` wait for each other |
| `route_tables` | holds | a node shared by two states has one content, the chip has the applied routes, incremental resolution is resolution from nothing |
| `bcm_ecmp` | holds | when the threads are done, and once it stays resolved, a resolved neighbour that is reached over one port only is in all its groups; groups end up without the neighbours over a port that stays down, except those a late answer resolved |
| `sai_forwarding` | holds | groups have the members they should; every route forwards, traps or drops as its information says, whatever it was before; a step throws only when it has one of the listed causes; a replay after a warm boot with all next hops resolved touches nothing |
| `observers` | holds | use counts and probes match the state, a resolved mirror leads to a live neighbour, a missing next hop is asked for |
| `tun_manager` | holds | the kernel ends up with the last state's links; with its addresses, default routes and rules on the interfaces of which no process has lost track (`lost`, `torn`), except rules of v6 addresses the kernel drops; a sync throws only at those, at a secondary its primary took along, or at a v6 address of an interface that is down |

`rib_reload` states what a comment in `RoutingInformationBase.h` says; the
finding in `PROJECT.json` quotes it. Several properties leave out a case in which
the code does not keep them. The comment of the property names the case, the
hazard in `PROJECT.json` has it as a note, and section 5 lists it.

### Bounds

*Pipeline.* Two callers, of which one runs the Initializer's script; three
entries: a route that may be rejected, a port whose updates do not coalesce
and the ALPM default route; two non-absent values; three updates: enough to have a
batch rejected, a sync update queued behind it and an update that removes what was
rejected or splits the queue.

*LACP.* `lacp_pair`: two linked ports, two faults, one LACPDU in flight each
way, a transmission budget of two, so that the budget runs out while a change
is to be announced. `lacp_selector`: three ports of which two must be up, two
partners, one disturbance, one change of members; three ports make the difference
between "enough" and "exactly enough", two partners a conflict about the LAG.

*Manager.* Two ports, two Thrift threads, a queue of two functions.

*Neighbour.* Two locations on two ports, of which one has a lookup class, two
functions posted and two closures queued by others at a time, 258 probes, which is
two in the 8 bits of `probesLeft_`, one change of a port or of the configuration, and packets only while no class use is counted. Two
closures in the queue suffice for the cache to be ahead of the table by a move and
a flush.

*RIB, route tables.* Addresses of two bits; prefixes that nest, next hops that
recurse through one or two other routes, in the RIB also across families and in a
loop, with and without weights; two clients, and requests whose distances order
them both ways; two configurations that differ in networks, static routes and a
second VRF; in the RIB a request with an invalid next hop; four calls.
`Capacity` and `EcmpCapacity` are such that some sequences fill the tables and
others do not.

*ECMP.* Two neighbours behind a port each, a group of both, two flaps, three late answers, flushes or route changes, two closures queued: a flap
can overtake its own update.

*SAI.* Three neighbours, one of them link-local, on two interfaces; two next hop
routes and a host route; next hop sets that overlap, have a labelled next hop or
differ in a weight only; routes that become drops, go to the CPU or to an interface; a neighbour
that moves to a port without a handle; one warm boot, at any point.

*Observers.* Three next hops (a plain one, a link-local one, a subnet's own), a
mirror destination with two covering prefixes, a label, one interface that may be
removed, four changes, two closures queued.

*Tunnel interfaces.* Two interfaces (one virtual at times), two v4 addresses of one
subnet, so that either may be the other's secondary, a v6 and a link-local address,
two masks, one port that both share, two changes and two processes.

The agent stops when it exits or aborts, and most instances bound what others
send to it, so deadlock is checked in `lacp_pair` only; that threads do not wait
for each other is stated as liveness where it matters (`UpdatesHandled`,
`StateUpdateReturns`, `UpdateCompletesWithoutReload`).

### Fairness

*Pipeline.* The event base runs its callbacks for as long as its loop runs, and
a thread inside `updateState()` takes its next step: weak fairness of both.
Nobody has to queue an update or to exit.

*LACP.* Weak fairness of what is posted to the event base and of scheduled
timeouts; faults are bounded, links come back, buffers are freed.

*Manager.* Strong fairness of the update thread and of the LACP event base: a
write-priority mutex lets the writer in although readers come and go, and a
reader that keeps finding the lock free is let in; the event base comes round
to its queue between timeouts.

*Neighbour.* Weak fairness of the update thread. Strong fairness of posted
functions and of timeouts: they take turns on one event base, and both wait for
room in the bounded queue. Packets need not arrive, or stop arriving.

*RIB.* Weak fairness of the update thread's steps and of a client whose update has
been answered.

*ECMP.* Weak fairness of the linkscan thread, of the update thread, and of the
function posted for a port that went down. No neighbour has to answer and no entry
has to expire.

*Observers.* Weak fairness of the update thread, of the neighbour cache thread and
of the timeouts of probes.

Where ENABLED would be slow to evaluate, the enabling condition is written out.
The other instances check safety only.
## 4. Proofs

Each proof module extends the module it is about. A theorem says `Spec => []P` (or
`Spec => P` for an action property or a refinement) for a property `P` that a run
checks; its proof finds an inductive invariant, proves that every action preserves
it, one lemma per action, and derives `P` from it.

**The pipeline.** `SwSwitchProofs` proves `TypeOK`, `NoStrandedUpdate` and
`OnlyFibSyncTakesExitBack`. The count of callbacks is not inductive on its own: the
sync update enters the queue with no signal, so `QueueInv` adds that there is at
most one, that it is at the front, and that none is queued while the update thread
is inside `handlePendingUpdates()` or before the initial callbacks have run. The
run state needs what each caller has seen of it (`RunStateInv`).

It then proves, in this order, that the applied state is what the hardware holds
(`AppliedInv`), that generations grow (`GenerationInv`: the sync
update is newer than the applied state for as long as it waits), that no update is
lost (`DivergenceInv`: what the update thread holds at each program point is what
was intended, given that the batch starts in sync or with the sync update), and
that observers hold what is never rejected (`ObserverInv`: applied and desired
states agree there at every step, so no delta, which starts from the applied state,
skips such an entry).

Last comes `ImplementsRegister`. The mapping shows the register the updates that are
spliced but not yet committed, then the pending ones, without the sync update; the
register is the tree of the desired state. Pushing is `Submit`, `setStateInternal()`
is `Commit` of the whole batch, the end of the batch on an exiting switch is
`Discard`, an exit or an abort is `Close`, the ALPM callback of `init()` is
`AddDefaults`, everything else a stutter. The register says what a committed prefix
of the queue does to the tree by the last write of each entry; the pipeline runs the
updates one by one from the applied state, so `WorkInv` says what has been written
after each, and `BatchShape` that only the first may be the sync update and only the
last may forbid coalescing. Together with `NoUpdateLost` this is the strongest
statement about the pipeline.

**LACP.** `LinkAggregationManagerProofs` proves `TypeOK` and
`MapStableUnderReaders`. The update thread changes the map at program points at
which it holds the lock, and one of them is entered by the LACP event base, when it
has run the function `stopMachines()` waits for. So `LockInv` adds that there is at
most one such function, in the queue or running, and only while the update thread
waits.

`LacpProofs` proves all four safety properties of `Lacp`, for any number of ports,
links and faults. `LacpInv` has three parts. Of a controller: the receive machine's
timeout is set in CURRENT and EXPIRED only, and a DISABLED machine has told the mux
that the partner is out of sync, which keeps a late wait timeout from making the
port forward (`Safe`). Of the selection table: an entry is for a LAG of its own
port's aggregate, and SELECTED ports are enough (`Table`); it breaks within
`unselected()`, between the erasure of the entry and the STANDBY signal, so the two
are one lemma (`DissolvedTable`), and `Promoted` counts the ports that
`Selector::select` signals together. Between the two: the selection of a started
port names the LAG of its `partnerInfo_` (`Current`), without which `select()` could
find an entry for another LAG. As long as nothing is reconfigured, a port that is
down is INITIALIZED or DISABLED and a forwarding subport has a mux that collects and
distributes (`Undisturbed`). The other parts hold over any reconfiguration, noticed or
not. There is a lemma for each method of the machines, then
for each function of the Selector (`Across`), then for each handler (`Handled`).

**Neighbours.** `NeighborCacheProofs` proves `TimerArmed` and
`ExpiredAfterItsProbes`. A posted function that sets a timeout may run after the
entry it was posted for is gone, and a new cache may be made while functions for
the old one wait. `CacheInv` adds that a function that sets a timeout waits only
while there is an entry, and that behind every function that adds the cache and
before the next one waits one that deletes it, and that the probes an entry has sent
and those it has left make up its round. Both theorems, `TimerStaysArmed` and
`GivenUpAfterItsProbes`, have the hypothesis that the number of probes is not a
multiple of 256, which the default of 300 satisfies. Without it the properties are
false (section 5).

`NeighborTableProofs` proves `TableFollowsCache` and `SteadyVlanSurvives`. The cache
runs ahead of the table, so `SteadyInv` is about the table as the closures that wait
would leave it, `applyUpdates(SwitchState, updates)`: its node is where the cache's
entry is, and in its class (`Matches`); a closure that waits finds the VLAN and the
interface it was made for (`GoodState`, `SteadyClosure`); and before the function
that adds the cache has run, the cache it brings matches the table. Each function of
the cache either queues nothing and keeps what the table must look like, or queues
one closure that repeats what it did (`Follows`), which is a lemma for each of them.
A batch takes the first closures off the queue, and `ApplySplit` says that the rest
then leaves what all of them would have left. `ASteadyVlanSurvives` needs the number
of probes not to be a multiple of 256, as `TimerStaysArmed` does;
`TheTableFollowsTheCache` needs nothing.

**ECMP groups.** `BcmEcmpProofs` proves `FixedNeighborsComplete`: the property is
about a moment at which nothing is left to do, so the invariant says for every other
moment what is still on its way. `ReturnInv` is its heart: a resolved neighbour that
is missing from a group is about to be expanded into it, or the loss of its port is
still on its way to the cache, or a closure that replaces its node is queued, after
which the update thread programs it anew. That the loss of the port comes at all is
`LinkInv`: link changes still to be scanned and closures still to run lead, change by
change, from the state the update thread has to the link as it is. `CacheInv` and
`HostInv` tie the entries of the cache to the nodes and the nodes to the hosts, as
the closures and tasks that wait would leave them; `WorkInv` says that a neighbour
that is still to be programmed has one task only, and that no task shrinks the groups
of a resolved neighbour.

**Observers.** `StateObserversProofs` proves the three safety properties of
`StateObservers`. The observers know the state before the one that is published
until their turn comes, so `ProbeInv` compares the use counts and probes with that
one: a count is the number of routes and label entries that use the next hop,
although only the changed ones are counted (`CountDelta`, from `CountChanged` about
the cardinalities of two sets that differ in a third), and a next hop in use has its
interface. A timeout may stop a probe before the observers' turn, but only when the
interfaces have changed. For mirrors, `MirrorInv` says that once the observers have
had their turn, a mirror with no closure queued to find its way has a current one; a
batch of closures is applied by folding over the queue, so `PathExists` and
`BatchIsPath` give the states in between.

**SAI.** `SaiForwardingProofs` proves `MembersAreResolved` for any sets of
neighbours, interfaces, routes and next hops. Its invariant `Inv(hw)` relates every
kind of object to what refers to it; `ReleaseCounted` says what is left when handles
are given back, and there is a lemma for each handler. Its second half goes on to
the switch state: `Follows` says which entries have a handle, those still to be
replayed having none, and what the kept route objects do. An object keeps attributes
of what its route was before, so the invariant does not say what its attributes are
but what they amount to (`Does`): a drop whatever else is set, or a way to the
`Target` of the route's information. This gives `RoutesFollowState`.
`OnlyKnownFailures` is about steps, so each handler has a lemma that says when it
throws, and the proof combines them with what `Follows` says of the state before.
`CompleteReplayIsHitless` needs
more: that a group kept over the warm boot is found under the key of its next hops
and has no members but theirs (`ReplayInv`). Its hypothesis `SubnetRoutesApart` says
that a host prefix is either always or never an interface's subnet route. Without it
TLC finds a counterexample: the change to a subnet route is skipped, the old object
and its group stay, and the reload files that group under the key of its members,
which may be the key of another group.

**Assumptions.** `ConstantsAssumption`, `MachinesAssumption`, `LacpAssumption`,
`ManagerAssumption`, `NeighborAssumption`, `SetsAssumption`, `EcmpAssumption` and
`ObserversAssumption` give the constants the shapes and the finiteness the code
takes for granted: finitely many ports, neighbours and routes, links with two ends,
one minimum link count per aggregate, next hops that are neighbours. The observers
are assumed not to monitor the next hops of interface routes, as they do not with
the default of `FLAGS_monitor_nexthops_for`, "OPENR"
(ResolvedNexthopMonitor.cpp:52). `NoUpdateLost`, `SyncUpdateHeld` and
`SwSwitchImplementsRegister` have the hypothesis that full tables do not reject ALPM
default routes, because nobody looks at the result of applying them. The bounds on
faults, queues, changes and boots are arbitrary numbers in the proofs.

**Sequences.** What a batch does is the value of a recursive function of the queue,
and how many hosts a group has is the cardinality of a set, so some lemmas need
induction. The library's induction theorems take an operator as a parameter, which
the provers cannot instantiate; `Induction` is the same for a set: the least natural
number that is not in it has a predecessor that is (`LeastNatural`, from the
well-foundedness of the naturals). A recursive function is then unfolded once and
for all into the path of the states between its steps (`BatchIsPath`,
`ApplyHasPath`), and the lemmas are about such a path.

**Only TLC checks**
- liveness (`UpdatesHandled`, `Converges`, `StateUpdateReturns`, `PendingResolves`,
  `DownPortLeavesGroups`, `ResolvedNeighborReturns`, `MissingIsAskedFor` and the
  others under a fair specification): the prover has no rules for fairness and
  ENABLED;
- the radix tree, the RIB and the route tables, whose operators are recursive and
  recurse over trees and sets of routes, not along a queue: the comparisons with
  reference definitions (`ResolutionIsExact`, `SharesArePreserved`) and what is built
  on them;
- `TunManager`, whose steps fold over sequences of system calls, each of which may
  fail.

## 5. Observations

What modelling showed. These are readings of the code, or states that TLC reaches
in the models; where a property leaves such a case out, its comment says so.

*Pipeline*
- The hardware is programmed before the state is published
  (`SwSwitch.cpp:835`, `:846`): a reader of `getState()` may lag behind it.
- An update dropped because the agent is exiting is reported a success
  (`SwSwitch.cpp:829`).
- Observers are given the desired state: an entry that is rejected and then removed
  before the retry stays with them (`SwSwitch.cpp:862`).
- The result of applying the ALPM state is ignored (`SwSwitch.cpp:437`).
- `syncFib` checks the run state and sets it later; an exit in between makes
  the `CHECK` in `setSwitchRunState()` fail (`ThriftHandler.cpp:636`,
  `SwSwitch.cpp:262`).

*LACP*
- With more links than the minimum, one flap leaves all of them in STANDBY:
  `Selector::select` tests for `targetLagMemberCount == minLinkCount_`
  (`LacpMachines.cpp:813`), the aggregate port for at least as many
  (`AggregatePort.cpp:249`).
- `Selector::stop()` leaves the selection of a removed port, and the next port
  event of its LAG fails a `CHECK` (`LinkAggregationManager.cpp:361`). Hence the
  proviso `reconfigurations = 0` of `NoAbort`.
- The mux machine's wait timer is not cancelled by STANDBY and attaches the port
  (`LacpMachines.cpp:687`).
- A forwarding port whose partner changes keeps forwarding
  (`LacpMachines.cpp:559`, `:795`).
- A controller created for a port that is up stays DISABLED until the port
  flaps (`LacpController.cpp:72`); a subport keeps forwarding when its aggregate is
  reconfigured.
- `aggregatePortChanged()` compares subports by the length of the old list
  (`LinkAggregationManager.cpp:193`): ports added at its end have no controller, and a
  list that got shorter is read past its end. Nor does it compare the minimum link
  count.
- `stateUpdated()` waits for the event base with the write lock held, and
  `populatePartnerPairs()` with the read lock, while the event base may wait for
  the lock in `getControllersFor()` (`LinkAggregationManager.cpp:130`, `:271`,
  `:349`): `StateUpdateReturns` leaves the deadlock out.

*Neighbours*
- `probesLeft_` is 8 bits wide and `maxNeighborProbes` is 300 by default: an entry
  is given up after 44 probes, which is what `ExpiredAfterItsProbes` says. A
  multiple of 256 would make a STALE entry that is hit expire in `enter()`,
  where nobody flushes it.
- `enter()` posts a bare `this`; a flush that is already in the queue destroys
  the entry first (`NeighborCacheEntry.h:316`).
- An entry that expires when its VLAN is being deleted queues a closure whose
  `getVlan()` throws, which is fatal (`NeighborCacheImpl-defs.h:318`); the
  closure of `updateEntryClassID()` uses a null VLAN in the same window.
- Removing a lookup class makes a pending node REACHABLE
  (`state/NeighborTable-defs.h:97`).
- A neighbour that moves while its class is on the way is not counted at its new
  place, and fails `CHECK_GT` when it goes (`LookupClassUpdater.cpp:276`, `:500`).
- A neighbour flushed and solicited again within one batch stays pending in
  every state the observers see; `PendingResolves` is therefore about the cache.

*Standalone RIB*
- A client in use that replaces its entry by one of greater distance stays in use
  (`rib/RouteNextHopsMulti.cpp:104`).
- v4 routes are resolved before v6 ones, so a v4 route over a v6 next hop has the
  resolution of the update before (`rib/RouteUpdater.cpp:538`).
- A config that the agent refuses leaves the RIB changed; if it added a VRF, the
  next FIB update fails a `CHECK` (`ForwardingInformationBaseUpdater.cpp:44`). A
  change of static routes alone reaches the RIB but not the FIB. A change of the
  CONNECTED flag alone does not make the FIB's route a new one.
- `update()` that throws half way leaves what it added, unresolved.
- The product of weights is computed modulo 2^32 (`rib/RouteUpdater.cpp:201`).

*Route tables*
- Static routes of a VRF other than 0 are never removed
  (`ApplyThriftConfig.cpp:1842`, comment at `:1809`), nor is it resolved again after
  a warm boot.
- A route whose next hop is of the other family keeps its old resolution if only
  that family changed (`state/RouteUpdater.cpp:630`).
- A route of a new VRF that the chip refuses takes the agent down: there is no old
  table to revert to.
- The ALPM default route leaves the chip when a client's default becomes
  unresolved (`AlpmUtils.cpp:40`, `BcmSwitch.cpp:2006`).

*Broadcom ECMP*
- A neighbour that moves to another port while its old one goes down may stay out
  of its groups (`BcmEgress.cpp:477`). `FixedNeighborsComplete` is about neighbours
  of one port.
- An answer handled after its port went down puts the neighbour back into its groups
  over the dead link, for as long as nothing hits or flushes the entry.

*SAI*
- Two groups whose resolved members are equal are one object to the store after a
  warm boot, and loading it is fatal (`SaiStore.h:111`). The key of a group ignores
  weights and labels (`SaiNextHopGroupManager.h:40`).
- Removing an interface that has neighbours throws (`SaiSwitch.cpp:463`). So does
  changing or removing a connected host route, which is skipped when it is added
  (`SaiRouteManager.cpp:222`), and programming a neighbour over an aggregate or a port
  without a handle (`SaiFdbManager.cpp:44`).
- A route that becomes a drop keeps its next hop in the adapter, possibly a group that
  is removed (`SaiObject.h:349`).
- A host route that becomes a subnet route leaves its object, over which the next warm
  boot may abort.
- A neighbour that changes from one resolved entry to another is not programmed
  again (`SaiNeighborManager.cpp:65`).
- Warm boot handles are never given back (`SaiStore.h:116`; `store/README.md:116`
  says otherwise), so a member whose neighbour has gone stays.

*Observers*
- A port that resolution found is marked as configured (`MirrorManagerImpl.cpp:33`,
  `Mirror.h:104`), so the mirror does not follow its destination to another port.
- `Mirror::operator==` joins the comparison of egress ports with `||`
  (`Mirror.cpp:198`) and does not compare UDP ports: a change of kind of an unresolved
  mirror is not noticed.
- A change of the mirror alone does not resolve it: `hasMirrorChanges` looks at
  neighbours and routes only, and not at the FIBs of the standalone RIB.
- `skipLabelFibEntry` skips the entries of monitored clients, where the flag's help
  says the others (`ResolvedNexthopMonitor.cpp:131`, `:18`).
- Link-local next hops and label entries stay over an interface that is removed: the
  probe scheduler throws (`ResolvedNexthopProbeScheduler.cpp:56`), the mirror manager
  follows a null pointer (`MirrorManagerImpl.cpp:97`).

*Tunnel interfaces*
- Addresses changed while an interface is down are recorded and never programmed
  (`TunManager.cpp:752`): the old ones stay with their rules, and removing a new one
  later throws over the rule that is missing, which ends the process.
- A mask changed while the interface is down gives one address two masks, over which
  the next probe throws: the agent does not start (`TunIntf.cpp:235`).
- A process that ends between the removal of a rule and of its address
  (`TunManager.cpp:475`) leaves an address whose removal throws in the next one. Other
  cuts leave rules that nobody removes.
- Deleting a primary address takes its secondaries along (`SwSwitch.cpp:531`).
  `sync()` does not know: removing them in the same sync, or later, throws, and one
  that should stay is missing. The next process adds the address again, and a second
  rule with it.
- Probed links are taken for DOWN, so the link of an interface that should be down
  stays up after a restart (`TunManager.cpp:101`).
- A comment says that syncs use the applied state (`TunManager.cpp:631`), while
  `stateUpdated()` is given the desired one; the interfaces of the two never differ.
- `stop()` destroys the manager while functions that hold it may be queued
  (`SwSwitch.cpp:186`).

## 6. Not modelled

`PROJECT.json` ("components") lists every part of the system with the reason where
it is left out. In short:

- *Input and output*: the packet library and the packet handlers, device access,
  the SDK calls of `BcmSwitch` for ports, ACLs, QoS, mirrors and trunks. They have
  little state of their own; what they tell the modelled parts is an input there.
- *Conversions*: `ApplyThriftConfig` field by field, the JSON form of the state
  except that of routes, platform descriptions and generated code, which is most of
  the repository's lines.
- *State under one lock*: LLDP neighbours, packet capture, counters, the route
  logger, the restart tracker. No step of another thread comes between.
- *Vendor tables across a restart*: `BcmWarmBootCache`.

Within the modelled parts: what the hardware holds after a crash; destruction of
observers at exit (`SwSwitch`); timeouts changed at run time, the neighbour
listener, the MAC table, changes of a port's lookup classes, several addresses with
one MAC (`NeighborCache`); label actions of next hops (`Rib`, `RouteTables`); member
weights, to-me routes, label entries, interfaces removed under next hop routes, ports
that come and go, several virtual routers, errors of the adapter (`SaiForwarding`); weighted groups and trunks (`BcmEcmp`); pop-and-lookup label
next hops (`StateObservers`); the MTU, table numbers shared by two interfaces, the
packets, a kernel that promotes secondaries (`TunManager`).
