----------------------------- MODULE NeighborCache -----------------------------
(***************************************************************************)
(* The life of one neighbour (an IP address on one VLAN) in the ARP or NDP *)
(* cache (fboss/agent/NeighborCacheEntry.h, NeighborCacheImpl-defs.h,      *)
(* ArpCache.cpp, NdpCache.cpp), in the neighbour table of the SwitchState, *)
(* and in the NeighborUpdater between them (NeighborUpdater.cpp,           *)
(* NeighborUpdaterImpl.cpp).  Entries of different addresses share nothing *)
(* but the lifetime of their cache.                                        *)
(*                                                                         *)
(*   - the neighbour cache thread runs the functions that other threads    *)
(*     post to it, in order (`posted'), and the entry's timeouts;          *)
(*   - the update thread runs batches of the closures queued, in order     *)
(*     (`updates', see module SwSwitch), then tells the NeighborUpdater    *)
(*     and the LookupClassUpdater what the batch changed; these post to    *)
(*     the neighbour cache thread in turn.                                 *)
(*                                                                         *)
(* A packet's MAC address and port are one Location.  A pending entry has  *)
(* the location NoLocation (broadcast MAC, port 0).  Closures that hold a  *)
(* pointer to a destroyed object are marked dangling; running one ends the *)
(* process, as far as this model goes (`aborted').                         *)
(***************************************************************************)
EXTENDS Integers, Sequences, FiniteSets, Functions

CONSTANTS
  Families,            \* the kinds of cache: a subset of {"arp", "ndp"}
  Locations,           \* (MAC, port) pairs a neighbour may answer from
  NoLocation,
  Ports,
  PortOf,              \* [location -> its port]
  ClassPorts,          \* ports with lookup classes configured
  Interfaces,          \* interfaces the VLAN may have
  Classes,             \* lookup classes
  NoClass,
  maxNeighborProbes,
  MaxPosted,           \* bound: other threads post while fewer functions wait
  MaxUpdates,          \* bound: closures are queued while fewer wait
  MaxRefCnt,           \* bound: ... and each location's class has fewer uses
  MaxChanges           \* bound: changes of the configuration or of a port

ASSUME NeighborAssumption ==
  /\ Families \subseteq {"arp", "ndp"}
  /\ NoLocation \notin Locations /\ NoClass \notin Classes
  /\ IsFiniteSet(Ports) /\ PortOf \in [Locations -> Ports] /\ ClassPorts \subseteq Ports
  /\ Interfaces # {} /\ 0 \notin Interfaces
  /\ {maxNeighborProbes, MaxPosted, MaxUpdates, MaxRefCnt, MaxChanges} \subseteq Nat

VARIABLES
  family,     \* whether this is an ArpCache or an NdpCache
  config,     \* what the SwitchState says of the VLAN and of the ports
  table,      \* the address's node in the VLAN's table of the SwitchState
  updates,    \* closures queued with updateState()
  posted,     \* functions posted to the neighbour cache thread
  cache,      \* the VLAN's cache, with the address's entry
  refCnt,     \* LookupClassUpdater: [location -> uses of its class]
  waiting,    \* the neighbour cache thread is in updateStateBlocking()
  configs,    \* configuration changes so far
  flaps,      \* changes of a port's state so far
  aborted

vars == <<family, config, table, updates, posted, cache, refCnt, waiting, configs, flaps, aborted>>

States == {"INCOMPLETE", "PROBE", "STALE", "REACHABLE", "EXPIRED"}

EntryFields == [loc : Locations \cup {NoLocation}, intf : Interfaces,
                pending : BOOLEAN, cls : Classes \cup {NoClass}]

NoNode == [loc |-> NoLocation, intf |-> 0, pending |-> FALSE, cls |-> NoClass]

\* `sent' counts the solicitations of the entry's present round, with the one
\* that enter() takes for sent when the entry starts INCOMPLETE.
Entries == [fields : EntryFields, state : States, probesLeft : 0 .. 255,
            timer : BOOLEAN, sent : Nat]

NoEntry == [fields |-> NoNode, state |-> "UNINITIALIZED", probesLeft |-> 0,
            timer |-> FALSE, sent |-> 0]

NoCache == [intf |-> 0, entry |-> NoEntry, exists |-> FALSE]

Fields(loc, intf) == [loc |-> loc, intf |-> intf, pending |-> FALSE, cls |-> NoClass]

PendingFields(intf) == [loc |-> NoLocation, intf |-> intf, pending |-> TRUE, cls |-> NoClass]

-----------------------------------------------------------------------------
(* NeighborCacheEntry.  `hit' is what isHit() reads from the hardware. *)

uint8(n) == n % 256

\* The last probe is not waited for.
probeIfProbesLeftHasty(e) ==
  LET f == [e EXCEPT !.probesLeft = @ - 1, !.sent = @ + 1]
  IN IF e.probesLeft > 1 THEN f ELSE [e EXCEPT !.state = "EXPIRED"]

probeIfProbesLeft(e) ==
  IF e.probesLeft > 0 THEN [e EXCEPT !.probesLeft = @ - 1, !.sent = @ + 1]
                      ELSE [e EXCEPT !.state = "EXPIRED"]

probeStaleEntryIfHit(e, hit) ==
  IF hit THEN probeIfProbesLeft([e EXCEPT !.state = "PROBE"]) ELSE e

\* A REACHABLE entry has become STALE.
runStateMachine(e, hit) ==
  IF e.state \in {"INCOMPLETE", "PROBE"} THEN probeIfProbesLeft(e)
  ELSE probeStaleEntryIfHit([e EXCEPT !.state = "STALE"], hit)

\* An entry that becomes STALE goes on with the probes it had left.
enterKeepingProbes(e, state, hit) ==
  LET probes == uint8(IF state = "INCOMPLETE" THEN maxNeighborProbes - 1 ELSE maxNeighborProbes)
      first == IF state = "INCOMPLETE" THEN 1 ELSE 0
  IN IF state # "STALE" THEN [e EXCEPT !.state = state, !.probesLeft = probes, !.sent = first]
     ELSE IF e.state = "UNINITIALIZED"
       THEN runStateMachine([e EXCEPT !.state = state, !.probesLeft = probes], hit)
       ELSE runStateMachine([e EXCEPT !.state = state], hit)

\* enter(), apart from the function it posts.
enter(e, state, hit) ==
  LET f == [e EXCEPT
              !.state = state,
              !.probesLeft = uint8(IF state = "INCOMPLETE" THEN maxNeighborProbes - 1
                                                           ELSE maxNeighborProbes),
              !.sent = IF state = "INCOMPLETE" THEN 1 ELSE 0]
  IN IF state = "STALE" THEN runStateMachine(f, hit) ELSE f

\* The timeout of a PROBE entry is not set again.
scheduleNextUpdateOnce(e) == [e EXCEPT !.timer = e.state # "PROBE"]

scheduleNextUpdate(e) == [e EXCEPT !.timer = @ \/ e.state # "EXPIRED"]

\* process() when the timeout has just fired
process(e, hit) == scheduleNextUpdate(runStateMachine([e EXCEPT !.timer = FALSE], hit))

fieldsMatch(e, fields) == [e.fields EXCEPT !.cls = NoClass] = [fields EXCEPT !.cls = NoClass]

-----------------------------------------------------------------------------
(* NeighborCacheImpl.  The functions run on the neighbour cache thread take *)
(* and return what they may change.                                         *)

World == [cache |-> cache, posted |-> posted, updates |-> updates, waiting |-> waiting]

Schedule == [op |-> "schedule"]

\* A pointer to the entry, or to the cache, that is now destroyed.
Dangling(seq, ops) ==
  [i \in DOMAIN seq |-> IF seq[i].op \in ops THEN [op |-> "dangling"] ELSE seq[i]]

Queue(w, closure) == [w EXCEPT !.updates = Append(@, closure)]

\* updateState(): enter(), which posts scheduleNextUpdate() with a bare `this'.
updateState(w, state, hit) ==
  [w EXCEPT !.cache.entry = enter(@, state, hit), !.posted = Append(@, Schedule)]

\* setEntryInternal() returns an entry to program if it is new or changed.
Changed(w, fields) == w.cache.entry = NoEntry \/ ~fieldsMatch(w.cache.entry, fields)

setEntryInternal(w, fields, state, hit) ==
  updateState(IF Changed(w, fields) THEN [w EXCEPT !.cache.entry.fields = fields] ELSE w,
              state, hit)

\* setEntry() and programEntry()
setEntry(w, loc, state, hit) ==
  LET fields == Fields(loc, w.cache.intf)
      v == setEntryInternal(w, fields, state, hit)
  IN IF Changed(w, fields) THEN Queue(v, [op |-> "program", fields |-> fields]) ELSE v

setExistingEntry(w, loc, state, hit) ==
  IF w.cache.entry = NoEntry THEN w ELSE setEntry(w, loc, state, hit)

updateEntryState(w, state, hit) ==
  IF w.cache.entry = NoEntry THEN w ELSE updateState(w, state, hit)

\* An entry that is being resolved starts again with each packet sent to it.
setPendingEntryAlways(w, force, hit) ==
  LET fields == PendingFields(w.cache.intf)
      v == setEntryInternal(w, fields, "INCOMPLETE", hit)
  IN IF Changed(w, fields)
       THEN Queue(v, [op |-> "programPending", fields |-> fields, force |-> force])
       ELSE v

\* setPendingEntry() and programPendingEntry()
setPendingEntry(w, force, hit) ==
  LET fields == PendingFields(w.cache.intf)
      v == setEntryInternal(w, fields, "INCOMPLETE", hit)
  IN IF ~force /\ w.cache.entry # NoEntry THEN w
     ELSE IF Changed(w, fields)
       THEN Queue(v, [op |-> "programPending", fields |-> fields, force |-> force])
       ELSE v

updateEntryClassID(w, cls) ==
  IF w.cache.entry = NoEntry THEN w
  ELSE Queue([w EXCEPT !.cache.entry.fields.cls = cls], [op |-> "class", cls |-> cls])

flushEntry(w, blocking) ==
  IF w.cache.entry = NoEntry THEN w
  ELSE Queue([w EXCEPT !.cache.entry = NoEntry, !.posted = Dangling(@, {"schedule"}),
                       !.waiting = blocking],
             [op |-> "remove", blocking |-> blocking])

\* timeoutExpired() and processEntry()
processEntry(w, hit) ==
  LET v == [w EXCEPT !.cache.entry = process(@, hit)]
  IN IF v.cache.entry.state = "EXPIRED" THEN flushEntry(v, FALSE) ELSE v

portDown(w, port, hit) ==
  LET loc == w.cache.entry.fields.loc IN
  IF loc \in Locations /\ PortOf[loc] = port THEN setPendingEntry(w, TRUE, hit) ELSE w

-----------------------------------------------------------------------------
(* ArpCache and NdpCache *)

receivedNeighborSolicitationMine(w, loc, hit) ==
  IF w.cache.entry # NoEntry /\ w.cache.entry.fields.loc = loc THEN w
  ELSE setEntry(w, loc, "STALE", hit)

receivedNeighborAdvertisementMine(w, fn, hit) ==
  LET fields == w.cache.entry.fields IN
  IF w.cache.entry = NoEntry \/ fields.pending \/ fn.override
    THEN setEntry(w, fn.loc, IF fn.solicited THEN "REACHABLE" ELSE "STALE", hit)
  ELSE IF fn.solicited
    THEN updateEntryState(w, IF fields.loc = fn.loc THEN "REACHABLE" ELSE "STALE", hit)
  ELSE w

-----------------------------------------------------------------------------
(* NeighborUpdaterImpl *)

\* What other threads post: packets received, solicitations sent, Thrift's
\* flushEntry().
Inputs ==
  [op : {"sent", "flush"}]
    \cup (IF family = "arp" THEN [op : {"arpMine", "arpNotMine"}, loc : Locations]
          ELSE [op : {"solicitation"}, loc : Locations]
                 \cup [op : {"advertisement"}, loc : Locations,
                       override : BOOLEAN, solicited : BOOLEAN])

\* A function that asks for the VLAN's cache throws if there is none.
HandleInCache(w, fn, hit) ==
  CASE fn.op = "sent"          -> setPendingEntry(w, FALSE, hit)
    [] fn.op = "arpMine"       -> setEntry(w, fn.loc, "REACHABLE", hit)
    [] fn.op = "arpNotMine"    -> setExistingEntry(w, fn.loc, "REACHABLE", hit)
    [] fn.op = "solicitation"  -> receivedNeighborSolicitationMine(w, fn.loc, hit)
    [] fn.op = "advertisement" -> receivedNeighborAdvertisementMine(w, fn, hit)
    [] fn.op = "updateClassID" -> updateEntryClassID(w, fn.cls)
    [] fn.op = "flush"         -> flushEntry(w, TRUE)
    [] fn.op = "schedule"      -> [w EXCEPT !.cache.entry = scheduleNextUpdate(@)]
    [] fn.op = "portDown"      -> portDown(w, fn.port, hit)
    [] fn.op = "vlanChanged"   -> [w EXCEPT !.cache.intf = fn.intf]

vlanDeleted(w) ==
  [w EXCEPT !.cache = NoCache, !.posted = Dangling(@, {"schedule"}),
            !.updates = Dangling(@, {"remove", "class"})]

Handle(w, fn, hit) ==
  CASE fn.op = "vlanDeleted" -> vlanDeleted(w)
    [] fn.op = "vlanAdded"   -> [w EXCEPT !.cache = fn.cache]
    [] fn.op = "dangling"    -> w
    [] OTHER -> IF w.cache.exists THEN HandleInCache(w, fn, hit) ELSE w

\* The neighbour cache thread is not in updateStateBlocking().
CanRun == ~aborted /\ ~waiting /\ Len(updates) < MaxUpdates

\* The neighbour cache thread runs the next function posted to it.
RunPosted ==
  /\ CanRun /\ posted # <<>>
  /\ UNCHANGED <<family, config, table, refCnt, configs, flaps>>
  /\ \E hit \in BOOLEAN :
       LET w == Handle([World EXCEPT !.posted = Tail(@)], Head(posted), hit)
       IN /\ cache' = w.cache
          /\ posted' = w.posted
          /\ updates' = w.updates
          /\ waiting' = w.waiting
          /\ aborted' = (Head(posted).op = "dangling")

\* ... or the timeout of the entry.  timeoutExpired() is noexcept, and an entry
\* that expired in enter() makes runStateMachine() throw.
TimeoutExpired ==
  /\ CanRun /\ cache.entry.timer
  /\ UNCHANGED <<family, config, table, refCnt, waiting, configs, flaps>>
  /\ \E hit \in BOOLEAN :
       LET w == processEntry(World, hit)
       IN /\ cache' = w.cache
          /\ posted' = w.posted
          /\ updates' = w.updates
  /\ aborted' = (cache.entry.state = "EXPIRED")

\* NeighborUpdater's methods post themselves with folly::via().
Post ==
  /\ ~aborted /\ Len(posted) < MaxPosted /\ \A l \in Locations : refCnt[l] < MaxRefCnt
  /\ \E fn \in Inputs : posted' = Append(posted, fn)
  /\ UNCHANGED <<family, config, table, updates, cache, refCnt, waiting, configs, flaps, aborted>>

-----------------------------------------------------------------------------
(* The closures of NeighborCacheImpl, and changes made by others, applied to *)
(* a state with the configuration, the node and whether the process died.    *)

checkVlanAndIntf(s, fields) == s.config.vlan /\ s.config.subnet /\ fields.intf = s.config.intf

\* A node is not replaced by one on another port.
programEntryOnce(s, u) ==
  IF checkVlanAndIntf(s, u.fields) /\ (s.node = NoNode \/ s.node.pending)
    THEN [s EXCEPT !.node = u.fields]
    ELSE s

programEntry(s, u) ==
  IF checkVlanAndIntf(s, u.fields) /\ u.fields # [s.node EXCEPT !.cls = NoClass]
    THEN [s EXCEPT !.node = u.fields]
    ELSE s

programPendingEntry(s, u) ==
  IF checkVlanAndIntf(s, u.fields) /\ (s.node = NoNode \/ u.force)
    THEN [s EXCEPT !.node = u.fields]
    ELSE s

\* getVlan() throws: fatal for an update that nobody waits for.
flushEntryFromSwitchState(s, u) ==
  IF s.config.vlan THEN [s EXCEPT !.node = NoNode]
                   ELSE [s EXCEPT !.died = @ \/ ~u.blocking]

\* NeighborTable::updateEntry() leaves any node REACHABLE; the closure does not
\* look whether there is a VLAN.
updateClassIDFn(s, u) ==
  IF ~s.config.vlan THEN [s EXCEPT !.died = TRUE]
  ELSE IF s.node = NoNode THEN s
  ELSE [s EXCEPT !.node.cls = u.cls, !.node.pending = FALSE]

\* A VLAN that is not configured has no table.
applyConfig(s, u) ==
  [s EXCEPT !.config = [u.config EXCEPT !.up = s.config.up],
            !.node = IF u.config.vlan THEN @ ELSE NoNode]

setOperState(s, u) == [s EXCEPT !.config.up[u.port] = u.up]

applyUpdate(s, u) ==
  CASE u.op = "program"        -> programEntry(s, u)
    [] u.op = "programPending" -> programPendingEntry(s, u)
    [] u.op = "remove"         -> flushEntryFromSwitchState(s, u)
    [] u.op = "class"          -> updateClassIDFn(s, u)
    [] u.op = "config"         -> applyConfig(s, u)
    [] u.op = "port"           -> setOperState(s, u)
    [] u.op = "dangling"       -> [s EXCEPT !.died = TRUE]

\* A batch of closures, each on the state that the one before it leaves.
applyUpdates(s, batch) ==
  LET After[n \in 0 .. Len(batch)] ==
        IF n = 0 THEN s ELSE applyUpdate(After[n - 1], batch[n])
  IN After[Len(batch)]

\* updateStateNoCoalescing(): such an update is the last of its batch.
allowsCoalescing(u) == u.op \notin {"programPending", "port"}

SwitchState == [config |-> config, node |-> table, died |-> FALSE]

-----------------------------------------------------------------------------
(* What the observers post for a batch that turned state `old' into `new'. *)

\* repopulate(), with the function that enter() posts.
createCaches(s, hit) ==
  LET fresh == [NoEntry EXCEPT !.fields = s.node]
      entry == enter(fresh, IF s.node.pending THEN "INCOMPLETE" ELSE "STALE", hit)
  IN [intf |-> s.config.intf, exists |-> TRUE,
      entry |-> IF s.node = NoNode THEN NoEntry ELSE scheduleNextUpdate(entry)]

\* NeighborUpdater::portDown() for each port of a set.
portsDown(down) ==
  LET n == Cardinality(down)
      port == CHOOSE f \in [1 .. n -> down] : IsInjective(f)
  IN [i \in 1 .. n |-> [op |-> "portDown", port |-> port[i]]]

\* NeighborUpdater::stateUpdated(): the VLAN, then the ports.
stateUpdated(old, new, hit) ==
  LET was == old.config
      now == new.config
      vlan == CASE was.vlan /\ ~now.vlan -> <<[op |-> "vlanDeleted"]>>
                [] ~was.vlan /\ now.vlan ->
                     <<[op |-> "vlanAdded", cache |-> createCaches(new, hit)]>>
                [] was.vlan /\ now.vlan /\ was.intf # now.intf ->
                     <<[op |-> "vlanChanged", intf |-> now.intf]>>
                [] OTHER -> <<>>
      down == {p \in Ports : was.up[p] /\ ~now.up[p]}
  IN vlan \o portsDown(down)

isReachable(node) == node # NoNode /\ ~node.pending

\* A neighbour on a port with lookup classes is no longer (new) where it was (old).
Leaves(old, new) ==
  /\ isReachable(old) /\ (isReachable(new) => old.loc # new.loc)
  /\ old.loc \in Locations /\ PortOf[old.loc] \in ClassPorts

updateNeighborClassID(refs, loc) == [refs EXCEPT ![loc] = @ + 1]

removeClassIDForPortAndMac(refs, loc) == [refs EXCEPT ![loc] = @ - 1]

\* LookupClassUpdater::processNeighborUpdates() on the uses counted in `refs'.
\* Which class is least used depends on the other neighbours (`cls').
processNeighborUpdates(old, new, refs, cls) ==
  LET known == ~new.config.vlan \/ new.node.cls # NoClass
      removed == ~known /\ Leaves(old.node, new.node)
      added == ~known /\ Leaves(new.node, old.node)
      left == IF removed THEN removeClassIDForPortAndMac(refs, old.node.loc) ELSE refs
      Update(c) == <<[op |-> "updateClassID", cls |-> c]>>
  IN [posts |-> (IF removed THEN Update(NoClass) ELSE <<>>)
                  \o (IF added THEN Update(cls) ELSE <<>>),
      refCnt |-> IF added THEN updateNeighborClassID(left, new.node.loc) ELSE left,
      failed |-> removed /\ refs[old.node.loc] = 0]

\* The update thread applies a batch and tells the observers, in the order of
\* their addresses.  What is queued after the batch was taken waits.
RunUpdates ==
  /\ ~aborted
  /\ \E n \in 1 .. Len(updates) :
       LET batch == SubSeq(updates, 1, n)
           new == applyUpdates(SwitchState, batch)
       IN /\ \A i \in 1 .. n - 1 : allowsCoalescing(updates[i])
          /\ updates' = SubSeq(updates, n + 1, Len(updates))
          /\ \E hit \in BOOLEAN, cls \in Classes :
               LET neighbors == stateUpdated(SwitchState, new, hit)
                   lookup == processNeighborUpdates(SwitchState, new, refCnt, cls)
               IN /\ posted' \in {posted \o neighbors \o lookup.posts,
                                  posted \o lookup.posts \o neighbors}
                  /\ refCnt' = lookup.refCnt
                  /\ aborted' = (new.died \/ lookup.failed)
          /\ config' = new.config
          /\ table' = new.node
          /\ waiting' = (waiting /\ ~\E i \in 1 .. n : batch[i].op = "remove" /\ batch[i].blocking)
  /\ UNCHANGED <<family, cache, configs, flaps>>

\* applyConfig() waits for its update, so only one is queued at a time.
ChangeConfig ==
  /\ ~aborted /\ Len(updates) < MaxUpdates /\ configs + flaps < MaxChanges
  /\ \A i \in DOMAIN updates : updates[i].op # "config"
  /\ \E new \in {[config EXCEPT !.vlan = ~@], [config EXCEPT !.subnet = ~@]}
                  \cup {[config EXCEPT !.intf = i] : i \in Interfaces \ {config.intf}} :
       updates' = Append(updates, [op |-> "config", config |-> new])
  /\ configs' = configs + 1
  /\ UNCHANGED <<family, config, table, posted, cache, refCnt, waiting, flaps, aborted>>

LinkStateChanged ==
  /\ ~aborted /\ Len(updates) < MaxUpdates /\ configs + flaps < MaxChanges
  /\ \E p \in Ports :
       updates' = Append(updates, [op |-> "port", port |-> p, up |-> ~config.up[p]])
  /\ flaps' = flaps + 1
  /\ UNCHANGED <<family, config, table, posted, cache, refCnt, waiting, configs, aborted>>

Next ==
  \/ RunPosted \/ TimeoutExpired \/ Post \/ RunUpdates \/ ChangeConfig \/ LinkStateChanged

\* The first configuration is queued; after a warm boot the tables of its VLANs
\* are not empty, and LookupClassUpdater counts the classes in them.
Init ==
  /\ family \in Families
  /\ \E node \in EntryFields \cup {NoNode} :
       LET full == [vlan |-> TRUE, intf |-> CHOOSE i \in Interfaces : TRUE,
                    subnet |-> TRUE, up |-> [p \in Ports |-> TRUE]]
           none == [config |-> [full EXCEPT !.vlan = FALSE], node |-> NoNode]
           first == [config |-> full, node |-> node]
           counted == [l \in Locations |-> IF node.loc = l /\ node.cls # NoClass THEN 1 ELSE 0]
       IN /\ node # NoNode => node.intf = full.intf /\ node.pending = (node.loc = NoLocation)
          /\ node.cls # NoClass => node.loc \in Locations /\ PortOf[node.loc] \in ClassPorts
          /\ config = full
          /\ table = node
          /\ \E hit \in BOOLEAN, cls \in Classes :
               LET neighbors == stateUpdated(none, first, hit)
                   lookup == processNeighborUpdates(none, first, counted, cls)
               IN /\ posted \in {neighbors \o lookup.posts, lookup.posts \o neighbors}
                  /\ refCnt = lookup.refCnt
  /\ updates = <<>>
  /\ cache = NoCache
  /\ waiting = FALSE
  /\ configs = 0
  /\ flaps = 0
  /\ aborted = FALSE

\* Each thread goes on, and a timeout that is set fires.  WF(RunUpdates),
\* SF(RunPosted) and SF(TimeoutExpired), with ENABLED spelled out.
Fairness ==
  /\ []<>(aborted \/ updates = <<>>) \/ []<><<RunUpdates>>_vars
  /\ []<>(CanRun /\ posted # <<>>) => []<><<RunPosted>>_vars
  /\ []<>(CanRun /\ cache.entry.timer) => []<><<TimeoutExpired>>_vars

Spec == Init /\ [][Next]_vars /\ Fairness

-----------------------------------------------------------------------------
(* Properties *)

\* An entry in the cache has its timeout set, or a function posted that sets it:
\* whatever packets, flushes and timeouts cross, no entry stays for ever unnoticed
\* (NeighborCacheEntry::enter(), process(), scheduleNextUpdate()).
TimerArmed ==
  ~aborted /\ cache.entry # NoEntry =>
    cache.entry.timer \/ \E i \in DOMAIN posted : posted[i].op = "schedule"

\* Once the closures queued have run, the node in the SwitchState is at the
\* location, on the interface and in the class that the cache has for the address,
\* and there is none if the cache has none: each change of the cache queues the
\* closure that repeats it.  (While the VLAN's configuration does not change.)
TableFollowsCache ==
  configs = 0 /\ ~aborted /\ cache.exists =>
    [applyUpdates(SwitchState, updates).node EXCEPT !.pending = FALSE]
      = [cache.entry.fields EXCEPT !.pending = FALSE]

\* An entry is given up after exactly the solicitations that its 8 bit counter can
\* count down, neither sooner nor later, whatever hits, answers and flushes came
\* before: as many as are configured if the number is less than 256, and 44 for the
\* default of 300 (NeighborCacheEntry::enter(), probeIfProbesLeft(), probesLeft_).
ExpiredAfterItsProbes ==
  [][cache.entry # NoEntry /\ cache'.entry = NoEntry /\ TimeoutExpired =>
       cache.entry.sent = uint8(maxNeighborProbes)]_vars

\* An entry does not stay INCOMPLETE, however many packets are sent to the
\* neighbour: it answers, or the probes run out and the entry is flushed
\* (setPendingEntry(), processEntry(), flushEntry()).
PendingResolves ==
  cache.entry.state = "INCOMPLETE" ~> (cache.entry.state # "INCOMPLETE" \/ aborted)

\* While no configuration changes, no closure meets a VLAN or a cache that is gone
\* (flushEntryFromSwitchState(), updateEntryClassID()) and no timeout fires on an
\* entry that has expired (timeoutExpired() is noexcept).  What may end the
\* process is a function posted by enter() for an entry that a flush destroyed,
\* or LookupClassUpdater taking away a use of a class that it has not counted.
SteadyVlanSurvives ==
  [][configs = 0 /\ ~aborted /\ aborted' =>
       \/ posted # <<>> /\ Head(posted).op = "dangling" /\ posted' = Tail(posted)
       \/ \E l \in Locations : refCnt'[l] < 0]_vars
=============================================================================
