--------------------------------- MODULE Rib ---------------------------------
(***************************************************************************)
(* The standalone RIB (rib/RoutingInformationBase.cpp) between the threads *)
(* that use it.  A thrift client thread takes the RIB's write lock, changes *)
(* and resolves the route tables, and with the lock held waits for the     *)
(* update thread of SwSwitch to compute the FIB from them.  A config       *)
(* reload is a state update itself: the update thread takes the RIB's lock *)
(* inside applyThriftConfig.                                               *)
(***************************************************************************)
EXTENDS RouteUpdater

CONSTANTS
  Clients,     \* ClientIDs of the thrift clients, one calling thread each
  Requests,    \* [vrf, reset, toAdd, toDelete]: what a client may ask for;
               \* vrf is a RouterID
  Configs,     \* [intfs, statics]: the configurations a reload may find
  BootConfig,  \* the one applied before the thrift server starts
  MaxCalls     \* bound on the update() calls and reloads of a behaviour

VARIABLES
  routeTables,     \* synchronizedRouteTables_: tables of each VRF in the RIB
  lock,            \* the thrift client holding its write lock, or NoClient
  waiting,         \* clients inside updateStateBlocking
  pendingUpdates,  \* the state updates not yet taken by the update thread
  batch,           \* the ones it has taken and not run
  ran,             \* the ones it has run, whose callers still wait
  newState,        \* the state the batch has built: [fibs, intfs]
  state,           \* the state SwSwitch holds
  aborted,         \* a CHECK has failed: the agent is down
  calls            \* calls so far

vars == <<routeTables, lock, waiting, pendingUpdates, batch, ran, newState,
          state, aborted, calls>>

---------------------------------------------------------------------------
(* ForwardingInformationBaseUpdater                                        *)

toFibRoute(r) == [fwd |-> r.fwd, connected |-> isConnected(r)]

(* A mutant: a route in the FIB is kept although it now forwards elsewhere. *)
createFibKeeping(t, fib) ==
  [p \in {q \in DOMAIN t.value : isResolved(t.value[q])} |->
     IF p \in DOMAIN fib THEN fib[p] ELSE toFibRoute(t.value[p])]

createUpdatedFib(t, fib) ==
  [p \in {q \in DOMAIN t.value : isResolved(t.value[q])} |->
     IF p \in DOMAIN fib /\ fib[p].fwd = t.value[p].fwd THEN fib[p]
     ELSE toFibRoute(t.value[p])]

EmptyFib == [v4 |-> EmptyFunction, v6 |-> EmptyFunction]

fibUpdater(tables, fib) ==
  [fam \in {"v4", "v6"} |-> createUpdatedFib(tables[fam], fib[fam])]

---------------------------------------------------------------------------
(* ConfigApplier: the routes of VRF vrf after config cfg, whose statics    *)
(* are the routes to the CPU, then to null, then with next hops.           *)

addStatic(tables, s) == addRoute(tables, s.fam, s.p, STATIC_ROUTE, s.entry)
addInterface(tables, i) == addInterfaceRoute(tables, i.fam, i.p, i.addr, i.intf)
ofVrf(seq, vrf) == SelectSeq(seq, LAMBDA x : x.vrf = vrf)

updateRib(tables, cfg, vrf) ==
  LET internal == addRoute(addRoute(tables, "v4", <<>>, STATIC_INTERNAL, NoForward),
                           "v6", <<>>, STATIC_INTERNAL, NoForward)
      static == FoldLeft(addStatic, removeAllRoutesForClient(internal, STATIC_ROUTE),
                         ofVrf(cfg.statics, vrf))
      direct == FoldLeft(addInterface, removeAllRoutesForClient(static, INTERFACE_ROUTE),
                         ofVrf(cfg.intfs, vrf))
  IN updateDone(addLinkLocalRoutes(direct))

configuredVrfs(cfg) == {cfg.intfs[i].vrf : i \in DOMAIN cfg.intfs}

(* reconfigure: constructRouteTables drops the VRFs without interfaces and *)
(* gives the new ones empty tables.                                        *)
reconfigure(tables, cfg) ==
  [v \in configuredVrfs(cfg) |->
     updateRib(IF v \in DOMAIN tables THEN tables[v] ELSE EmptyTables, cfg, v)]

(* The state ThriftConfigApplier::run builds, reconfigured being the       *)
(* tables reconfigure left.                                                *)
configState(st, cfg, reconfigured) ==
  [fibs |-> [v \in configuredVrfs(cfg) |->
              fibUpdater(reconfigured[v],
                         IF v \in DOMAIN st.fibs THEN st.fibs[v] ELSE EmptyFib)],
   intfs |-> cfg.intfs]

Init ==
  LET tables == reconfigure(EmptyFunction, BootConfig)
      booted == configState([fibs |-> EmptyFunction, intfs |-> <<>>], BootConfig, tables)
  IN /\ routeTables = tables
     /\ lock = NoClient
     /\ waiting = {}
     /\ pendingUpdates = <<>>
     /\ batch = <<>>
     /\ ran = {}
     /\ newState = booted
     /\ state = booted
     /\ aborted = FALSE
     /\ calls = 0

---------------------------------------------------------------------------
(* The thrift client threads                                               *)

(* UnresolvedNextHop's constructor throws for a link-local address. *)
unscoped(nh) == nh.intf = NoIntf /\ nh.fam = "v6" /\ IsPrefix(LinkLocalPrefix, nh.addr)

(* RouteNextHopEntry::from *)
entryFrom(route) ==
  IF route.nhops = {} THEN Drop(route.distance)
  ELSE Entry("NEXTHOPS", route.nhops, route.distance)

(* The routes toAdd that are added before one of them throws. *)
addedBeforeThrow(toAdd) ==
  LET bad == {i \in DOMAIN toAdd : \E nh \in toAdd[i].nhops : unscoped(nh)}
  IN IF bad = {} THEN toAdd ELSE SubSeq(toAdd, 1, Min(bad) - 1)

(* The tables of update() before updateDone. *)
changedTables(tables, client, req) ==
  LET kept == IF req.reset THEN removeAllRoutesForClient(tables, client) ELSE tables
      added == FoldLeft(LAMBDA tb, r : addRoute(tb, r.fam, r.p, client, entryFrom(r)),
                        kept, addedBeforeThrow(req.toAdd))
  IN IF addedBeforeThrow(req.toAdd) # req.toAdd THEN added
     ELSE FoldLeft(LAMBDA tb, r : delRoute(tb, r.fam, r.p, client), added, req.toDelete)

(* update(): up to and with the call of updateStateBlocking, which leaves  *)
(* the lock held.  An exception gives the lock back with the tables as     *)
(* changed so far: neither resolved nor sent to the FIB.                   *)
Update(c, req) ==
  /\ ~aborted /\ lock = NoClient /\ c \notin waiting /\ calls < MaxCalls
  /\ req.vrf \in DOMAIN routeTables
  /\ calls' = calls + 1
  /\ LET changed == changedTables(routeTables[req.vrf], c, req)
     IN IF addedBeforeThrow(req.toAdd) # req.toAdd
        THEN /\ routeTables' = [routeTables EXCEPT ![req.vrf] = changed]
             /\ UNCHANGED <<lock, waiting, pendingUpdates>>
        ELSE /\ routeTables' = [routeTables EXCEPT ![req.vrf] = updateDone(changed)]
             /\ lock' = c
             /\ waiting' = waiting \cup {c}
             /\ pendingUpdates' = Append(pendingUpdates,
                                    [kind |-> "fib", client |-> c, vrf |-> req.vrf])
  /\ UNCHANGED <<batch, ran, newState, state, aborted>>

(* updateStateBlocking has returned: update() gives the lock back. *)
UpdateReturns(c) ==
  /\ ~aborted /\ lock = c /\ c \notin waiting
  /\ lock' = NoClient
  /\ UNCHANGED <<routeTables, waiting, pendingUpdates, batch, ran, newState,
                 state, aborted, calls>>

(* reloadConfig: queues the config update, one reload at a time. *)
ReloadConfig(cfg) ==
  /\ ~aborted /\ calls < MaxCalls
  /\ \A u \in ToSet(pendingUpdates) \cup ToSet(batch) \cup ran : u.kind # "config"
  /\ pendingUpdates' = Append(pendingUpdates, [kind |-> "config", cfg |-> cfg])
  /\ calls' = calls + 1
  /\ UNCHANGED <<routeTables, lock, waiting, batch, ran, newState, state, aborted>>

---------------------------------------------------------------------------
(* The update thread                                                       *)

(* handlePendingUpdates takes every pending update: all of them coalesce. *)
TakeUpdates ==
  /\ ~aborted /\ batch = <<>> /\ ran = {} /\ pendingUpdates # <<>>
  /\ batch' = pendingUpdates
  /\ pendingUpdates' = <<>>
  /\ newState' = state
  /\ UNCHANGED <<routeTables, lock, waiting, ran, state, aborted, calls>>

(* The FIB update of a client: CHECK(previousFibContainer), then the FIB   *)
(* from the RIB's tables, read by reference.                               *)
RunFibUpdate ==
  /\ ~aborted /\ batch # <<>> /\ Head(batch).kind = "fib"
  /\ LET vrf == Head(batch).vrf
     IN IF vrf \in DOMAIN newState.fibs
        THEN /\ newState' = [newState EXCEPT !.fibs[vrf] =
                               fibUpdater(routeTables[vrf], newState.fibs[vrf])]
             /\ UNCHANGED aborted
        ELSE aborted' = TRUE /\ UNCHANGED newState
  /\ ran' = ran \cup {Head(batch)}
  /\ batch' = Tail(batch)
  /\ UNCHANGED <<routeTables, lock, waiting, pendingUpdates, state, calls>>

(* The config update needs the RIB's lock for reconfigure.  After that the *)
(* config may still be refused with an exception (valid = FALSE), or the   *)
(* applier may report that nothing changed: it looks at interfaces, VRFs   *)
(* and other settings (otherChange), not at what reconfigure did.  In both *)
(* cases the state stays as it was.                                        *)
RunConfigUpdate(valid, otherChange) ==
  /\ ~aborted /\ batch # <<>> /\ Head(batch).kind = "config" /\ lock = NoClient
  /\ LET cfg == Head(batch).cfg
         reconfigured == reconfigure(routeTables, cfg)
         changed == \/ otherChange
                    \/ cfg.intfs # newState.intfs
                    \/ configuredVrfs(cfg) # DOMAIN newState.fibs
     IN /\ routeTables' = reconfigured
        /\ newState' = IF valid /\ changed THEN configState(newState, cfg, reconfigured)
                       ELSE newState
  /\ ran' = ran \cup {Head(batch)}
  /\ batch' = Tail(batch)
  /\ UNCHANGED <<lock, waiting, pendingUpdates, state, aborted, calls>>

(* A mutant: the callers are not woken. *)
ApplyWithoutWaking ==
  /\ ~aborted /\ batch = <<>> /\ ran # {}
  /\ state' = newState
  /\ ran' = {}
  /\ UNCHANGED <<routeTables, lock, waiting, pendingUpdates, batch, newState,
                 aborted, calls>>

(* The batch is applied and the callers of its updates are woken. *)
ApplyUpdates ==
  /\ ~aborted /\ batch = <<>> /\ ran # {}
  /\ state' = newState
  /\ waiting' = waiting \ {u.client : u \in {v \in ran : v.kind = "fib"}}
  /\ ran' = {}
  /\ UNCHANGED <<routeTables, lock, pendingUpdates, batch, newState, aborted, calls>>

Next ==
  \/ \E c \in Clients, req \in Requests : Update(c, req)
  \/ \E c \in Clients : UpdateReturns(c)
  \/ \E cfg \in Configs : ReloadConfig(cfg)
  \/ TakeUpdates
  \/ RunFibUpdate
  \/ \E valid, otherChange \in BOOLEAN : RunConfigUpdate(valid, otherChange)
  \/ ApplyUpdates

Spec == Init /\ [][Next]_vars

(* The update thread runs whenever it can, and so does a woken caller.     *)
(* RanUpdate spells the weak fairness of the two Run actions out: when one *)
(* is enabled is plain, and TLC is slow to find it out from reconfigure.   *)
RanUpdate ==
  LET canRun == ~aborted /\ batch # <<>> /\ (Head(batch).kind = "fib" \/ lock = NoClient)
  IN []<>~canRun \/ []<><<canRun /\ batch' = Tail(batch)>>_vars

Fairness ==
  /\ WF_vars(TakeUpdates)
  /\ RanUpdate
  /\ WF_vars(ApplyUpdates)
  /\ \A c \in Clients : WF_vars(UpdateReturns(c))

FairSpec == Spec /\ Fairness

---------------------------------------------------------------------------
(* Reference definitions                                                   *)

Families == {"v4", "v6"}
InFlight == {u \in ToSet(pendingUpdates) \cup ToSet(batch) \cup ran : u.kind = "fib"}
NodesOf(tables) == {n \in Families \X UNION {DOMAIN tables[f].value : f \in Families} :
                      n[2] \in DOMAIN tables[n[1]].value}
RouteOf(tables, n) == tables[n[1]].value[n[2]]

(* The next hops of n's entry in use that need another route. *)
Recursive(tables, n) ==
  {nh \in getBestEntry(RouteOf(tables, n).multi).nhops : nh.intf = NoIntf}

Via(tables, nh) == <<nh.fam, ReferenceMatch(tables[nh.fam], nh.addr)>>

DependsOn(tables, n) ==
  {Via(tables, nh) : nh \in Recursive(tables, n)} \cap NodesOf(tables)

(* Every route n's resolution may look at, without n unless it loops. *)
RECURSIVE ReachFrom(_, _)
ReachFrom(tables, N) ==
  LET more == N \cup UNION {DependsOn(tables, n) : n \in N}
  IN IF more = N THEN N ELSE ReachFrom(tables, more)
Reaches(tables, n) == ReachFrom(tables, DependsOn(tables, n))
Loops(tables, n) == n \in Reaches(tables, n)

(* Where a loop free route n forwards to: interfaces and addresses, "cpu", *)
(* "drop", or nothing when it cannot be resolved.                          *)
RECURSIVE Destinations(_, _)
Destinations(tables, n) ==
  LET best == getBestEntry(RouteOf(tables, n).multi)
      direct == RouteOf(tables, n).multi.lowest = INTERFACE_ROUTE
      of(nh) == LET m == Via(tables, nh)
                IN IF nh.intf # NoIntf THEN {weightless(nh)}
                   ELSE IF m \notin NodesOf(tables) THEN {}
                   ELSE IF RouteOf(tables, m).multi.lowest = INTERFACE_ROUTE
                        THEN {[weightless(nh) EXCEPT !.intf = d.intf] :
                                d \in Destinations(tables, m).nhops}
                        ELSE Destinations(tables, m).nhops
      actions == {best.action} \cup
                 {Destinations(tables, m).action : m \in DependsOn(tables, n)}
      nhops == UNION {of(nh) : nh \in best.nhops}
  IN [nhops |-> nhops,
      action |-> CASE nhops # {} -> "NEXTHOPS"
                   [] "TO_CPU" \in actions -> "TO_CPU"
                   [] "DROP" \in actions -> "DROP"
                   [] OTHER -> "NONE"]

ForwardsTo(r) ==
  [nhops |-> {weightless(f) : f \in r.fwd.nhops},
   action |-> IF isResolved(r) THEN r.fwd.action ELSE "NONE"]

---------------------------------------------------------------------------
(* Properties                                                              *)

(* When update() hands its tables to the FIB (InFlight), each route that   *)
(* RouteUpdater::resolveOne could resolve without running into a loop      *)
(* forwards exactly where its next hops lead, whatever was resolved before *)
(* or in which order, and no route is left PROCESSING.  A v4 route that    *)
(* depends on v6 routes is left out: updateDone resolves it first.         *)
ResolutionIsExact ==
  \A u \in InFlight :
    LET tables == routeTables[u.vrf]
    IN \A n \in NodesOf(tables) :
         LET reach == Reaches(tables, n)
         IN /\ "PROCESSING" \notin RouteOf(tables, n).flags
            /\ \/ \E m \in reach \cup {n} : Loops(tables, m)
               \/ n[1] = "v4" /\ \E m \in reach : m[1] = "v6"
               \/ ForwardsTo(RouteOf(tables, n)) = Destinations(tables, n)

(* UCMP: when every next hop of a route has a weight and forwards          *)
(* somewhere with weights, the weights combineWeights and optimizeWeights  *)
(* give the route split the traffic as its next hops' weights say, each    *)
(* share split again as the route it goes through does.                    *)
SharesArePreserved ==
  \A u \in InFlight :
    LET tables == routeTables[u.vrf]
    IN \A n \in NodesOf(tables) :
         LET r == RouteOf(tables, n)
             hops == getBestEntry(r.multi).nhops
             through(nh) == IF nh.intf # NoIntf THEN {nh}
                            ELSE IF Via(tables, nh) \notin NodesOf(tables) THEN {}
                            ELSE forwardVia(RouteOf(tables, Via(tables, nh)), nh)
             scale == FoldSet(LAMBDA nh, x : x * totalWeight(through(nh)), 1, hops)
             part(nh, key) == nh.weight * (scale \div totalWeight(through(nh))) *
                                totalWeight({f \in through(nh) : weightless(f) = key})
         IN (/\ isResolved(r) /\ r.fwd.action = "NEXTHOPS"
             /\ n[1] = "v6" \/ \A nh \in hops : nh.fam = "v4"
             /\ \A m \in Reaches(tables, n) \cup {n} : ~Loops(tables, m)
             /\ \A nh \in hops : nh.weight > 0 /\ totalWeight(through(nh)) > 0)
            => \A f \in r.fwd.nhops :
                 f.weight * totalWeight(hops) * scale =
                   totalWeight(r.fwd.nhops) *
                     MapThenSumSet(LAMBDA nh : part(nh, weightless(f)), hops)

(* When the update thread applies a client's FIB update, the FIB it        *)
(* installs is the client's: the resolved routes of the RIB at that moment *)
(* and where they forward to.  The RIB's lock, held by the waiting client, *)
(* is what keeps other clients and configs from changing the tables the    *)
(* updater reads by reference.                                             *)
FibIsTheRibsAtApply ==
  [][\A u \in ran \ ran' :
       (u.kind = "fib" /\ ~aborted) =>
         \A fam \in Families :
           LET t == routeTables[u.vrf][fam]
               fib == state'.fibs[u.vrf][fam]
           IN /\ DOMAIN fib = {p \in DOMAIN t.value : isResolved(t.value[p])}
              /\ \A p \in DOMAIN fib : fib[p].fwd = t.value[p].fwd]_vars

(* As long as no config reload comes, an update that has the RIB gets its  *)
(* FIB update run and its caller woken, and gives the RIB back.            *)
UpdateCompletesWithoutReload ==
  LET reloading == \E u \in ToSet(pendingUpdates) \cup ToSet(batch) : u.kind = "config"
  IN \A c \in Clients : lock = c ~> lock # c \/ aborted \/ reloading

(* RoutingInformationBase.h:43 "update() first acquires exclusive          *)
(* ownership of the RIB and executes the following sequence of actions:    *)
(* ... 3. Updates the FIB synchronously": an update that has the RIB gets  *)
(* its FIB update done and gives the RIB back.                             *)
UpdateCompletes == \A c \in Clients : lock = c ~> lock # c \/ aborted
=============================================================================
