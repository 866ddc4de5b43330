------------------------------ MODULE TunManager ------------------------------
(***************************************************************************)
(* TunManager keeps a tun interface of the host for every interface of the *)
(* SwitchState: link, addresses, a routing table with default routes, and  *)
(* a source routing rule per address.  It is told of states on the update  *)
(* thread and works on the thread of packetTxEventBase_.  What it has      *)
(* programmed (kernel) outlives the process; what it knows of it (intfs)   *)
(* does not and is probed again, without the rules and the link's status.  *)
(*                                                                         *)
(* The kernel is external and modelled from what the code and its comments *)
(* say of it: rules pile up, a link that goes down loses its routes, and a *)
(* v4 address takes its secondaries with it when it is deleted, the ones   *)
(* of its subnet that were added after it (SwSwitch.cpp:531).  What the    *)
(* comments leave open is chosen at the start: whether a link that is down *)
(* also loses its v6 addresses and refuses new ones (strictV6).  A system  *)
(* call fails only for such a reason; a process that ends in the middle    *)
(* stands for other failures.                                              *)
(***************************************************************************)
EXTENDS Integers, Sequences, SequencesExt, TLC

CONSTANTS
  Interfaces,   \* interface IDs
  Ips,          \* addresses, numbered in the order of IPAddress::operator<,
                \* the v4 ones by their value
  V6,           \* those that are v6
  LinkLocal,    \* those that get no source routing rule
  Ports,
  PortsOf,      \* the ports in the VLAN of each interface
  Configs,      \* interfaces a config may have: ID -> [virtual, addrs]
  MaxChanges,   \* bound: state updates
  MaxStarts     \* bound: starts of the process

VARIABLES
  st,           \* the SwitchState: its interfaces and the ports that are up
  phase,        \* of the process; "init" until the manager is registered
  notify,       \* setStateInternal() is done, notifyStateObservers() is not
  posted,       \* functions waiting in packetTxEventBase_
  intfs,        \* intfs_: ID -> [status, addrs]
  numSyncs,     \* whether sync() has run
  kernel,
  lost,         \* history: interfaces with addresses this process has lost track of
  torn,         \* history: interfaces with rules no process knows of any more
  changes, starts

vars == <<st, phase, notify, posted, intfs, numSyncs, kernel, lost, torn, changes, starts>>

\* TunManager::getTableId()
getTableId(ifID) ==
  IF ifID >= 4000 THEN ifID - 4000 + 201
  ELSE IF ifID >= 2000 THEN ifID - 2000 + 1
  ELSE 250 - (ifID - 10)

\* The CHECKs of getTableId(), and interfaces that do not share a table
ASSUME TableIds ==
  /\ \A i \in Interfaces : getTableId(i) \in 1 .. 253
  /\ \A i, j \in Interfaces : i # j => getTableId(i) # getTableId(j)

ASSUME Inputs ==
  /\ Ips \subseteq Nat /\ V6 \subseteq Ips /\ LinkLocal \subseteq Ips
  /\ PortsOf \in [Interfaces -> SUBSET Ports]
  /\ \A c \in Configs : DOMAIN c \subseteq Interfaces

sorted(S) == SetToSortSeq(S, <)

-----------------------------------------------------------------------------
(* The kernel.                                                             *)

\* rules counts the source routing rules per table and address, secondary has
\* the addresses that another one was there before, and routed the interfaces
\* whose table has both default routes.
emptyKernel ==
  [links |-> {}, up |-> {}, addrs |-> [i \in Interfaces |-> {}],
   secondary |-> [i \in Interfaces |-> {}], routed |-> {},
   rules |-> [i \in Interfaces |-> [a \in Ips |-> 0]]]

\* Whether the kernel does what op asks for
allowed(k, op) ==
  CASE op.do = "rule-"   -> k.rules[op.i][op.ip] > 0
    [] op.do = "addr-"   -> <<op.ip, op.mask>> \in k.addrs[op.i]
    [] op.do = "addr+"   -> ~(k.strictV6 /\ op.ip \in V6 /\ op.i \notin k.up)
    [] OTHER             -> TRUE

sameSubnet(x, y) ==
  /\ {x[1], y[1]} \cap V6 = {} /\ x[2] = y[2]
  /\ x[1] \div 2^(32 - x[2]) = y[1] \div 2^(32 - x[2])

primaries(k, i) == k.addrs[i] \ k.secondary[i]

\* The addresses that go with the one op deletes
secondariesOf(k, op) ==
  {y \in k.secondary[op.i] : /\ op.do = "addr-"
                             /\ <<op.ip, op.mask>> \in primaries(k, op.i)
                             /\ sameSubnet(<<op.ip, op.mask>>, y)}

addAddress(k, i, x) ==
  [k EXCEPT !.addrs[i] = @ \cup {x},
            !.secondary[i] = @ \cup {z \in {x} \ k.addrs[i] :
                                       \E y \in primaries(k, i) : sameSubnet(y, z)}]

deleteAddresses(k, i, S) == [k EXCEPT !.addrs[i] = @ \ S, !.secondary[i] = @ \ S]

exec(k, op) ==
  CASE op.do = "rule+"   -> [k EXCEPT !.rules[op.i][op.ip] = @ + 1]
    [] op.do = "rule-"   -> [k EXCEPT !.rules[op.i][op.ip] = @ - 1]
    [] op.do = "addr+"   -> addAddress(k, op.i, <<op.ip, op.mask>>)
    [] op.do = "addr-"   -> deleteAddresses(k, op.i, {<<op.ip, op.mask>>} \cup secondariesOf(k, op))
    [] op.do = "routes+" -> [k EXCEPT !.routed = @ \cup ({op.i} \cap k.up)]
    [] op.do = "routes-" -> [k EXCEPT !.routed = @ \ {op.i}]
    [] op.do = "up"      -> [k EXCEPT !.up = @ \cup {op.i}]
    [] op.do = "down"    -> [deleteAddresses(k, op.i, {x \in k.addrs[op.i] : k.strictV6 /\ x[1] \in V6})
                               EXCEPT !.up = @ \ {op.i}, !.routed = @ \ {op.i}]
    [] op.do = "link+"   -> [k EXCEPT !.links = @ \cup {op.i}]
    [] op.do = "link-"   -> [deleteAddresses(k, op.i, k.addrs[op.i])
                               EXCEPT !.links = @ \ {op.i}, !.up = @ \ {op.i}, !.routed = @ \ {op.i}]

\* The kernel after ops, or before the first that fails, with what the
\* SCOPE_FAIL blocks around that one do, and the secondaries that went
run(k, ops) ==
  LET after[n \in 0 .. Len(ops)] ==
        IF n = 0 THEN [k |-> k, failed |-> <<>>, undo |-> <<>>, dropped |-> {}]
        ELSE LET r == after[n - 1]
                 op == ops[n]
             IN  IF r.failed # <<>> THEN r
                 ELSE IF ~allowed(r.k, op) THEN [r EXCEPT !.failed = <<op>>, !.undo = op.undo]
                 ELSE [r EXCEPT !.k = exec(@, op),
                                !.dropped = @ \cup {<<op.i, y>> : y \in secondariesOf(r.k, op)}]
  IN  after[Len(ops)]

-----------------------------------------------------------------------------
(* The system calls of the functions of TunManager, in their order.        *)

Op(do, i, ip, mask, undo) == [do |-> do, i |-> i, ip |-> ip, mask |-> mask, undo |-> undo]

OpOn(do, i) == <<Op(do, i, 0, 0, <<>>)>>

addRemoveSourceRouteRule(i, ip, do) ==
  IF ip \in LinkLocal THEN <<>> ELSE <<Op(do, i, ip, 0, <<>>)>>

addTunAddress(i, ip, mask) ==
  addRemoveSourceRouteRule(i, ip, "rule+")
    \o <<Op("addr+", i, ip, mask, addRemoveSourceRouteRule(i, ip, "rule-"))>>

removeTunAddress(i, ip, mask) ==
  addRemoveSourceRouteRule(i, ip, "rule-")
    \o <<Op("addr-", i, ip, mask, addRemoveSourceRouteRule(i, ip, "rule+"))>>

setIntfStatus(i, status) == OpOn(IF status THEN "up" ELSE "down", i)

\* for each address in order
forEach(ips, ops(_)) == FoldLeft(LAMBDA s, ip : s \o ops(ip), <<>>, sorted(ips))

\* Mutant: addresses of a new interface get no source routing rule.
addNewIntfUnruled(i, new) ==
  OpOn("link+", i) \o setIntfStatus(i, new.status) \o OpOn("routes+", i)
    \o forEach(DOMAIN new.addrs, LAMBDA ip : <<Op("addr+", i, ip, new.addrs[ip], <<>>)>>)

\* A link made by the constructor of TunIntf is deleted if a later step throws.
addNewIntf(i, new) ==
  LET later == setIntfStatus(i, new.status) \o OpOn("routes+", i)
                 \o forEach(DOMAIN new.addrs, LAMBDA ip : addTunAddress(i, ip, new.addrs[ip]))
  IN  OpOn("link+", i)
        \o [n \in DOMAIN later |-> [later[n] EXCEPT !.undo = @ \o OpOn("link-", i)]]

removeIntf(i, old) ==
  forEach(DOMAIN old.addrs, LAMBDA ip : addRemoveSourceRouteRule(i, ip, "rule-"))
    \o OpOn("routes-", i) \o OpOn("link-", i)

applyInterfaceAddrChanges(i, old, new) ==
  forEach(DOMAIN old \cup DOMAIN new,
    LAMBDA ip :
      IF ip \notin DOMAIN new THEN removeTunAddress(i, ip, old[ip])
      ELSE IF ip \notin DOMAIN old THEN addTunAddress(i, ip, new[ip])
      ELSE IF old[ip] = new[ip] THEN <<>>
      ELSE removeTunAddress(i, ip, old[ip]) \o addTunAddress(i, ip, new[ip]))

\* Mutant: what a link lost by going down is not added again.
changeIntfKeeping(i, old, new) ==
  (IF old.status # new.status THEN setIntfStatus(i, new.status) ELSE <<>>)
    \o (IF new.status THEN applyInterfaceAddrChanges(i, old.addrs, new.addrs) ELSE <<>>)

\* Mutant: it is added again with its source routing rules.
changeIntfRuled(i, old, new) ==
  (IF old.status # new.status THEN setIntfStatus(i, new.status) ELSE <<>>)
    \o (IF ~old.status /\ new.status
        THEN OpOn("routes+", i)
               \o forEach(DOMAIN new.addrs, LAMBDA ip : addTunAddress(i, ip, new.addrs[ip]))
        ELSE <<>>)
    \o (IF new.status THEN applyInterfaceAddrChanges(i, old.addrs, new.addrs) ELSE <<>>)

changeIntf(i, old, new) ==
  (IF old.status # new.status THEN setIntfStatus(i, new.status) ELSE <<>>)
    \o (IF ~old.status /\ new.status
        THEN OpOn("routes+", i)
               \o forEach(DOMAIN new.addrs, LAMBDA ip : <<Op("addr+", i, ip, new.addrs[ip], <<>>)>>)
        ELSE <<>>)
    \o (IF new.status THEN applyInterfaceAddrChanges(i, old.addrs, new.addrs) ELSE <<>>)

\* TunManager::getInterfaceStatus(): up if virtual or if a port is
getInterfaceStatus(s, i) == s.intfs[i].virtual \/ PortsOf[i] \cap s.up # {}

newIntfToInfo(s) ==
  [i \in DOMAIN s.intfs |-> [status |-> getInterfaceStatus(s, i), addrs |-> s.intfs[i].addrs]]

\* TunManager::applyChanges() over the interfaces
syncOps(old, new) ==
  FoldLeft(LAMBDA ops, i :
             ops \o (IF i \notin DOMAIN new THEN removeIntf(i, old[i])
                     ELSE IF i \notin DOMAIN old THEN addNewIntf(i, new[i])
                     ELSE changeIntf(i, old[i], new[i])),
           <<>>, sorted(DOMAIN old \cup DOMAIN new))

-----------------------------------------------------------------------------
(* The steps.                                                              *)

Init ==
  /\ st = [intfs |-> <<>>, up |-> {}]
  /\ phase = "down" /\ notify = FALSE /\ posted = <<>>
  /\ intfs = <<>> /\ numSyncs = 0
  /\ \E strict \in BOOLEAN : kernel = emptyKernel @@ [strictV6 |-> strict]
  /\ lost = {} /\ torn = {} /\ changes = 0 /\ starts = 0

\* The process is gone, and with it all but the kernel's state. The next one
\* finds the addresses there are, but not the rules; those of the interfaces in
\* cut were just being changed.
exited(cut) ==
  /\ phase' = "down" /\ notify' = FALSE /\ posted' = <<>> /\ intfs' = <<>> /\ numSyncs' = 0
  /\ lost' = {} /\ torn' = torn \cup lost \cup cut

\* TunIntf::addAddress() throws on an address it already has.
probeThrows(k) ==
  \E i \in k.links : \E x, y \in k.addrs[i] : x # y /\ x[1] = y[1]

\* What doProbe() finds: every link as DOWN, with its addresses
probed(k) ==
  [i \in k.links |->
     [status |-> FALSE,
      addrs |-> [ip \in {x[1] : x \in k.addrs[i]} |-> (CHOOSE x \in k.addrs[i] : x[1] = ip)[2]]]]

\* SwSwitch::init() with its probe(), and the first configuration
Start ==
  /\ phase = "down" /\ starts < MaxStarts
  /\ ~probeThrows(kernel)
  /\ \E c \in Configs, up \in SUBSET Ports : st' = [intfs |-> c, up |-> up]
  /\ phase' = "init" /\ intfs' = probed(kernel)
  /\ starts' = starts + 1
  /\ UNCHANGED <<notify, posted, numSyncs, kernel, lost, torn, changes>>

\* startObservingUpdates(), which runs on the update thread
StartObservingUpdates ==
  /\ phase = "init" /\ ~notify
  /\ phase' = "observing"
  /\ UNCHANGED <<st, notify, posted, intfs, numSyncs, kernel, lost, torn, changes, starts>>

ForceInitialSync ==
  /\ phase = "observing"
  /\ phase' = "running" /\ posted' = Append(posted, [initial |-> TRUE])
  /\ UNCHANGED <<st, notify, intfs, numSyncs, kernel, lost, torn, changes, starts>>

\* The update thread sets a new state, of a config and of ports going up or down ...
SetState ==
  /\ phase # "down" /\ ~notify /\ changes < MaxChanges
  /\ \E c \in Configs, up \in SUBSET Ports :
       /\ st' = [intfs |-> c, up |-> up]
       /\ st' # st
  /\ notify' = TRUE /\ changes' = changes + 1
  /\ UNCHANGED <<phase, posted, intfs, numSyncs, kernel, lost, torn, starts>>

\* ... and then calls stateUpdated() of its observers.
NotifyStateObservers ==
  /\ notify /\ notify' = FALSE
  /\ posted' = IF phase = "init" THEN posted ELSE Append(posted, [initial |-> FALSE, state |-> st])
  /\ UNCHANGED <<st, phase, intfs, numSyncs, kernel, lost, torn, changes, starts>>

\* The interfaces whose new addresses are taken over and not programmed
skipped(old, new) ==
  {i \in DOMAIN old \cap DOMAIN new : ~new[i].status /\ old[i].addrs # new[i].addrs}

\* The function forceInitialSync() posts does nothing after another sync.
syncs(f) == f.initial => numSyncs = 0

stateOf(f) == IF f.initial THEN st ELSE f.state

opsOf(f) == syncOps(intfs, newIntfToInfo(stateOf(f)))

\* packetTxEventBase_ runs the next function: TunManager::sync(). What it throws
\* ends the process, with or without unwinding the stack.
RunPosted ==
  /\ posted # <<>>
  /\ LET f == Head(posted)
         new == newIntfToInfo(stateOf(f))
         result == run(kernel, opsOf(f))
     IN  IF ~syncs(f)
         THEN posted' = Tail(posted) /\ UNCHANGED <<phase, notify, intfs, numSyncs, kernel, lost, torn>>
         ELSE IF result.failed = <<>>
         THEN /\ posted' = Tail(posted) /\ intfs' = new /\ numSyncs' = 1 /\ kernel' = result.k
              /\ lost' = lost \cup skipped(intfs, new) \cup {d[1] : d \in result.dropped}
              /\ UNCHANGED <<phase, notify, torn>>
         ELSE /\ kernel' \in {result.k, run(result.k, result.undo).k}
              /\ exited({result.failed[1].i} \cup {d[1] : d \in result.dropped})
  /\ UNCHANGED <<st, changes, starts>>

\* The process ends, by stop() or not: tun interfaces are persistent.
Exit ==
  /\ phase # "down" /\ exited({})
  /\ UNCHANGED <<st, kernel, changes, starts>>

\* ... or in the middle of a sync().
ExitInSync ==
  /\ posted # <<>> /\ syncs(Head(posted))
  /\ LET ops == opsOf(Head(posted))
     IN  \E n \in 1 .. Len(ops) - 1 :
           LET result == run(kernel, SubSeq(ops, 1, n))
           IN  /\ result.failed = <<>>
               /\ kernel' = result.k
               /\ exited(({ops[n].i} \cap {ops[n + 1].i}) \cup {d[1] : d \in result.dropped})
  /\ UNCHANGED <<st, changes, starts>>

Next ==
  \/ Start \/ StartObservingUpdates \/ ForceInitialSync \/ SetState
  \/ NotifyStateObservers \/ RunPosted \/ Exit \/ ExitInSync

Spec == Init /\ [][Next]_vars

-----------------------------------------------------------------------------

atRest == phase = "running" /\ ~notify /\ posted = <<>>

wanted == newIntfToInfo(st)

\* At rest the host has a link for exactly the interfaces of the last state,
\* although updates before startObservingUpdates() are not seen and the initial
\* sync reads whatever state there is when it runs; each that is up has its
\* addresses and default routes, whatever a sync() before left undone and
\* whatever another process did. Left out are interfaces of which this process
\* has lost an address: setAddresses() takes over a change made while the
\* interface is down, and nothing programs it; and a deleted address takes its
\* secondaries with it, which sync() does not track (SwSwitch.cpp:531).
KernelFollowsState ==
  atRest =>
    /\ kernel.links = DOMAIN wanted
    /\ \A i \in DOMAIN wanted \ lost : wanted[i].status =>
         /\ i \in kernel.up \cap kernel.routed
         /\ kernel.addrs[i] = {<<ip, wanted[i].addrs[ip]>> : ip \in DOMAIN wanted[i].addrs}

\* At rest an address has exactly one source routing rule and no other has any:
\* they do not pile up (the NOTE in sync()), and none outlives its interface,
\* however often the agent restarts without having seen one. Left out are the
\* interfaces above, those a process ended in the middle of changing, and
\* addresses the kernel drops when a link goes down, whose rules a restart then
\* forgets.
OneRulePerAddress ==
  atRest =>
    \A i \in Interfaces \ (lost \cup torn) :
      \A ip \in Ips \ (IF kernel.strictV6 THEN V6 ELSE {}) :
        kernel.rules[i][ip] =
          IF i \in DOMAIN wanted /\ ip \in DOMAIN wanted[i].addrs \ LinkLocal THEN 1 ELSE 0

\* A sync() throws, which ends the process, only at an address or a rule of an
\* interface as above, at a secondary that its primary took along earlier in
\* this sync() (the "errors" of SwSwitch.cpp:531), at a v6 address of a new
\* interface that is down, or at one that the kernel dropped while the
\* interface was down.
ThrowsOnlyOverKnownCauses ==
  posted # <<>> /\ syncs(Head(posted)) =>
    LET result == run(kernel, opsOf(Head(posted)))
    IN  \A f \in {result.failed[n] : n \in DOMAIN result.failed} :
          \/ f.i \in lost \cup torn
          \/ f.do = "addr-" /\ <<f.i, <<f.ip, f.mask>>>> \in result.dropped
          \/ /\ kernel.strictV6 /\ f.ip \in V6
             /\ \/ f.do = "addr+" /\ f.i \notin DOMAIN intfs
                \/ f.do = "addr-" /\ f.i \in DOMAIN intfs /\ ~intfs[f.i].status

=============================================================================
