--------------------------------- MODULE Lacp ---------------------------------
(***************************************************************************)
(* Link aggregation as a whole: the controllers of every port, the         *)
(* selection table their Selectors share (a function-local static), the    *)
(* links between ports, and the events LinkAggregationManager posts to the *)
(* LACP event base (fboss/agent/LacpMachines.cpp, LacpController.cpp,      *)
(* LinkAggregationManager.cpp).                                            *)
(*                                                                         *)
(* Each action is one function run by the LACP event base: start of a      *)
(* controller, port up or down, a LACPDU, or a timeout.  LACPDUs come from *)
(* the RX thread and port events from the update thread, so a LACPDU sent  *)
(* before the port went down may be handled after it.                      *)
(*                                                                         *)
(* Faults (a port going down, a lost LACPDU, an epoch that ends without    *)
(* one, no packet buffer, a change of the aggregate) are bounded by        *)
(* MaxFaults, and the changes of aggregates among them by                  *)
(* MaxReconfigurations.                                                    *)
(***************************************************************************)
EXTENDS LacpMachines

CONSTANTS
  Peer,           \* [port -> the port at the other end of its link, or NoPort]
  minLinkCount,   \* [port -> AggregatePort::getMinimumLinkCount() of its aggregate]
  StrangerPDUs,   \* what an unmodelled partner may say: its own info, has it heard us
  MaxFaults,
  MaxReconfigurations

ASSUME LacpAssumption ==
  /\ Peer \in [Ports -> Ports \cup {NoPort}]
  /\ \A p \in Ports : Peer[p] \in Ports => Peer[Peer[p]] = p
  /\ minLinkCount \in [Ports -> Nat \ {0}]
  /\ \A p, q \in Ports : Lag[p] = Lag[q] => minLinkCount[p] = minLinkCount[q]
  /\ StrangerPDUs \subseteq [info : [id : Strangers, state : SUBSET LacpState],
                             heard : BOOLEAN]
  /\ MaxFaults \in Nat
  /\ MaxReconfigurations \in Nat

VARIABLES
  controller,       \* LinkAggregationManager::portToController_, a record per port
  members,          \* the ports that have a controller
  subports,         \* the ports of the aggregates of the SwitchState
  portToSelection,  \* Selector::portToSelection()
  up,               \* Port::OperState::UP, as the last state update had it
  faults,           \* faults so far
  reconfigurations,
  aborted           \* a CHECK or LOG(FATAL) ended the process

vars == <<controller, members, subports, portToSelection, up, faults, reconfigurations, aborted>>

NoLag == [actor |-> Lag[NoPort], partner |-> Lag[NoPort], actorPort |-> NoPort,
          partnerPort |-> NoPort]

NoSelection == [lagID |-> NoLag, state |-> "NONE"]

-----------------------------------------------------------------------------
(* The Selector's functions take and return the part of the state that a   *)
(* handler may change: controllers, selections, and whether a CHECK failed *)

World == [c |-> controller, sel |-> portToSelection, ok |-> TRUE]

\* LinkAggregationGroupID::from: the port is part of it if it is INDIVIDUAL.
LagID(actor, partner) ==
  LET port(info) == IF "AGGREGATABLE" \in info.state THEN NoPort ELSE info.id
  IN [actor |-> Lag[actor.id], partner |-> Lag[partner.id],
      actorPort |-> port(actor), partnerPort |-> port(partner)]

targetLagID(w, p) == LagID(actorInfo(w.c[p]), w.c[p].partnerInfo)

getPortsWithSelection(w, lagID, state) ==
  {q \in Ports : w.sel[q] = [lagID |-> lagID, state |-> state]}

\* LacpController::selected(ports): each port's own selected(), with the
\* controllers looked up first.
signalSelected(w, ports) ==
  [c   |-> [q \in Ports |-> IF q \in ports THEN muxSelected(w.c[q]) ELSE w.c[q]],
   sel |-> [q \in Ports |-> IF q \in ports THEN [w.sel[q] EXCEPT !.state = "SELECTED"]
                                           ELSE w.sel[q]],
   ok  |-> w.ok /\ ports \subseteq members]

\* LacpController::standby(ports)
signalStandby(w, ports) ==
  [c   |-> [q \in Ports |-> IF q \in ports THEN muxStandby(w.c[q]) ELSE w.c[q]],
   sel |-> [q \in Ports |-> IF q \in ports /\ w.sel[q] # NoSelection
                              THEN [w.sel[q] EXCEPT !.state = "STANDBY"] ELSE w.sel[q]],
   ok  |-> w.ok /\ ports \subseteq members]

\* The ports that stay SELECTED keep forwarding, however few they are.
unselectedAlone(w, p) ==
  [w EXCEPT !.c[p] = muxUnselected(@), !.sel[p] = NoSelection]

\* LacpController::unselected: the LAG loses a link, so its other ports go
\* back to STANDBY before this port's mux is told.
unselected(w, p) ==
  LET erased == [w EXCEPT !.sel[p] = NoSelection]
      others == getPortsWithSelection(erased, w.sel[p].lagID, "SELECTED")
      v == IF w.sel[p] = NoSelection THEN w ELSE signalStandby(erased, others)
  IN [v EXCEPT !.c[p] = muxUnselected(@)]

\* isAvailable(controller_.aggregatePortID())
isAvailable(w, p) ==
  \A q \in Ports : w.sel[q] = NoSelection \/ w.sel[q].lagID.actor # Lag[p]

\* insert() does not replace an entry.
insertSelection(w, p) ==
  IF w.sel[p] # NoSelection THEN w
  ELSE [w EXCEPT !.sel[p] = [lagID |-> targetLagID(w, p), state |-> "STANDBY"]]

\* A LAG that another port already belongs to is joined without asking whether
\* the aggregate is available.
canChoose(w, p) ==
  \/ \E q \in Ports : w.sel[q] # NoSelection /\ w.sel[q].lagID = targetLagID(w, p)
  \/ isAvailable(w, p)

\* Selector::select for an aggregatable link: join as STANDBY, and signal
\* every STANDBY port of the LAG once they are exactly minLinkCount.
joinLag(w, p) ==
  LET lagID == targetLagID(w, p)
      v == signalStandby(insertSelection(w, p), {p})
      standbys == getPortsWithSelection(v, lagID, "STANDBY")
  IN IF Cardinality(standbys) = minLinkCount[p] THEN signalSelected(v, standbys) ELSE v

select(w, p) ==
  LET individual == "AGGREGATABLE" \notin w.c[p].partnerInfo.state
                      \/ "AGGREGATABLE" \notin w.c[p].actorState
  IN IF w.sel[p] # NoSelection /\ w.sel[p].lagID = targetLagID(w, p) THEN w
     ELSE IF individual THEN signalSelected(insertSelection(w, p), {p})
     ELSE IF canChoose(w, p) THEN joinLag(w, p) ELSE w

-----------------------------------------------------------------------------
(* The receive machine's states that involve the Selector *)

\* ReceiveMachine::current
current(w, p, lacpdu) ==
  LET partnerWas == w.c[p].partnerInfo
      w1 == [w EXCEPT !.c[p].rx = "CURRENT"]
      w2 == IF SamePartner(w.c[p], lacpdu) THEN w1 ELSE unselected(w1, p)
      needed == updateNTT(w2.c[p], lacpdu)
      restart == activityChanged(w2.c[p], lacpdu)
      w3 == [w2 EXCEPT !.c[p] = recordPDU(@, lacpdu)]
      w4 == select([w3 EXCEPT !.c[p].actorState = @ \ {"EXPIRED"}], p)
      c5 == IF needed THEN ntt(w4.c[p]) ELSE w4.c[p]
      c6 == IF restart THEN startPeriodic(c5) ELSE c5
  IN [w4 EXCEPT !.c[p] = [c6 EXCEPT !.epoch = TRUE]]

\* updateDefaultSelected() always finds another partner than the default one
\* here: expired() has set its SHORT_TIMEOUT.
defaulted(w, p) ==
  LET w1 == [w EXCEPT !.c[p].rx = "DEFAULTED"]
      w2 == IF w.c[p].partnerInfo # DefaultInfo THEN unselected(w1, p) ELSE w1
      c3 == recordDefault(w2.c[p])
  IN [w2 EXCEPT !.c[p] = [c3 EXCEPT !.actorState = @ \ {"EXPIRED"}]]

initialize(w, p) ==
  LET w1 == unselected(w, p)
      c2 == recordDefault(w1.c[p])
  IN [w1 EXCEPT !.c[p] = disabled([c2 EXCEPT !.actorState = @ \ {"EXPIRED"}])]

-----------------------------------------------------------------------------
(* The functions run by the LACP event base *)

Started(p) == p \in members /\ controller[p].rx # "INITIALIZED"

\* A handler that ended in world w.
Becomes(w) ==
  /\ controller' = w.c
  /\ portToSelection' = w.sel
  /\ aborted' = ~w.ok

Fault == faults + reconfigurations < MaxFaults /\ faults' = faults + 1

\* startMachines(): mux, transmit, periodic, receive, selector.
Start(p) ==
  /\ ~aborted /\ p \in members /\ controller[p].rx = "INITIALIZED"
  /\ Becomes(initialize([World EXCEPT !.c[p] = startPeriodic(@)], p))
  /\ UNCHANGED <<members, subports, up, faults, reconfigurations>>

\* stateUpdated() saw the port come up; the CHECK wants rx_ DISABLED.
PortUp(p) ==
  /\ ~aborted /\ ~up[p]
  /\ p \in members => Started(p)
  /\ up' = [up EXCEPT ![p] = TRUE]
  /\ IF p \in members
       THEN Becomes([World EXCEPT !.c[p] = startPeriodic(expired(@)),
                                  !.ok = controller[p].rx = "DISABLED"])
       ELSE UNCHANGED <<controller, portToSelection, aborted>>
  /\ UNCHANGED <<members, subports, faults, reconfigurations>>

\* Selector::portDown: nothing to do without a selection.
selectorPortDown(w, p) == IF w.sel[p] = NoSelection THEN w ELSE unselected(w, p)

PortDown(p) ==
  /\ ~aborted /\ up[p] /\ Fault
  /\ p \in members => Started(p)
  /\ up' = [up EXCEPT ![p] = FALSE]
  /\ IF p \in members
       THEN Becomes(selectorPortDown(
              [World EXCEPT !.c[p] = [disabled(@) EXCEPT !.period = FALSE]], p))
       ELSE UNCHANGED <<controller, portToSelection, aborted>>
  /\ UNCHANGED <<members, subports, reconfigurations>>

\* ReceiveMachine::rx without its early return.
rxAlways(w, p, lacpdu) == current(w, p, lacpdu)

\* ReceiveMachine::rx
rx(w, p, lacpdu) == IF w.c[p].rx = "DISABLED" THEN w ELSE current(w, p, lacpdu)

\* The LACPDU at the head of the peer's wire, taken off it.
Received(p) ==
  /\ ~aborted /\ Started(p)
  /\ Peer[p] \in Ports /\ controller[Peer[p]].wire # << >>
  /\ Becomes(rx([World EXCEPT !.c[Peer[p]].wire = Tail(@)], p,
                Head(controller[Peer[p]].wire)))
  /\ UNCHANGED <<members, subports, up, faults, reconfigurations>>

\* What a partner outside the model says: it has heard this port or not.
StrangerPDU(p, pdu) ==
  [actorInfo |-> pdu.info,
   partnerInfo |-> IF pdu.heard THEN actorInfo(controller[p]) ELSE DefaultInfo]

ReceivedFromStranger(p, pdu) ==
  /\ ~aborted /\ Started(p) /\ Peer[p] = NoPort
  /\ Becomes(rx(World, p, StrangerPDU(p, pdu)))
  /\ UNCHANGED <<members, subports, up, faults, reconfigurations>>

Lose(p) ==
  /\ ~aborted /\ Fault /\ controller[p].wire # << >>
  /\ controller' = [controller EXCEPT ![p].wire = Tail(@)]
  /\ UNCHANGED <<members, subports, portToSelection, up, reconfigurations, aborted>>

\* ReceiveMachine::timeoutExpired; any other state is LOG(FATAL).
ReceiveTimeout(p) ==
  /\ ~aborted /\ p \in members /\ controller[p].epoch /\ Fault
  /\ LET w == [World EXCEPT !.c[p].epoch = FALSE] IN
     CASE controller[p].rx = "CURRENT" -> Becomes([w EXCEPT !.c[p] = expired(@)])
       [] controller[p].rx = "EXPIRED" -> Becomes(defaulted(w, p))
       [] OTHER                        -> Becomes([w EXCEPT !.ok = FALSE])
  /\ UNCHANGED <<members, subports, up, reconfigurations>>

\* A timeout of one of the other machines, which touches its own port only.
OwnPort(p, c) ==
  /\ ~aborted
  /\ controller' = [controller EXCEPT ![p] = c]
  /\ UNCHANGED <<members, subports, portToSelection, up, faults, reconfigurations, aborted>>

PeriodicTimeout(p) ==
  Started(p) /\ controller[p].period /\ OwnPort(p, periodicTimeout(controller[p]))

TransmitTimeout(p) ==
  /\ Started(p) /\ controller[p].transmissionsLeft < MAX_TRANSMISSIONS_IN_SHORT_PERIOD
  /\ OwnPort(p, replenishTranmissionsLeft(controller[p]))

MuxTimeout(p) ==
  p \in members /\ controller[p].wait /\ OwnPort(p, muxTimeout(controller[p]))

BufferShortage(p) ==
  /\ ~aborted /\ ~controller[p].noBuffer /\ Fault
  /\ controller' = [controller EXCEPT ![p].noBuffer = TRUE]
  /\ UNCHANGED <<members, subports, portToSelection, up, reconfigurations, aborted>>

BufferFreed(p) ==
  controller[p].noBuffer /\ OwnPort(p, [controller[p] EXCEPT !.noBuffer = FALSE])

PortsOf(lag) == {p \in subports : Lag[p] = lag}

\* The aggregate gets the given ports, or another name, description, priority
\* or system ID.
AggregatePortDelta(lag, ports) ==
  /\ ~aborted /\ reconfigurations < MaxReconfigurations
  /\ faults + reconfigurations < MaxFaults
  /\ reconfigurations' = reconfigurations + 1
  /\ ports \subseteq {p \in Ports : Lag[p] = lag}
  /\ subports' = (subports \ PortsOf(lag)) \cup ports

\* aggregatePortChanged(): every controller of the aggregate is removed and the
\* ports of the new configuration get fresh ones.  The selections stay, and so
\* do the subports' forwarding states.  The CHECKs want a controller for every
\* old port, and none for a new one.
Reconfigure(lag, ports) ==
  /\ AggregatePortDelta(lag, ports)
  /\ LET old == PortsOf(lag) IN
     /\ aborted' = ~(old \subseteq members /\ ports \cap (members \ old) = {})
     /\ members' = (members \ old) \cup ports
     /\ controller' =
          [p \in Ports |->
             IF p \in old \cup ports
               THEN [NewController(p) EXCEPT !.wire = controller[p].wire,
                                             !.forwarding = controller[p].forwarding]
               ELSE controller[p]]
  /\ UNCHANGED <<portToSelection, up, faults>>

\* aggregatePortChanged() that returns early: std::equal() goes by the length of
\* the old list, so ports added at its end are not noticed, and for ports
\* removed from its end it reads past the end of the new one.  Any extension or
\* restriction may be at the end, as port numbers are left out.
ReconfigureUnnoticed(lag, ports) ==
  /\ AggregatePortDelta(lag, ports)
  /\ ports # PortsOf(lag)
  /\ PortsOf(lag) \subseteq ports \/ ports \subseteq PortsOf(lag)
  /\ UNCHANGED <<controller, members, portToSelection, up, faults, aborted>>

Init ==
  /\ controller = [p \in Ports |-> NewController(p)]
  /\ members = Ports
  /\ subports = Ports
  /\ portToSelection = [p \in Ports |-> NoSelection]
  /\ up = [p \in Ports |-> FALSE]
  /\ faults = 0
  /\ reconfigurations = 0
  /\ aborted = FALSE

Next ==
  \/ \E p \in Ports :
       \/ Start(p) \/ PortUp(p) \/ PortDown(p)
       \/ Received(p) \/ Lose(p)
       \/ \E pdu \in StrangerPDUs : ReceivedFromStranger(p, pdu)
       \/ ReceiveTimeout(p) \/ PeriodicTimeout(p) \/ TransmitTimeout(p) \/ MuxTimeout(p)
       \/ BufferShortage(p) \/ BufferFreed(p)
  \/ \E lag \in {Lag[p] : p \in Ports}, ports \in SUBSET Ports :
       Reconfigure(lag, ports) \/ ReconfigureUnnoticed(lag, ports)

Spec == Init /\ [][Next]_vars

CanTransmit(p) == controller[p].transmissionsLeft > 0 /\ ~controller[p].noBuffer

CanReceive(p) == Started(p) /\ Peer[p] \in Ports /\ controller[Peer[p]].wire # << >>

\* The LACP event base runs what is posted to it (start, port events, received
\* LACPDUs) and fires the timeouts that are scheduled; links that went down
\* come back, and buffers are freed.  Each conjunct is weak fairness, most with
\* the enabling condition spelled out: infinitely often a step finds the action
\* disabled or is a step of it.  (Some step is always possible: as long as an
\* end is active, timeouts are scheduled.)  A periodic timeout that may not
\* transmit changes nothing.
Fairness ==
  \A p \in Ports :
    /\ []<><<Started(p) \/ Start(p)>>_vars
    /\ []<><<up[p] \/ PortUp(p)>>_vars
    /\ []<><<~CanReceive(p) \/ Received(p)>>_vars
    /\ []<><<~(controller[p].period /\ CanTransmit(p)) \/ PeriodicTimeout(p)>>_vars
    /\ WF_vars(TransmitTimeout(p)) /\ WF_vars(MuxTimeout(p)) /\ WF_vars(BufferFreed(p))

FairSpec == Spec /\ Fairness
-----------------------------------------------------------------------------
(* Properties *)

\* No CHECK and no LOG(FATAL) of the LACP event base fails: the receive machine
\* is DISABLED when its port comes up (ReceiveMachine::portUp), its timeout
\* only fires in CURRENT and EXPIRED (ReceiveMachine::timeoutExpired), and
\* every port signalled by a Selector has a controller (getControllersFor).  A
\* change of member ports breaks the last, as the selections of a removed port
\* stay; and one that aggregatePortChanged() does not notice makes the next fail.
NoAbort == reconfigurations = 0 => ~aborted

\* A port whose receive machine is DISABLED (ReceiveMachine::disabled, entered
\* when the port goes down) neither collects nor distributes, and the last
\* forwarding state requested of the switch for it is DISABLED.  (Subports keep
\* their forwarding state when the members of the aggregate change.)
DownPortNotForwarding ==
  reconfigurations = 0 => \A p \in members :
    controller[p].rx = "DISABLED" =>
      controller[p].mux # "COLLECTING_DISTRIBUTING" /\ ~controller[p].forwarding

\* The LAG of an entry has room for several ports.
Aggregatable(selection) ==
  selection # NoSelection /\ selection.lagID.partnerPort = NoPort

\* Ports of a LAG are SELECTED together (Selector::select) and put back to
\* STANDBY together (Selector::unselected): a LAG never keeps fewer than
\* minLinkCount SELECTED ports.
MinLinksSelected ==
  \A p \in Ports :
    LET s == portToSelection[p] IN
    Aggregatable(s) /\ s.state = "SELECTED" =>
      Cardinality({q \in Ports : portToSelection[q] = s}) >= minLinkCount[p]

\* The LAG a port has chosen is the one its partner's last LACPDU identifies:
\* whatever changes partnerInfo_ to another partner (ReceiveMachine::current,
\* defaulted, initialize) has erased the selection first.
SelectionIsCurrent ==
  \A p \in members :
    Started(p) /\ portToSelection[p] # NoSelection =>
      portToSelection[p].lagID = targetLagID(World, p)

Forwarding(p) == controller[p].mux = "COLLECTING_DISTRIBUTING"

\* Once ports stop failing, every port that is up at both ends of its link ends
\* up collecting and distributing, for good.
Converges == <>[](\A p \in Ports : Forwarding(p))
=============================================================================
